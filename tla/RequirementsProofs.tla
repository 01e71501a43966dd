-------------------------- MODULE RequirementsProofs --------------------------
(***************************************************************************)
(* That every atom of every functional requirement is traced by exactly    *)
(* one final requirement of an accepted specification, that the changes of *)
(* a meeting hit the requirements they are about and no others, and that a *)
(* new test document tests every requirement and the agent's own ids and   *)
(* numbers never clash: whatever the models answer, for any number of      *)
(* requirements, atoms, candidates, changes, entries, scenarios and cases. *)
(***************************************************************************)
EXTENDS GoldRequirements, SrsDocument, TestScenarios, NaturalLemmas

-----------------------------------------------------------------------------
(* The fine-tuned agent: its invariant *)

\* Exactly one of the sets of a sequence has e, or none has.
OneHas(s, e)  == \E i \in DOMAIN s : \A k \in DOMAIN s : e \in s[k] <=> k = i
NoneHas(s, e) == \A i \in DOMAIN s : e \notin s[i]

Field(s, name) == [i \in DOMAIN s |-> s[i][name]]
Merged(entries)  == Field(entries, "merged")
Ids(fs)        == Field(fs, "ids")

Entries(X)  == [merged : SUBSET X, context : SUBSET X]
Finals(N) == [ids : SUBSET N, from : SUBSET References]

Stages == {"off", "task1", "task2", "group", "task3", "accepted", "refused"}

TypeInv ==
  /\ goldStage \in Stages
  /\ fur \in Furs
  /\ atoms \in [Furs -> SUBSET (1..MaxAtoms)]
  /\ candidates \in Seq(SUBSET References)
  /\ groups \in SUBSET (SUBSET (DOMAIN candidates))
  /\ finals \in Seq(Finals(DOMAIN candidates))
  /\ blamed \in BOOLEAN

\* The candidates have each atom of the requirements that are done once, and no other.
TracedOnce(done) ==
  /\ \A f \in done : \A a \in AtomsOf(f) : OneHas(candidates, a)
  /\ \A c \in DOMAIN candidates : candidates[c] \subseteq UNION {AtomsOf(f) : f \in done}

CandidatesInv ==
  /\ goldStage = "task1" => candidates = <<>>
  /\ goldStage \in {"task1", "task2", "group"} => groups = {} /\ finals = <<>>
  /\ goldStage = "task2" => TracedOnce(1..(fur - 1))
  /\ goldStage \in {"group", "task3", "accepted"} => TracedOnce(Furs)

\* A candidate is part of one group that is left, or else of one final requirement.
FinalsInv ==
  /\ {} \notin groups
  /\ \A g, h \in groups : g # h => g \cap h = {}
  /\ \A c \in DOMAIN candidates :
       IF c \in UNION groups THEN NoneHas(Ids(finals), c) ELSE OneHas(Ids(finals), c)
  /\ \A i \in DOMAIN finals : \A c \in finals[i].ids : candidates[c] \subseteq finals[i].from

GoldInv ==
  /\ TypeInv
  /\ CandidatesInv
  /\ goldStage \in {"task3", "accepted"} => FinalsInv
  /\ goldStage = "accepted" => groups = {}
  /\ goldStage = "refused" => blamed

-----------------------------------------------------------------------------
(* Sequences of sets *)

\* What one of two sequences has once, and the other not at all, both together have once.
LEMMA OneHasAppended ==
  ASSUME NEW S, NEW s \in Seq(S), NEW t \in Seq(S), NEW e
  PROVE  /\ NoneHas(s, e) /\ NoneHas(t, e) => NoneHas(s \o t, e)
         /\ NoneHas(s, e) /\ OneHas(t, e) => OneHas(s \o t, e)
         /\ OneHas(s, e) /\ NoneHas(t, e) => OneHas(s \o t, e)
<1> DEFINE st == s \o t
<1>1. /\ Len(s) \in Nat /\ Len(t) \in Nat
      /\ DOMAIN s = 1..Len(s) /\ DOMAIN t = 1..Len(t) /\ DOMAIN st = 1..(Len(s) + Len(t))
      /\ \A k \in DOMAIN s : st[k] = s[k]
      /\ \A k \in DOMAIN t : st[Len(s) + k] = t[k]
  OBVIOUS
<1>2. ASSUME NEW k \in DOMAIN st
      PROVE  \/ k \in DOMAIN s
             \/ k - Len(s) \in DOMAIN t /\ k = Len(s) + (k - Len(s)) /\ k \notin DOMAIN s
  BY <1>1
<1>3. \A k \in DOMAIN s : k \in DOMAIN st
  BY <1>1
<1>4. \A k \in DOMAIN t : Len(s) + k \in DOMAIN st /\ Len(s) + k \notin DOMAIN s
  BY <1>1
<1> HIDE DEF st
<1>5. NoneHas(s, e) /\ NoneHas(t, e) => NoneHas(st, e)
  BY <1>1, <1>2 DEF NoneHas
<1>6. ASSUME NoneHas(s, e), OneHas(t, e) PROVE OneHas(st, e)
  <2>1. PICK i \in DOMAIN t : \A k \in DOMAIN t : e \in t[k] <=> k = i
    BY <1>6 DEF OneHas
  <2>2. ASSUME NEW k \in DOMAIN st PROVE e \in st[k] <=> k = Len(s) + i
    <3>1. CASE k \in DOMAIN s
      BY <1>1, <1>4, <1>6, <2>1, <3>1 DEF NoneHas
    <3>2. CASE k - Len(s) \in DOMAIN t /\ k = Len(s) + (k - Len(s))
      <4>1. st[k] = t[k - Len(s)]
        BY <1>1, <3>2
      <4>2. k - Len(s) = i <=> k = Len(s) + i
        BY <1>1, <2>1, <3>2
      <4> QED BY <2>1, <3>2, <4>1, <4>2
    <3> QED BY <1>2, <3>1, <3>2
  <2> QED BY <1>4, <2>1, <2>2 DEF OneHas
<1>7. ASSUME OneHas(s, e), NoneHas(t, e) PROVE OneHas(st, e)
  <2>1. PICK i \in DOMAIN s : \A k \in DOMAIN s : e \in s[k] <=> k = i
    BY <1>7 DEF OneHas
  <2>2. ASSUME NEW k \in DOMAIN st PROVE e \in st[k] <=> k = i
    <3>1. CASE k \in DOMAIN s
      BY <1>1, <2>1, <3>1
    <3>2. CASE k - Len(s) \in DOMAIN t /\ k = Len(s) + (k - Len(s)) /\ k \notin DOMAIN s
      <4>1. st[k] = t[k - Len(s)]
        BY <1>1, <3>2
      <4> QED BY <1>7, <2>1, <3>2, <4>1 DEF NoneHas
    <3> QED BY <1>2, <3>1, <3>2
  <2> QED BY <1>3, <2>1, <2>2 DEF OneHas
<1> QED BY <1>5, <1>6, <1>7 DEF st

\* What is picked holds each of the elements at P in one place.
EachOnce(t, s, P) ==
  \A i \in P : \E m \in DOMAIN t :
    /\ t[m] = s[i]
    /\ \A k \in DOMAIN t : k # m => \E j \in P : j # i /\ t[k] = s[j]

\* What is picked from a sequence is from one of the positions, once from each.
LEMMA PickedOnce ==
  ASSUME NEW S, NEW s \in Seq(S), NEW P \in SUBSET (1 .. Len(s))
  PROVE  /\ Pick(s, P) \in Seq(S)
         /\ \A k \in DOMAIN Pick(s, P) : \E i \in P : Pick(s, P)[k] = s[i]
         /\ EachOnce(Pick(s, P), s, P)
<1> DEFINE e == Enumeration(P)
           p == Pick(s, P)
<1>0. Len(s) \in Nat
  OBVIOUS
<1>1. /\ p \in Seq(S) /\ Cardinality(P) \in Nat
      /\ DOMAIN p = 1 .. Cardinality(P)
      /\ \A k \in 1 .. Cardinality(P) : e[k] \in P /\ p[k] = s[e[k]]
  BY PickProperties
<1>2. /\ \A i \in P : Rank(P, i) \in 1 .. Cardinality(P) /\ e[Rank(P, i)] = i
      /\ \A q, r \in 1 .. Cardinality(P) : q < r => e[q] < e[r]
  BY <1>0, EnumerationProperties
<1>3. \A i \in P : i \in Nat
  OBVIOUS
<1> HIDE DEF e, p
<1>4. ASSUME NEW q \in 1 .. Cardinality(P), NEW r \in 1 .. Cardinality(P), q # r
      PROVE  e[q] # e[r]
  <2>1. e[q] \in Nat /\ e[r] \in Nat
    BY <1>1, <1>3
  <2>2. q < r \/ r < q
    BY <1>1, <1>4
  <2> QED BY <1>2, <2>1, <2>2
<1>5. ASSUME NEW i \in P
      PROVE  \E m \in DOMAIN p :
               /\ p[m] = s[i]
               /\ \A k \in DOMAIN p : k # m => \E j \in P : j # i /\ p[k] = s[j]
  <2>1. Rank(P, i) \in DOMAIN p /\ p[Rank(P, i)] = s[i] /\ e[Rank(P, i)] = i
    BY <1>1, <1>2
  <2>2. \A k \in DOMAIN p : k # Rank(P, i) => e[k] # i /\ e[k] \in P /\ p[k] = s[e[k]]
    BY <1>1, <1>4, <2>1
  <2> QED BY <2>1, <2>2
<1> QED BY <1>1, <1>5 DEF p, EachOnce

\* A field of the records of a sequence.
LEMMA FieldIsSeq ==
  ASSUME NEW S, NEW T, NEW name, \A r \in S : r[name] \in T, NEW s \in Seq(S)
  PROVE  Field(s, name) \in Seq(T)
<1>1. Len(s) \in Nat /\ DOMAIN s = 1 .. Len(s)
  OBVIOUS
<1>2. \A i \in 1 .. Len(s) : s[i] \in S
  BY ElementOfSeq
<1>3. Field(s, name) \in [1 .. Len(s) -> T]
  BY <1>1, <1>2 DEF Field
<1> QED BY <1>1, <1>3, SeqOfFunction

\* The field of each record is the field of the record in its place.
LEMMA FieldOfAll ==
  ASSUME NEW s, NEW name, Len(s) \in Nat, DOMAIN s = 1 .. Len(s)
  PROVE  /\ Len(Field(s, name)) = Len(s) /\ DOMAIN Field(s, name) = 1 .. Len(s)
         /\ \A i \in 1 .. Len(s) : Field(s, name)[i] = s[i][name]
<1>2. DOMAIN Field(s, name) = 1 .. Len(s) /\ \A i \in 1 .. Len(s) : Field(s, name)[i] = s[i][name]
  BY DEF Field
<1>3. Field(s, name) \in [1 .. Len(s) -> {s[i][name] : i \in 1 .. Len(s)}]
  BY DEF Field
<1> QED BY <1>2, <1>3, SeqOfFunction

\* The fields of two sequences together are those of the one, then those of the other.
LEMMA FieldAppended ==
  ASSUME NEW S, NEW name, NEW s \in Seq(S), NEW t \in Seq(S)
  PROVE  Field(s \o t, name) = Field(s, name) \o Field(t, name)
<1> DEFINE T == {r[name] : r \in S}
           fs == Field(s, name)
           ft == Field(t, name)
           fst == Field(s \o t, name)
<1>1. /\ s \o t \in Seq(S) /\ Len(s \o t) = Len(s) + Len(t)
      /\ Len(s) \in Nat /\ Len(t) \in Nat /\ Len(s \o t) \in Nat
      /\ DOMAIN s = 1 .. Len(s) /\ DOMAIN t = 1 .. Len(t) /\ DOMAIN (s \o t) = 1 .. Len(s \o t)
      /\ \A i \in 1 .. Len(s) + Len(t) :
           (s \o t)[i] = IF i <= Len(s) THEN s[i] ELSE t[i - Len(s)]
  OBVIOUS
<1>2. fs \in Seq(T) /\ ft \in Seq(T) /\ fst \in Seq(T)
  BY <1>1, FieldIsSeq, Zenon
<1>3. Len(fs) = Len(s) /\ \A i \in 1 .. Len(s) : fs[i] = s[i][name]
  BY <1>1, FieldOfAll, Zenon
<1>4. Len(ft) = Len(t) /\ \A i \in 1 .. Len(t) : ft[i] = t[i][name]
  BY <1>1, FieldOfAll, Zenon
<1>5. Len(fst) = Len(s) + Len(t) /\ \A i \in 1 .. Len(s) + Len(t) : fst[i] = (s \o t)[i][name]
  <2>1. Len(fst) = Len(s \o t) /\ \A i \in 1 .. Len(s \o t) : fst[i] = (s \o t)[i][name]
    BY <1>1, FieldOfAll, Zenon
  <2> QED BY <1>1, <2>1, Zenon
<1> HIDE DEF fs, ft, fst
<1>6. /\ fs \o ft \in Seq(T)
      /\ Len(fs \o ft) = Len(s) + Len(t)
      /\ \A i \in 1 .. Len(s) + Len(t) :
           (fs \o ft)[i] = IF i <= Len(s) THEN fs[i] ELSE ft[i - Len(s)]
  <2>1. /\ fs \o ft \in Seq(T) /\ Len(fs \o ft) = Len(fs) + Len(ft)
        /\ \A i \in 1 .. Len(fs) + Len(ft) :
             (fs \o ft)[i] = IF i <= Len(fs) THEN fs[i] ELSE ft[i - Len(fs)]
    BY <1>2
  <2> QED BY <1>3, <1>4, <2>1, Zenon
<1>7. ASSUME NEW i \in 1 .. Len(s) + Len(t) PROVE fst[i] = (fs \o ft)[i]
  <2>1. CASE i <= Len(s)
    <3>1. i \in 1 .. Len(s)
      BY <1>1, <2>1
    <3> QED BY <1>1, <1>3, <1>5, <1>6, <2>1, <3>1, Zenon
  <2>2. CASE ~(i <= Len(s))
    <3>1. i - Len(s) \in 1 .. Len(t)
      BY <1>1, <2>2
    <3> QED BY <1>1, <1>4, <1>5, <1>6, <2>2, <3>1, Zenon
  <2> QED BY <2>1, <2>2
<1>8. fst = fs \o ft
  BY <1>2, <1>5, <1>6, <1>7, SeqEqual
<1> QED BY <1>8 DEF fs, ft, fst

\* So for what the items merge.
LEMMA MergedAppended ==
  ASSUME NEW X, NEW s \in Seq(Entries(X)), NEW t \in Seq(Entries(X))
  PROVE  /\ Merged(s) \in Seq(SUBSET X) /\ Merged(t) \in Seq(SUBSET X)
         /\ Merged(s \o t) = Merged(s) \o Merged(t)
<1> DEFINE name == "merged"
<1>1. \A r \in Entries(X) : r[name] \in SUBSET X
  BY DEF Entries
<1>2. Merged(s) = Field(s, name) /\ Merged(t) = Field(t, name) /\ Merged(s \o t) = Field(s \o t, name)
  BY DEF Merged
<1> HIDE DEF name
<1>3. Field(s, name) \in Seq(SUBSET X) /\ Field(t, name) \in Seq(SUBSET X)
  BY <1>1, FieldIsSeq
<1>4. Field(s \o t, name) = Field(s, name) \o Field(t, name)
  BY FieldAppended
<1> QED BY <1>2, <1>3, <1>4, Zenon

\* When the records whose field is empty are dropped, what one of the others had it has still.
LEMMA EmptyDropped ==
  ASSUME NEW S, NEW u \in Seq(S), NEW name, NEW P \in SUBSET (1 .. Len(u)),
         \A i \in DOMAIN u : i \in P <=> u[i][name] # {}
  PROVE  /\ Pick(u, P) \in Seq(S)
         /\ \A e : OneHas(Field(u, name), e) => OneHas(Field(Pick(u, P), name), e)
         /\ \A e : NoneHas(Field(u, name), e) => NoneHas(Field(Pick(u, P), name), e)
<1> DEFINE t == Pick(u, P)
<1>0. EachOnce(t, u, P)
  BY PickedOnce, Zenon
<1>1. t \in Seq(S)
  BY PickedOnce, Zenon
<1>2. \A k \in DOMAIN t : \E i \in P : t[k] = u[i]
  BY PickedOnce, SMT
<1> HIDE DEF t
<1>3. P \subseteq DOMAIN u /\ \A i \in DOMAIN u : \A e : e \in u[i][name] => i \in P
  OBVIOUS
<1>4. ASSUME NEW e, OneHas(Field(u, name), e) PROVE OneHas(Field(t, name), e)
  <2>1. PICK i \in DOMAIN u : \A k \in DOMAIN u : e \in u[k][name] <=> k = i
    BY <1>4 DEF OneHas, Field
  <2>2. i \in P
    BY <1>3, <2>1
  <2>3. PICK m \in DOMAIN t :
          /\ t[m] = u[i]
          /\ \A k \in DOMAIN t : k # m => \E j \in P : j # i /\ t[k] = u[j]
    BY <1>0, <2>2 DEF EachOnce
  <2>4. \A k \in DOMAIN t : e \in t[k][name] <=> k = m
    BY <1>3, <2>1, <2>3
  <2> QED BY <2>4 DEF OneHas, Field
<1>5. ASSUME NEW e, NoneHas(Field(u, name), e) PROVE NoneHas(Field(t, name), e)
  BY <1>2, <1>3, <1>5 DEF NoneHas, Field
<1> QED BY <1>1, <1>4, <1>5 DEF t

-----------------------------------------------------------------------------
(* TASK2 *)

\* repair_task2_unknown_atomic_references leaves items of the requirement's own atoms.
LEMMA KnownAreItems ==
  ASSUME NEW f \in Furs, NEW entries \in Seq(Entries(References))
  PROVE  KnownItems(f, entries) \in Seq(Entries(AtomsOf(f)))
<1>1. Len(entries) \in Nat /\ DOMAIN entries = 1 .. Len(entries)
  OBVIOUS
<1>2. \A i \in DOMAIN entries : [merged |-> Known(f, entries[i].merged),
                               context |-> Known(f, entries[i].context)] \in Entries(AtomsOf(f))
  BY DEF Known, Entries
<1>3. KnownItems(f, entries) \in [1 .. Len(entries) -> Entries(AtomsOf(f))]
  BY <1>1, <1>2 DEF KnownItems
<1> QED BY <1>1, <1>3, SeqOfFunction

\* Whoever keeps an atom is one of the items that merge it.
LEMMA OwnersHold ==
  ASSUME NEW entries, NEW owner \in Owners(entries), NEW a \in MergedAtoms(entries)
  PROVE  owner[a] \in DOMAIN entries /\ a \in entries[owner[a]].merged
<1>1. owner[a] \in Holders(entries, a)
  BY DEF Owners
<1> QED BY <1>1 DEF Holders

\* repair_task2_primary_assignments: an atom that is merged is merged once from then on.
LEMMA OwnedOnce ==
  ASSUME NEW X, NEW entries \in Seq(Entries(X)), NEW owner \in Owners(entries)
  PROVE  /\ OwnedBy(entries, owner) \in Seq(Entries(X))
         /\ \A a \in MergedAtoms(entries) : OneHas(Merged(OwnedBy(entries, owner)), a)
         /\ \A a : a \notin MergedAtoms(entries) => NoneHas(Merged(OwnedBy(entries, owner)), a)
<1> DEFINE own(i) == {a \in entries[i].merged : owner[a] = i}
           u == [i \in DOMAIN entries |->
                   [merged  |-> own(i),
                    context |-> entries[i].context \cup (entries[i].merged \ own(i))]]
           P == {i \in DOMAIN entries : own(i) # {}}
           t == Pick(u, P)
<1>1. Len(entries) \in Nat /\ DOMAIN entries = 1 .. Len(entries)
  OBVIOUS
<1>2. u \in Seq(Entries(X)) /\ Len(u) = Len(entries)
  <2>1. ASSUME NEW i \in DOMAIN entries
        PROVE  [merged  |-> own(i),
                context |-> entries[i].context \cup (entries[i].merged \ own(i))] \in Entries(X)
    <3>1. entries[i] \in Entries(X)
      BY ElementOfSeq
    <3> QED BY <3>1 DEF Entries
  <2>2. u \in [1 .. Len(entries) -> Entries(X)]
    BY <1>1, <2>1
  <2> QED BY <1>1, <2>2, SeqOfFunction
<1>3. P \in SUBSET (1 .. Len(u)) /\ \A i \in DOMAIN u : i \in P <=> u[i]["merged"] # {}
  BY <1>1, <1>2
<1>4. OwnedBy(entries, owner) = t
  BY DEF OwnedBy
<1>5. /\ DOMAIN Merged(u) = DOMAIN entries
      /\ \A i \in DOMAIN entries : \A a :
           a \in Merged(u)[i] <=> a \in entries[i].merged /\ owner[a] = i
  BY DEF Merged, Field
<1> HIDE DEF u, P
<1>6. /\ t \in Seq(Entries(X))
      /\ \A a : OneHas(Merged(u), a) => OneHas(Merged(t), a)
      /\ \A a : NoneHas(Merged(u), a) => NoneHas(Merged(t), a)
  BY <1>2, <1>3, EmptyDropped, Zenon DEF Merged
<1>7. ASSUME NEW a \in MergedAtoms(entries) PROVE OneHas(Merged(u), a)
  BY <1>5, OwnersHold DEF OneHas
<1>8. ASSUME NEW a, a \notin MergedAtoms(entries) PROVE NoneHas(Merged(u), a)
  BY <1>5, <1>8 DEF NoneHas, MergedAtoms
<1> QED BY <1>4, <1>6, <1>7, <1>8

\* repair_task2_missing_atomic_assignments: and so is an atom nobody merges.
LEMMA MissingOnce ==
  ASSUME atoms \in [Furs -> SUBSET (1..MaxAtoms)],
         NEW f \in Furs, NEW entries \in Seq(Entries(AtomsOf(f))),
         \A a \in AtomsOf(f) : OneHas(Merged(entries), a) \/ NoneHas(Merged(entries), a)
  PROVE  /\ MissingRepaired(f, entries) \in Seq(Entries(AtomsOf(f)))
         /\ \A a \in AtomsOf(f) : OneHas(Merged(MissingRepaired(f, entries)), a)
<1> DEFINE missing == {l \in atoms[f] : <<f, l>> \notin MergedAtoms(entries)}
           added == [k \in 1..Cardinality(missing) |->
                       [merged |-> {<<f, Position(missing, k)>>}, context |-> {}]]
           all == entries \o added
<1>1. MissingRepaired(f, entries) = all
  BY DEF MissingRepaired
<1>2. MaxAtoms \in Nat /\ missing \in SUBSET (1 .. MaxAtoms)
  BY GoldAssumption
<1>3. \A l : l \in missing <=> l \in atoms[f] /\ <<f, l>> \notin MergedAtoms(entries)
  OBVIOUS
<1> HIDE DEF missing
<1>4. /\ Cardinality(missing) \in Nat
      /\ \A k \in 1 .. Cardinality(missing) : Position(missing, k) \in missing
      /\ \A l \in missing : \E m \in 1 .. Cardinality(missing) :
           \A k \in 1 .. Cardinality(missing) : Position(missing, k) = l <=> k = m
  BY <1>2, PositionOnce
<1>5. \A a : a \in AtomsOf(f) <=> \E l \in atoms[f] : a = <<f, l>>
  BY DEF AtomsOf
<1>6. added \in Seq(Entries(AtomsOf(f))) /\ DOMAIN added = 1 .. Cardinality(missing)
  <2>1. ASSUME NEW k \in 1 .. Cardinality(missing)
        PROVE  [merged |-> {<<f, Position(missing, k)>>}, context |-> {}] \in Entries(AtomsOf(f))
    <3>1. <<f, Position(missing, k)>> \in AtomsOf(f)
      BY <1>3, <1>4, <1>5
    <3> QED BY <3>1 DEF Entries
  <2>2. added \in [1 .. Cardinality(missing) -> Entries(AtomsOf(f))]
    BY <2>1
  <2> HIDE DEF added
  <2> QED BY <1>4, <2>2, SeqOfFunction, SMTT(30)
<1>7. \A k \in 1 .. Cardinality(missing) : added[k].merged = {<<f, Position(missing, k)>>}
  OBVIOUS
<1> HIDE DEF added
<1>8. all \in Seq(Entries(AtomsOf(f)))
  BY <1>6
<1>9. /\ Merged(entries) \in Seq(SUBSET AtomsOf(f)) /\ Merged(added) \in Seq(SUBSET AtomsOf(f))
      /\ Merged(all) = Merged(entries) \o Merged(added)
  BY <1>6, MergedAppended
<1>10. ASSUME NEW a \in AtomsOf(f) PROVE OneHas(Merged(all), a)
  <2>0. PICK l \in atoms[f] : a = <<f, l>>
    BY <1>5
  <2>1. a \in MergedAtoms(entries) <=> ~NoneHas(Merged(entries), a)
    BY DEF MergedAtoms, Merged, Field, NoneHas
  <2>2. /\ DOMAIN Merged(added) = 1 .. Cardinality(missing)
        /\ \A k \in 1 .. Cardinality(missing) :
             a \in Merged(added)[k] <=> Position(missing, k) = l
    BY <1>6, <1>7, <2>0 DEF Merged, Field
  <2>3. CASE l \in missing
    <3>1. NoneHas(Merged(entries), a)
      BY <1>3, <2>0, <2>1, <2>3
    <3>2. OneHas(Merged(added), a)
      BY <1>4, <2>2, <2>3 DEF OneHas
    <3> QED BY <1>9, <3>1, <3>2, OneHasAppended
  <2>4. CASE l \notin missing
    <3>1. OneHas(Merged(entries), a)
      BY <1>3, <2>0, <2>1, <2>4
    <3>2. NoneHas(Merged(added), a)
      BY <1>4, <2>2, <2>4 DEF NoneHas
    <3> QED BY <1>9, <3>1, <3>2, OneHasAppended
  <2> QED BY <2>3, <2>4
<1> QED BY <1>1, <1>8, <1>10

\* After the repairs validate_task2_atomic_coverage has nothing to object to.
LEMMA RepairedCovers ==
  ASSUME atoms \in [Furs -> SUBSET (1..MaxAtoms)],
         NEW f \in Furs, NEW entries \in Seq(Entries(References)), NEW result \in Repaired2(f, entries)
  PROVE  /\ Merged(result) \in Seq(SUBSET AtomsOf(f))
         /\ \A a \in AtomsOf(f) : OneHas(Merged(result), a)
         /\ CoversAtoms(AtomsOf(f), result)
<1> DEFINE known == KnownItems(f, entries)
<1>1. known \in Seq(Entries(AtomsOf(f)))
  BY KnownAreItems
<1>2. PICK owner \in Owners(known) : result = MissingRepaired(f, OwnedBy(known, owner))
  BY DEF Repaired2, PrimaryRepaired
<1> HIDE DEF known
<1>3. /\ OwnedBy(known, owner) \in Seq(Entries(AtomsOf(f)))
      /\ \A a : OneHas(Merged(OwnedBy(known, owner)), a) \/ NoneHas(Merged(OwnedBy(known, owner)), a)
  BY <1>1, OwnedOnce
<1>4. result \in Seq(Entries(AtomsOf(f))) /\ \A a \in AtomsOf(f) : OneHas(Merged(result), a)
  BY <1>2, <1>3, MissingOnce
<1>5. Merged(result) \in Seq(SUBSET AtomsOf(f))
  BY <1>4, MergedAppended
<1>6. ASSUME NEW a \in AtomsOf(f) PROVE Cardinality(Holders(result, a)) = 1
  <2>0. /\ OneHas(Merged(result), a) /\ DOMAIN Merged(result) = DOMAIN result
        /\ \A k \in DOMAIN result : Merged(result)[k] = result[k].merged
    BY <1>4, <1>6 DEF Merged, Field
  <2>1. PICK i \in DOMAIN result : \A k \in DOMAIN result : a \in result[k].merged <=> k = i
    BY <2>0 DEF OneHas
  <2>2. Holders(result, a) = {i}
    BY <2>1 DEF Holders
  <2> QED BY <2>2, FS_Singleton
<1>7. ASSUME NEW i \in DOMAIN result
      PROVE  result[i].merged \cup result[i].context \subseteq AtomsOf(f)
  <2>1. result[i] \in Entries(AtomsOf(f))
    BY <1>4, ElementOfSeq
  <2> QED BY <2>1 DEF Entries
<1> QED BY <1>4, <1>5, <1>6, <1>7 DEF CoversAtoms

-----------------------------------------------------------------------------
(* TASK3 *)

\* So for the candidates of the finals.
LEMMA IdsAppended ==
  ASSUME NEW N, NEW s \in Seq(Finals(N)), NEW t \in Seq(Finals(N))
  PROVE  /\ Ids(s) \in Seq(SUBSET N) /\ Ids(t) \in Seq(SUBSET N)
         /\ Ids(s \o t) = Ids(s) \o Ids(t)
<1> DEFINE name == "ids"
<1>1. \A r \in Finals(N) : r[name] \in SUBSET N
  BY DEF Finals
<1>2. Ids(s) = Field(s, name) /\ Ids(t) = Field(t, name) /\ Ids(s \o t) = Field(s \o t, name)
  BY DEF Ids
<1> HIDE DEF name
<1>3. Field(s, name) \in Seq(SUBSET N) /\ Field(t, name) \in Seq(SUBSET N)
  BY <1>1, FieldIsSeq
<1>4. Field(s \o t, name) = Field(s, name) \o Field(t, name)
  BY FieldAppended
<1> QED BY <1>2, <1>3, <1>4, Zenon

\* One of the finals a candidate is part of keeps it.
LEMMA KeeperKeeps ==
  ASSUME NEW N, IsFiniteSet(N), NEW fs \in Seq(Finals(N)),
         NEW c, \E i \in DOMAIN fs : c \in fs[i].ids
  PROVE  Keeper(fs, c) \in DOMAIN fs /\ c \in fs[Keeper(fs, c)].ids
<1> DEFINE having == {i \in DOMAIN fs : c \in fs[i].ids}
           Size(i) == Cardinality(fs[i].ids)
           least(i) == \A k \in having : \/ Size(i) < Size(k)
                                         \/ Size(i) = Size(k) /\ i <= k
<1>1. DOMAIN fs = 1 .. Len(fs) /\ Len(fs) \in Nat
  OBVIOUS
<1>2. ASSUME NEW i \in DOMAIN fs PROVE Size(i) \in Nat
  <2>1. fs[i] \in Finals(N)
    BY ElementOfSeq, <1>1
  <2>2. fs[i].ids \in SUBSET N
    BY <2>1 DEF Finals
  <2>3. IsFiniteSet(fs[i].ids)
    BY <2>2, FS_Subset
  <2> QED BY <2>3, FS_CardinalityType
<1>3. having # {} /\ having \subseteq DOMAIN fs /\ having \subseteq Nat
  BY <1>1
<1> HIDE DEF Size, having
<1>4. PICK m \in {Size(i) : i \in having} : \A n \in {Size(i) : i \in having} : m <= n
  <2>1. {Size(i) : i \in having} \in SUBSET Nat /\ {Size(i) : i \in having} # {}
    BY <1>2, <1>3
  <2> QED BY <2>1, LeastNatural
<1>5. PICK i \in {k \in having : Size(k) = m} : \A k \in {j \in having : Size(j) = m} : i <= k
  <2>1. {k \in having : Size(k) = m} \in SUBSET Nat /\ {k \in having : Size(k) = m} # {}
    BY <1>3, <1>4
  <2> QED BY <2>1, LeastNatural
<1>6. i \in having /\ Size(i) = m /\ m \in Nat
  BY <1>2, <1>3, <1>4, <1>5
<1>7. ASSUME NEW k \in having PROVE Size(i) < Size(k) \/ (Size(i) = Size(k) /\ i <= k)
  <2>1. m <= Size(k) /\ Size(k) \in Nat
    BY <1>2, <1>3, <1>4
  <2>2. CASE Size(k) = m
    BY <1>5, <1>6, <2>2
  <2>3. CASE Size(k) # m
    BY <1>6, <2>1, <2>3
  <2> QED BY <2>2, <2>3
<1>8. least(i)
  BY <1>7
<1>9. Keeper(fs, c) = CHOOSE k \in having : least(k)
  BY DEF Keeper, Size, having
<1> HIDE DEF least
<1>10. Keeper(fs, c) \in having
  BY <1>6, <1>8, <1>9
<1> QED BY <1>10 DEF having

\* repair_duplicate_final_task2_assignment: every candidate that is in some final is in one.
LEMMA KeptOnce ==
  ASSUME NEW N, IsFiniteSet(N), NEW fs \in Seq(Finals(N))
  PROVE  /\ DuplicatesRepaired(fs) \in Seq(Finals(N))
         /\ \A c : (\E i \in DOMAIN fs : c \in fs[i].ids) => OneHas(Ids(DuplicatesRepaired(fs)), c)
         /\ \A c : (\A i \in DOMAIN fs : c \notin fs[i].ids) => NoneHas(Ids(DuplicatesRepaired(fs)), c)
<1> DEFINE kept(i) == {c \in fs[i].ids : Keeper(fs, c) = i}
           u == [i \in DOMAIN fs |-> Final(kept(i), fs[i].from)]
           P == {i \in DOMAIN fs : kept(i) # {}}
           t == Pick(u, P)
<1>1. Len(fs) \in Nat /\ DOMAIN fs = 1 .. Len(fs)
  OBVIOUS
<1>2. u \in Seq(Finals(N)) /\ Len(u) = Len(fs)
  <2>1. ASSUME NEW i \in DOMAIN fs PROVE Final(kept(i), fs[i].from) \in Finals(N)
    <3>1. fs[i] \in Finals(N)
      BY ElementOfSeq
    <3> QED BY <3>1 DEF Finals, Final
  <2>2. u \in [1 .. Len(fs) -> Finals(N)]
    BY <1>1, <2>1
  <2> QED BY <1>1, <2>2, SeqOfFunction
<1>3. P \in SUBSET (1 .. Len(u)) /\ \A i \in DOMAIN u : i \in P <=> u[i]["ids"] # {}
  BY <1>1, <1>2 DEF Final
<1>4. DuplicatesRepaired(fs) = t
  BY DEF DuplicatesRepaired
<1>5. /\ DOMAIN Ids(u) = DOMAIN fs
      /\ \A i \in DOMAIN fs : \A c : c \in Ids(u)[i] <=> c \in fs[i].ids /\ Keeper(fs, c) = i
  BY DEF Ids, Field, Final
<1> HIDE DEF u, P
<1>6. /\ t \in Seq(Finals(N))
      /\ \A c : OneHas(Ids(u), c) => OneHas(Ids(t), c)
      /\ \A c : NoneHas(Ids(u), c) => NoneHas(Ids(t), c)
  BY <1>2, <1>3, EmptyDropped, Zenon DEF Ids
<1>7. ASSUME NEW c, \E i \in DOMAIN fs : c \in fs[i].ids PROVE OneHas(Ids(u), c)
  <2>1. Keeper(fs, c) \in DOMAIN fs /\ c \in fs[Keeper(fs, c)].ids
    BY <1>7, KeeperKeeps
  <2> QED BY <1>5, <2>1 DEF OneHas
<1>8. ASSUME NEW c, \A i \in DOMAIN fs : c \notin fs[i].ids PROVE NoneHas(Ids(u), c)
  BY <1>5, <1>8 DEF NoneHas
<1> QED BY <1>4, <1>6, <1>7, <1>8

\* restore_missing_group_coverage: every candidate of the group is in some final, and no
\* candidate that was neither in the group nor in a final.
LEMMA CoverageIsRestored ==
  ASSUME candidates \in Seq(SUBSET References), NEW group \in SUBSET (DOMAIN candidates),
         NEW N, group \subseteq N, NEW fs \in Seq(Finals(N))
  PROVE  /\ CoverageRestored(group, fs) \in Seq(Finals(N))
         /\ \A c : (\E i \in DOMAIN CoverageRestored(group, fs) :
                      c \in CoverageRestored(group, fs)[i].ids)
                   <=> c \in group \/ \E i \in DOMAIN fs : c \in fs[i].ids
<1> DEFINE lost == group \ UNION {fs[i].ids : i \in DOMAIN fs}
           added == [k \in 1..Cardinality(lost) |->
                       LET c == Position(lost, k) IN Final({c}, candidates[c])]
           all == fs \o added
<1>1. CoverageRestored(group, fs) = all
  BY DEF CoverageRestored
<1>2. /\ Len(candidates) \in Nat /\ DOMAIN candidates = 1 .. Len(candidates)
      /\ lost \in SUBSET (1 .. Len(candidates)) /\ lost \subseteq group
  OBVIOUS
<1>3. \A c : c \in lost <=> c \in group /\ ~\E i \in DOMAIN fs : c \in fs[i].ids
  OBVIOUS
<1> HIDE DEF lost
<1>4. /\ Cardinality(lost) \in Nat
      /\ \A k \in 1 .. Cardinality(lost) : Position(lost, k) \in lost
      /\ \A c \in lost : \E m \in 1 .. Cardinality(lost) : Position(lost, m) = c
  BY <1>2, PositionProperties
<1>5. added \in Seq(Finals(N)) /\ Len(added) = Cardinality(lost)
  <2>1. ASSUME NEW k \in 1 .. Cardinality(lost)
        PROVE  Final({Position(lost, k)}, candidates[Position(lost, k)]) \in Finals(N)
    <3>1. Position(lost, k) \in N /\ Position(lost, k) \in 1 .. Len(candidates)
      BY <1>2, <1>4
    <3>2. candidates[Position(lost, k)] \in SUBSET References
      BY <3>1, ElementOfSeq
    <3> QED BY <3>1, <3>2 DEF Final, Finals
  <2>2. added \in [1 .. Cardinality(lost) -> Finals(N)]
    BY <2>1
  <2> QED BY <1>4, <2>2, SeqOfFunction
<1>6. \A k \in 1 .. Cardinality(lost) : added[k].ids = {Position(lost, k)}
  BY DEF Final
<1> HIDE DEF added
<1>7. /\ all \in Seq(Finals(N)) /\ Len(fs) \in Nat
      /\ DOMAIN fs = 1 .. Len(fs) /\ DOMAIN all = 1 .. (Len(fs) + Cardinality(lost))
      /\ \A i \in DOMAIN fs : all[i] = fs[i]
      /\ \A k \in 1 .. Cardinality(lost) : all[Len(fs) + k] = added[k]
  <2>1. /\ all \in Seq(Finals(N)) /\ Len(fs) \in Nat /\ DOMAIN fs = 1 .. Len(fs)
        /\ DOMAIN all = 1 .. (Len(fs) + Len(added))
        /\ \A i \in DOMAIN fs : all[i] = fs[i]
        /\ \A k \in 1 .. Len(added) : all[Len(fs) + k] = added[k]
    <3>1. all \in Seq(Finals(N)) /\ Follows(all, fs, added)
      BY <1>5, Appended, Zenon
    <3> HIDE DEF all
    <3> QED BY <3>1 DEF Follows
  <2> QED BY <1>5, <2>1, Zenon
<1> HIDE DEF all
<1>8. ASSUME NEW c, c \in group \/ \E i \in DOMAIN fs : c \in fs[i].ids
      PROVE  \E i \in DOMAIN all : c \in all[i].ids
  <2>1. CASE \E i \in DOMAIN fs : c \in fs[i].ids
    <3>1. PICK i \in DOMAIN fs : c \in fs[i].ids
      BY <2>1
    <3>2. i \in DOMAIN all
      BY <1>4, <1>7
    <3> QED BY <1>7, <3>1, <3>2
  <2>2. CASE c \in lost
    <3>1. PICK m \in 1 .. Cardinality(lost) : Position(lost, m) = c
      BY <1>4, <2>2
    <3>2. Len(fs) + m \in DOMAIN all
      BY <1>4, <1>7
    <3> QED BY <1>6, <1>7, <3>1, <3>2
  <2> QED BY <1>3, <1>8, <2>1, <2>2
<1>9. ASSUME NEW c, NEW i \in DOMAIN all, c \in all[i].ids
      PROVE  c \in group \/ \E k \in DOMAIN fs : c \in fs[k].ids
  <2>1. CASE i \in DOMAIN fs
    BY <1>7, <1>9, <2>1
  <2>2. CASE i \notin DOMAIN fs
    <3>1. PICK k \in 1 .. Cardinality(lost) : i = Len(fs) + k
      <4>1. i - Len(fs) \in 1 .. Cardinality(lost) /\ i = Len(fs) + (i - Len(fs))
        BY <1>4, <1>7, <2>2
      <4> QED BY <4>1
    <3>2. c = Position(lost, k)
      BY <1>6, <1>7, <1>9, <3>1
    <3> QED BY <1>2, <1>4, <3>2
  <2> QED BY <2>1, <2>2
<1> QED BY <1>1, <1>7, <1>8, <1>9

\* What the two repairs of a group return: each of its candidates, and of those a model
\* named besides, is part of one final.
LEMMA RepairedOnce ==
  ASSUME candidates \in Seq(SUBSET References), NEW group \in SUBSET (DOMAIN candidates),
         NEW N, IsFiniteSet(N), group \subseteq N, NEW fs \in Seq(Finals(N))
  PROVE  /\ Repaired3(group, fs) \in Seq(Finals(N))
         /\ \A c : IF c \in group \/ (\E i \in DOMAIN fs : c \in fs[i].ids)
                   THEN OneHas(Ids(Repaired3(group, fs)), c)
                   ELSE NoneHas(Ids(Repaired3(group, fs)), c)
<1> DEFINE all == CoverageRestored(group, fs)
<1>1. /\ all \in Seq(Finals(N))
      /\ \A c : (\E i \in DOMAIN all : c \in all[i].ids)
                  <=> c \in group \/ \E i \in DOMAIN fs : c \in fs[i].ids
  BY CoverageIsRestored, Zenon
<1>2. Repaired3(group, fs) = DuplicatesRepaired(all)
  BY DEF Repaired3
<1> HIDE DEF all
<1>3. /\ DuplicatesRepaired(all) \in Seq(Finals(N))
      /\ \A c : (\E i \in DOMAIN all : c \in all[i].ids) => OneHas(Ids(DuplicatesRepaired(all)), c)
      /\ \A c : (\A i \in DOMAIN all : c \notin all[i].ids)
                  => NoneHas(Ids(DuplicatesRepaired(all)), c)
  BY <1>1, KeptOnce, Zenon
<1> QED BY <1>1, <1>2, <1>3, Zenon

\* Finals that have each candidate of a group once pass the two checks.
LEMMA OnceIsCovered ==
  ASSUME NEW N, NEW group, NEW fs \in Seq(Finals(N)),
         \A c : IF c \in group THEN OneHas(Ids(fs), c) ELSE NoneHas(Ids(fs), c)
  PROVE  CoversGroup(group, fs)
<1>1. DOMAIN Ids(fs) = DOMAIN fs /\ \A i \in DOMAIN fs : Ids(fs)[i] = fs[i].ids
  BY DEF Ids, Field
<1>2. \A c \in group : \E i \in DOMAIN fs : \A k \in DOMAIN fs : c \in fs[k].ids <=> k = i
  BY <1>1 DEF OneHas
<1>3. \A c : c \notin group => \A i \in DOMAIN fs : c \notin fs[i].ids
  BY <1>1 DEF NoneHas
<1>4. UNION {fs[i].ids : i \in DOMAIN fs} = group
  <2>1. \A c : c \in group <=> \E i \in DOMAIN fs : c \in fs[i].ids
    BY <1>2, <1>3
  <2> QED BY <2>1
<1>5. ASSUME NEW i \in DOMAIN fs, NEW k \in DOMAIN fs, i # k PROVE fs[i].ids \cap fs[k].ids = {}
  BY <1>2, <1>3, <1>5
<1> QED BY <1>4, <1>5 DEF CoversGroup

\* ... and a list that passes the check has each candidate once.
LEMMA CoveredIsOnce ==
  ASSUME NEW group, NEW fs, CoversGroup(group, fs)
  PROVE  \A c : IF c \in group THEN OneHas(Ids(fs), c) ELSE NoneHas(Ids(fs), c)
<1>1. DOMAIN Ids(fs) = DOMAIN fs /\ \A i \in DOMAIN fs : Ids(fs)[i] = fs[i].ids
  BY DEF Ids, Field
<1>2. /\ \A c : c \in group <=> \E i \in DOMAIN fs : c \in fs[i].ids
      /\ \A i, k \in DOMAIN fs : i # k => fs[i].ids \cap fs[k].ids = {}
  BY DEF CoversGroup
<1>3. ASSUME NEW c \in group PROVE OneHas(Ids(fs), c)
  <2>1. PICK i \in DOMAIN fs : c \in fs[i].ids
    BY <1>2
  <2>2. \A k \in DOMAIN fs : c \in fs[k].ids <=> k = i
    BY <1>2, <2>1
  <2> QED BY <1>1, <2>2 DEF OneHas
<1>4. ASSUME NEW c, c \notin group PROVE NoneHas(Ids(fs), c)
  BY <1>1, <1>2, <1>4 DEF NoneHas
<1> QED BY <1>3, <1>4

-----------------------------------------------------------------------------
(* The steps *)

\* The invariant holds initially,
LEMMA GoldInit == GoldOff \/ GoldBegun => GoldInv
<1> SUFFICES ASSUME GoldOff \/ GoldBegun PROVE GoldInv
  OBVIOUS
<1>1. /\ goldStage \in {"off", "task1"} /\ fur = 1 /\ atoms = [f \in Furs |-> {}]
      /\ candidates = <<>> /\ groups = {} /\ finals = <<>> /\ blamed = FALSE
  BY DEF GoldOff, GoldBegun
<1>2. TypeInv
  <2>1. fur \in Furs /\ atoms \in [Furs -> SUBSET (1..MaxAtoms)]
    BY <1>1, GoldAssumption DEF Furs
  <2>2. candidates \in Seq(SUBSET References) /\ finals \in Seq(Finals(DOMAIN candidates))
    BY <1>1
  <2> QED BY <1>1, <2>1, <2>2 DEF TypeInv, Stages
<1> QED BY <1>1, <1>2 DEF GoldInv, CandidatesInv

\* and each step keeps it: a run that ends for want of an answer;
LEMMA NoAnswerKeeps == GoldInv /\ NoAnswer => GoldInv'
<1> SUFFICES ASSUME GoldInv, NoAnswer PROVE GoldInv'
  OBVIOUS
<1>1. TypeInv'
  BY DEF GoldInv, TypeInv, NoAnswer, Stages, Finals, References, Furs
<1> QED BY <1>1 DEF GoldInv, CandidatesInv, NoAnswer

\* the next requirement is one of the document's;
LEMMA FollowingTypes ==
  ASSUME fur \in Furs, NEW next, Following(next)
  PROVE  /\ fur' \in Furs
         /\ \/ fur = NumFurs /\ goldStage' = next /\ fur' = 1
            \/ fur # NumFurs /\ goldStage' = goldStage /\ fur' = fur + 1
BY GoldAssumption DEF Following, Furs

\* the atoms of a requirement;
LEMMA DecomposeKeeps == GoldInv /\ Decompose => GoldInv'
<1> SUFFICES ASSUME GoldInv, Decompose PROVE GoldInv'
  OBVIOUS
<1>1. /\ goldStage = "task1" /\ fur \in Furs /\ candidates = <<>> /\ groups = {} /\ finals = <<>>
      /\ candidates' = candidates /\ groups' = groups /\ finals' = finals /\ blamed' = blamed
      /\ blamed \in BOOLEAN
  BY DEF GoldInv, TypeInv, CandidatesInv, Decompose
<1>2. atoms' \in [Furs -> SUBSET (1..MaxAtoms)]
  BY DEF GoldInv, TypeInv, Decompose
<1>3. Following("task2")
  BY DEF Decompose
<1>4. /\ fur' \in Furs
      /\ \/ fur = NumFurs /\ goldStage' = "task2" /\ fur' = 1
         \/ fur # NumFurs /\ goldStage' = goldStage /\ fur' = fur + 1
  BY <1>1, <1>3, FollowingTypes
<1>5. TypeInv'
  BY <1>1, <1>2, <1>4 DEF TypeInv, Stages
<1>6. CASE goldStage' = "task2" /\ fur' = 1
  <2>1. TracedOnce(1..(fur - 1))'
    BY <1>1, <1>6 DEF TracedOnce
  <2> QED BY <1>1, <1>5, <1>6, <2>1 DEF GoldInv, CandidatesInv
<1>7. CASE goldStage' = "task1"
  BY <1>1, <1>5, <1>7 DEF GoldInv, CandidatesInv
<1> QED BY <1>1, <1>4, <1>6, <1>7

\* an answer to the second task is a sequence of items;
LEMMA AnswersAreItems ==
  ASSUME NEW answer \in Answers2
  PROVE  answer \in Seq(Entries(References))
<1> DEFINE Of(n) == {[i \in 1..n |-> [merged |-> m[i], context |-> c]] :
                        m \in [1..n -> SUBSET References], c \in {{}, References}}
<1>0. answer \in UNION {Of(n) : n \in 1..MaxItems}
  BY DEF Answers2
<1> HIDE DEF Of
<1>1. PICK n \in 1..MaxItems : answer \in Of(n)
  BY <1>0
<1>2. PICK m \in [1..n -> SUBSET References], c \in {{}, References} :
        answer = [i \in 1..n |-> [merged |-> m[i], context |-> c]]
  BY <1>1 DEF Of
<1>3. n \in Nat
  BY GoldAssumption
<1>4. answer \in [1..n -> Entries(References)]
  BY <1>2 DEF Entries
<1> QED BY <1>3, <1>4, SeqOfFunction

\* the candidates of a requirement, which hold its atoms once;
LEMMA NormalizeKeeps == GoldInv /\ Normalize => GoldInv'
<1> SUFFICES ASSUME GoldInv, Normalize PROVE GoldInv'
  OBVIOUS
<1>1. /\ goldStage = "task2" /\ fur \in Furs /\ groups = {} /\ finals = <<>>
      /\ TracedOnce(1..(fur - 1)) /\ candidates \in Seq(SUBSET References)
      /\ atoms \in [Furs -> SUBSET (1..MaxAtoms)] /\ blamed \in BOOLEAN
      /\ groups' = groups /\ finals' = finals /\ blamed' = blamed /\ atoms' = atoms
  BY DEF GoldInv, TypeInv, CandidatesInv, Normalize
<1>2. PICK answer \in Answers2 : \E entries \in Repaired2(fur, answer) :
        IF CoversAtoms(AtomsOf(fur), entries)
        THEN /\ candidates' = candidates \o [i \in DOMAIN entries |-> entries[i].merged]
             /\ Following("group")
        ELSE goldStage' = "refused" /\ UNCHANGED <<fur, candidates>>
  BY DEF Normalize
<1>2a. PICK entries \in Repaired2(fur, answer) :
        IF CoversAtoms(AtomsOf(fur), entries)
        THEN /\ candidates' = candidates \o [i \in DOMAIN entries |-> entries[i].merged]
             /\ Following("group")
        ELSE goldStage' = "refused" /\ UNCHANGED <<fur, candidates>>
  BY <1>2
<1> DEFINE new == Merged(entries)
<1>3. /\ new \in Seq(SUBSET AtomsOf(fur))
      /\ \A a \in AtomsOf(fur) : OneHas(new, a)
      /\ CoversAtoms(AtomsOf(fur), entries)
  BY <1>1, AnswersAreItems, RepairedCovers
<1>4. candidates' = candidates \o new /\ Following("group")
  BY <1>2a, <1>3 DEF Merged, Field
<1> HIDE DEF new
<1>5. /\ fur' \in Furs
      /\ \/ fur = NumFurs /\ goldStage' = "group" /\ fur' = 1
         \/ fur # NumFurs /\ goldStage' = goldStage /\ fur' = fur + 1
  BY <1>1, <1>4, FollowingTypes
<1>6. /\ \A f \in Furs : AtomsOf(f)' = AtomsOf(f) /\ AtomsOf(f) \subseteq References
      /\ \A f, g \in Furs : f # g => AtomsOf(f) \cap AtomsOf(g) = {}
  BY <1>1 DEF AtomsOf, References
<1>7. new \in Seq(SUBSET References)
  BY <1>1, <1>3, <1>6, SeqMonotonic
<1>8. /\ candidates' \in Seq(SUBSET References)
      /\ Len(candidates) \in Nat /\ Len(new) \in Nat
      /\ DOMAIN candidates = 1 .. Len(candidates) /\ DOMAIN new = 1 .. Len(new)
      /\ DOMAIN candidates' = 1 .. (Len(candidates) + Len(new))
      /\ \A c \in DOMAIN candidates : candidates'[c] = candidates[c]
      /\ \A k \in DOMAIN new : candidates'[Len(candidates) + k] = new[k]
  BY <1>1, <1>4, <1>7
<1>9. 1 .. fur \subseteq Furs /\ \A f \in 1 .. fur : f = fur \/ f \in 1..(fur - 1)
  BY <1>1, GoldAssumption DEF Furs
<1>10. ASSUME NEW f \in 1 .. fur, NEW a \in AtomsOf(f) PROVE OneHas(candidates', a)
  <2>1. CASE f = fur
    <3>1. OneHas(new, a)
      BY <1>3, <1>10, <2>1
    <3>2. NoneHas(candidates, a)
      <4>1. \A g \in 1..(fur - 1) : a \notin AtomsOf(g)
        BY <1>6, <1>9, <1>10, <2>1 DEF Furs
      <4> QED BY <1>1, <4>1 DEF TracedOnce, NoneHas
    <3> QED BY <1>1, <1>4, <1>7, <3>1, <3>2, OneHasAppended
  <2>2. CASE f \in 1..(fur - 1)
    <3>1. OneHas(candidates, a)
      BY <1>1, <1>10, <2>2 DEF TracedOnce
    <3>2. NoneHas(new, a)
      <4>1. a \notin AtomsOf(fur)
        BY <1>1, <1>6, <1>9, <1>10, <2>2 DEF Furs
      <4>2. \A k \in DOMAIN new : new[k] \subseteq AtomsOf(fur)
        BY <1>3
      <4> QED BY <4>1, <4>2 DEF NoneHas
    <3> QED BY <1>1, <1>4, <1>7, <3>1, <3>2, OneHasAppended
  <2> QED BY <1>9, <2>1, <2>2
<1>11. ASSUME NEW c \in DOMAIN candidates'
       PROVE  candidates'[c] \subseteq UNION {AtomsOf(f) : f \in 1 .. fur}
  <2>1. CASE c \in DOMAIN candidates
    <3>1. candidates'[c] \subseteq UNION {AtomsOf(f) : f \in 1..(fur - 1)}
      BY <1>1, <1>8, <2>1 DEF TracedOnce
    <3>2. 1..(fur - 1) \subseteq 1 .. fur
      BY <1>1 DEF Furs
    <3> QED BY <3>1, <3>2
  <2>2. CASE c \notin DOMAIN candidates
    <3>1. c - Len(candidates) \in DOMAIN new /\ c = Len(candidates) + (c - Len(candidates))
      BY <1>8, <2>2
    <3>2. candidates'[c] = new[c - Len(candidates)]
      BY <1>8, <3>1
    <3>3. candidates'[c] \subseteq AtomsOf(fur) /\ fur \in 1 .. fur
      BY <1>1, <1>3, <3>1, <3>2 DEF Furs
    <3> QED BY <3>3
  <2> QED BY <2>1, <2>2
<1>12. ASSUME NEW done, done = 1 .. fur
       PROVE  /\ \A f \in done : \A a \in AtomsOf(f)' : OneHas(candidates', a)
              /\ \A c \in DOMAIN candidates' : candidates'[c] \subseteq UNION {AtomsOf(f)' : f \in done}
  <2>1. \A f \in done : AtomsOf(f)' = AtomsOf(f)
    BY <1>6, <1>9, <1>12
  <2>2. {AtomsOf(f)' : f \in done} = {AtomsOf(f) : f \in done}
    BY <2>1
  <2> QED BY <1>10, <1>11, <1>12, <2>1, <2>2
<1>13. TypeInv'
  BY <1>1, <1>5, <1>8 DEF TypeInv, Stages
<1>14. CASE fur = NumFurs /\ goldStage' = "group"
  <2>1. TracedOnce(Furs)'
    BY <1>12, <1>14 DEF TracedOnce, Furs, OneHas
  <2> QED BY <1>1, <1>13, <1>14, <2>1 DEF GoldInv, CandidatesInv
<1>15. CASE goldStage' = "task2" /\ fur' = fur + 1
  <2>1. TracedOnce(1..(fur - 1))'
    <3>1. 1..(fur' - 1) = 1 .. fur
      BY <1>1, <1>15 DEF Furs
    <3>2. /\ \A f \in 1..(fur' - 1) : \A a \in AtomsOf(f)' : OneHas(candidates', a)
          /\ \A c \in DOMAIN candidates' :
               candidates'[c] \subseteq UNION {AtomsOf(f)' : f \in 1..(fur' - 1)}
      BY <1>12, <3>1, Zenon
    <3> QED BY <3>2 DEF TracedOnce, OneHas
  <2> QED BY <1>1, <1>13, <1>15, <2>1 DEF GoldInv, CandidatesInv
<1> QED BY <1>1, <1>5, <1>14, <1>15

\* The candidates that are similar to none, each final as it is.
Singles(rest) ==
  [i \in 1..Cardinality(rest) |-> LET c == Position(rest, i) IN Final({c}, candidates[c])]

\* candidates that are final as they are;
LEMMA SinglesAreFinals ==
  ASSUME candidates \in Seq(SUBSET References), NEW rest \in SUBSET (DOMAIN candidates)
  PROVE  /\ Singles(rest) \in Seq(Finals(DOMAIN candidates))
         /\ \A c : IF c \in rest THEN OneHas(Ids(Singles(rest)), c)
                                 ELSE NoneHas(Ids(Singles(rest)), c)
         /\ \A i \in DOMAIN Singles(rest) : \A c \in Singles(rest)[i].ids :
              candidates[c] \subseteq Singles(rest)[i].from
<1> DEFINE fs == Singles(rest)
<1>1. /\ Len(candidates) \in Nat /\ DOMAIN candidates = 1 .. Len(candidates)
      /\ rest \in SUBSET (1 .. Len(candidates))
  OBVIOUS
<1>2. /\ Cardinality(rest) \in Nat
      /\ \A k \in 1 .. Cardinality(rest) : Position(rest, k) \in rest
      /\ \A c \in rest : \E m \in 1 .. Cardinality(rest) :
           \A k \in 1 .. Cardinality(rest) : Position(rest, k) = c <=> k = m
  BY <1>1, PositionOnce
<1>3. /\ DOMAIN fs = 1 .. Cardinality(rest)
      /\ \A k \in 1 .. Cardinality(rest) :
           /\ fs[k] = Final({Position(rest, k)}, candidates[Position(rest, k)])
           /\ fs[k].ids = {Position(rest, k)} /\ fs[k].from = candidates[Position(rest, k)]
  BY DEF Final, Singles
<1> HIDE DEF fs
<1>4. fs \in Seq(Finals(DOMAIN candidates))
  <2>1. ASSUME NEW k \in 1 .. Cardinality(rest) PROVE fs[k] \in Finals(DOMAIN candidates)
    <3>1. Position(rest, k) \in 1 .. Len(candidates)
      BY <1>1, <1>2
    <3>2. candidates[Position(rest, k)] \in SUBSET References
      BY <3>1, ElementOfSeq
    <3> QED BY <1>1, <1>3, <3>1, <3>2 DEF Final, Finals
  <2>2. fs = [k \in 1 .. Cardinality(rest) |-> fs[k]]
    BY DEF fs, Singles
  <2>3. fs \in [1 .. Cardinality(rest) -> Finals(DOMAIN candidates)]
    BY <2>1, <2>2
  <2> QED BY <1>2, <2>3, SeqOfFunction
<1>5. DOMAIN Ids(fs) = 1 .. Cardinality(rest)
      /\ \A k \in 1 .. Cardinality(rest) : \A c : c \in Ids(fs)[k] <=> Position(rest, k) = c
  BY <1>3 DEF Ids, Field
<1>6. ASSUME NEW c PROVE IF c \in rest THEN OneHas(Ids(fs), c) ELSE NoneHas(Ids(fs), c)
  <2>1. CASE c \in rest
    <3>1. PICK m \in 1 .. Cardinality(rest) :
            \A k \in 1 .. Cardinality(rest) : Position(rest, k) = c <=> k = m
      BY <1>2, <2>1
    <3>2. \A k \in 1 .. Cardinality(rest) : c \in Ids(fs)[k] <=> k = m
      BY <1>5, <3>1, Zenon
    <3>3. OneHas(Ids(fs), c)
      BY <1>5, <3>2 DEF OneHas
    <3> QED BY <2>1, <3>3
  <2>2. CASE c \notin rest
    <3>1. \A k \in 1 .. Cardinality(rest) : c \notin Ids(fs)[k]
      BY <1>2, <1>5, <2>2
    <3>2. NoneHas(Ids(fs), c)
      BY <1>5, <3>1 DEF NoneHas
    <3> QED BY <2>2, <3>2
  <2> QED BY <2>1, <2>2
<1>7. ASSUME NEW i \in DOMAIN fs, NEW c \in fs[i].ids PROVE candidates[c] \subseteq fs[i].from
  BY <1>3
<1> QED BY <1>4, <1>6, <1>7 DEF fs

\* the groups, which are disjoint and share no candidate with those finals;
LEMMA GroupsKeeps == GoldInv /\ Groups => GoldInv'
<1> SUFFICES ASSUME GoldInv, Groups PROVE GoldInv'
  OBVIOUS
<1>1. /\ TypeInv /\ goldStage = "group" /\ goldStage' = "task3" /\ TracedOnce(Furs)
      /\ fur' = fur /\ atoms' = atoms /\ candidates' = candidates /\ blamed' = blamed
      /\ candidates \in Seq(SUBSET References)
  BY DEF GoldInv, TypeInv, CandidatesInv, Groups
<1>2. PICK similar \in SUBSET (SUBSET (DOMAIN candidates)), scoped \in BOOLEAN :
        LET rest == DOMAIN candidates \ UNION similar
        IN  /\ \A g \in similar : Cardinality(g) \in 2..MaxGroup
            /\ \A g, h \in similar : g # h => g \cap h = {}
            /\ groups' = similar \cup (IF scoped THEN {{c} : c \in rest} ELSE {})
            /\ finals' = IF scoped THEN <<>>
                         ELSE [i \in 1..Cardinality(rest) |->
                                 LET c == Position(rest, i) IN Final({c}, candidates[c])]
  BY DEF Groups
<1> DEFINE rest == DOMAIN candidates \ UNION similar
<1>3. rest \in SUBSET (DOMAIN candidates) /\ \A g \in similar : g \cap rest = {}
  OBVIOUS
<1>4. \A g \in similar : g # {}
  <2>1. Cardinality({}) = 0 /\ 0 \notin 2..MaxGroup
    BY FS_EmptySet
  <2> QED BY <1>2, <2>1
<1>5. /\ groups' \in SUBSET (SUBSET (DOMAIN candidates))
      /\ {} \notin groups'
      /\ \A g, h \in groups' : g # h => g \cap h = {}
  <2>1. CASE scoped
    <3>1. groups' = similar \cup {{c} : c \in rest}
      BY <1>2, <2>1
    <3>2. /\ \A c \in rest : {c} \in SUBSET (DOMAIN candidates) /\ \A g \in similar : g \cap {c} = {}
          /\ \A c, d \in rest : {c} # {d} => {c} \cap {d} = {}
      BY <1>3
    <3>3. \A g, h \in similar : g # h => g \cap h = {}
      BY <1>2
    <3>4. \A g \in groups' : g \in similar \/ \E c \in rest : g = {c}
      BY <3>1
    <3> HIDE DEF rest
    <3>5. groups' \in SUBSET (SUBSET (DOMAIN candidates)) /\ {} \notin groups'
      BY <1>4, <3>2, <3>4
    <3>6. ASSUME NEW g \in groups', NEW h \in groups', g # h PROVE g \cap h = {}
      <4>1. CASE g \in similar /\ h \in similar
        BY <3>3, <3>6, <4>1, Zenon
      <4>2. ASSUME NEW c \in rest, g = {c}, h \in similar PROVE g \cap h = {}
        BY <3>2, <4>2
      <4>3. ASSUME NEW c \in rest, h = {c}, g \in similar PROVE g \cap h = {}
        BY <3>2, <4>3
      <4>4. ASSUME NEW c \in rest, NEW d \in rest, g = {c}, h = {d} PROVE g \cap h = {}
        BY <3>2, <3>6, <4>4, Zenon
      <4> QED BY <3>4, <4>1, <4>2, <4>3, <4>4, Zenon
    <3> QED BY <3>5, <3>6
  <2>2. CASE ~scoped
    BY <1>2, <1>4, <2>2
  <2> QED BY <2>1, <2>2
<1>6. /\ finals' \in Seq(Finals(DOMAIN candidates))
      /\ \A c \in DOMAIN candidates :
           IF c \in UNION groups' THEN NoneHas(Ids(finals'), c) ELSE OneHas(Ids(finals'), c)
      /\ \A i \in DOMAIN finals' : \A c \in finals'[i].ids : candidates[c] \subseteq finals'[i].from
  <2>1. CASE scoped
    <3>1. finals' = <<>> /\ groups' = similar \cup {{c} : c \in rest}
      BY <1>2, <2>1
    <3>2. \A c \in DOMAIN candidates : c \in UNION groups'
      BY <3>1
    <3>3. \A c : NoneHas(Ids(finals'), c)
      BY <3>1 DEF NoneHas, Ids, Field
    <3>4. finals' \in Seq(Finals(DOMAIN candidates)) /\ DOMAIN finals' = {}
      BY <3>1
    <3> QED BY <3>2, <3>3, <3>4, Zenon
  <2>2. CASE ~scoped
    <3>1. groups' = similar /\ finals' = Singles(rest)
      BY <1>2, <2>2 DEF Singles
    <3>2. \A c \in DOMAIN candidates : c \in UNION groups' <=> c \notin rest
      BY <3>1
    <3> HIDE DEF rest
    <3>3. /\ finals' \in Seq(Finals(DOMAIN candidates))
          /\ \A c : IF c \in rest THEN OneHas(Ids(finals'), c) ELSE NoneHas(Ids(finals'), c)
          /\ \A i \in DOMAIN finals' : \A c \in finals'[i].ids :
               candidates[c] \subseteq finals'[i].from
      <4>1. /\ Singles(rest) \in Seq(Finals(DOMAIN candidates))
            /\ \A c : IF c \in rest THEN OneHas(Ids(Singles(rest)), c)
                                    ELSE NoneHas(Ids(Singles(rest)), c)
            /\ \A i \in DOMAIN Singles(rest) : \A c \in Singles(rest)[i].ids :
                 candidates[c] \subseteq Singles(rest)[i].from
        BY <1>1, <1>3, SinglesAreFinals
      <4> QED BY <3>1, <4>1, Zenon
    <3> QED BY <3>2, <3>3, Zenon
  <2> QED BY <2>1, <2>2
<1>7. TypeInv'
  BY <1>1, <1>5, <1>6 DEF TypeInv, Stages
<1>8. TracedOnce(Furs)'
  BY <1>1 DEF TracedOnce, AtomsOf, OneHas
<1>9. FinalsInv'
  BY <1>1, <1>5, <1>6 DEF FinalsInv, NoneHas, OneHas, Ids, Field
<1> QED BY <1>1, <1>7, <1>8, <1>9 DEF GoldInv, CandidatesInv

\* There is a first one of groups that are not empty.
LEMMA FirstGroup ==
  ASSUME NEW n \in Nat, NEW G \in SUBSET (SUBSET (1 .. n)), {} \notin G, G # {}
  PROVE  (CHOOSE g \in G : \A h \in G : Position(g, 1) <= Position(h, 1)) \in G
<1>1. ASSUME NEW g \in G PROVE Position(g, 1) \in Nat
  <2>1. g \in SUBSET (1 .. n) /\ g # {}
    OBVIOUS
  <2>2. /\ Cardinality(g) \in Nat
        /\ \A k \in 1 .. Cardinality(g) : Position(g, k) \in g
        /\ \A i \in g : \E k \in 1 .. Cardinality(g) : Position(g, k) = i
    BY <2>1, PositionProperties
  <2>3. PICK k \in 1 .. Cardinality(g) : Position(g, k) \in g
    BY <2>1, <2>2
  <2>4. 1 \in 1 .. Cardinality(g)
    BY <2>2, <2>3
  <2>5. Position(g, 1) \in g
    BY <2>2, <2>4
  <2>6. \A i \in g : i \in Nat
    BY <2>1
  <2> QED BY <2>5, <2>6
<1>2. {Position(g, 1) : g \in G} \in SUBSET Nat /\ {Position(g, 1) : g \in G} # {}
  BY <1>1
<1>3. PICK m \in {Position(g, 1) : g \in G} : \A k \in {Position(g, 1) : g \in G} : m <= k
  BY <1>2, LeastNatural
<1>4. \E g \in G : \A h \in G : Position(g, 1) <= Position(h, 1)
  BY <1>3
<1> QED BY <1>4, Zenon

\* the last checks, which pass;
LEMMA Specify3Keeps == GoldInv /\ Specify3 => GoldInv'
<1> SUFFICES ASSUME GoldInv, Specify3 PROVE GoldInv'
  OBVIOUS
<1>1. /\ TypeInv /\ goldStage = "task3" /\ groups = {} /\ TracedOnce(Furs) /\ FinalsInv
      /\ goldStage' = IF CoversGroup(DOMAIN candidates, finals) THEN "accepted" ELSE "refused"
      /\ fur' = fur /\ atoms' = atoms /\ candidates' = candidates /\ groups' = groups
      /\ finals' = finals /\ blamed' = blamed
      /\ finals \in Seq(Finals(DOMAIN candidates))
  BY DEF GoldInv, TypeInv, CandidatesInv, Specify3
<1>2. ASSUME NEW c
      PROVE  IF c \in DOMAIN candidates THEN OneHas(Ids(finals), c) ELSE NoneHas(Ids(finals), c)
  <2>1. CASE c \in DOMAIN candidates
    BY <1>1, <2>1 DEF FinalsInv
  <2>2. CASE c \notin DOMAIN candidates
    <3>1. \A i \in DOMAIN finals : finals[i].ids \subseteq DOMAIN candidates
      <4>1. \A i \in DOMAIN finals : finals[i] \in Finals(DOMAIN candidates)
        BY <1>1, ElementOfSeq
      <4> QED BY <4>1 DEF Finals
    <3> QED BY <2>2, <3>1 DEF NoneHas, Ids, Field
  <2> QED BY <2>1, <2>2
<1>3. goldStage' = "accepted"
  BY <1>1, <1>2, OnceIsCovered
<1>4. TypeInv'
  BY <1>1, <1>3 DEF TypeInv, Stages
<1>5. TracedOnce(Furs)'
  BY <1>1 DEF TracedOnce, AtomsOf, OneHas
<1>6. FinalsInv'
  BY <1>1 DEF FinalsInv, NoneHas, OneHas, Ids, Field
<1> QED BY <1>1, <1>3, <1>4, <1>5, <1>6 DEF GoldInv, CandidatesInv

\* A model's finals with what their relations name: nothing but candidates of the group, or
\* else 0 is among the names.
LEMMA RelatedAreFinals ==
  ASSUME NEW group, NEW answer \in Answers3(group), 0 \notin group
  PROVE  /\ Related(Said(answer), answer.rels) \in Seq(Finals(group \cup {0}))
         /\ 0 \notin NamesOf3(answer) =>
              \A i \in DOMAIN Related(Said(answer), answer.rels) :
                Related(Said(answer), answer.rels)[i].ids \subseteq group
<1> DEFINE named == group \cup {0}
           more(i) == UNION {r.ids : r \in {x \in answer.rels : x.gold = i}}
           fs == Related(Said(answer), answer.rels)
           Long(k) == [1..k -> (SUBSET named) \ {{}}]
           Names(g, c) == {[gold |-> g, ids |-> {c}]}
           Lists == UNION {Long(k) : k \in 0..MaxItems}
           Relations == {{}} \cup {Names(g, c) : g \in 1..MaxItems, c \in named}
<1>0. answer.finals \in Lists /\ answer.rels \in Relations
  <2>1. Answers3(group) = {[finals |-> l, rels |-> r] : l \in Lists, r \in Relations}
    BY DEF Answers3
  <2> HIDE DEF Lists, Relations
  <2>2. PICK l \in Lists, r \in Relations : answer = [finals |-> l, rels |-> r]
    BY <2>1
  <2> QED BY <2>2
<1> HIDE DEF Long, Names, named, more, fs
<1>1. PICK n \in 0..MaxItems : answer.finals \in Long(n)
  BY <1>0
<1>2. \A r \in answer.rels : r.ids \subseteq named
  <2>1. CASE answer.rels = {}
    BY <2>1
  <2>2. CASE answer.rels # {}
    <3>1. PICK g \in 1..MaxItems, c \in named : answer.rels = Names(g, c)
      BY <1>0, <2>2
    <3> QED BY <3>1 DEF Names
  <2> QED BY <2>1, <2>2
<1>3. n \in Nat /\ DOMAIN answer.finals = 1..n /\ \A i \in 1..n : answer.finals[i] \subseteq named
  BY <1>1, GoldAssumption DEF Long
<1>4. \A i \in 1..n : more(i) \subseteq named /\ more(i) \subseteq UNION {r.ids : r \in answer.rels}
  BY <1>2 DEF more
<1>5. /\ DOMAIN Said(answer) = 1..n
      /\ \A i \in 1..n : Said(answer)[i] = [ids |-> answer.finals[i], from |-> {}]
  BY <1>3 DEF Said, Final
<1>6. /\ fs = [i \in 1..n |-> fs[i]] /\ DOMAIN fs = 1..n
      /\ \A i \in 1..n : fs[i] = [Said(answer)[i] EXCEPT !.ids = @ \cup more(i)]
  BY <1>5 DEF Related, fs, more
<1>7. \A i \in 1..n : fs[i] = [ids |-> answer.finals[i] \cup more(i), from |-> {}]
  BY <1>5, <1>6
<1>9. ASSUME NEW i \in 1..n PROVE fs[i] \in Finals(named) /\ fs[i].ids = answer.finals[i] \cup more(i)
  <2>1. answer.finals[i] \cup more(i) \in SUBSET named
    BY <1>3, <1>4
  <2>2. fs[i] = [ids |-> answer.finals[i] \cup more(i), from |-> {}]
    BY <1>7
  <2> QED BY <2>1, <2>2 DEF Finals
<1>10. fs \in Seq(Finals(named))
  <2>1. fs \in [1..n -> Finals(named)]
    BY <1>6, <1>9
  <2> QED BY <1>3, <2>1, SeqOfFunction
<1>11. ASSUME 0 \notin NamesOf3(answer), NEW i \in DOMAIN fs PROVE fs[i].ids \subseteq group
  <2>1. i \in 1..n /\ fs[i].ids = answer.finals[i] \cup more(i) /\ fs[i].ids \subseteq named
    BY <1>3, <1>4, <1>6, <1>9, <1>11
  <2>2. fs[i].ids \subseteq NamesOf3(answer)
    BY <1>3, <1>4, <2>1 DEF NamesOf3
  <2> QED BY <1>11, <2>1, <2>2 DEF named
<1> QED BY <1>10, <1>11 DEF named, fs

\* Enriched, a final names its candidates' atoms besides, and stays a final of them.
EnrichedAll(fs) == [i \in DOMAIN fs |-> Enriched(fs[i])]

\* the finals of a group with the atoms of their candidates;
LEMMA EnrichedFinals ==
  ASSUME candidates \in Seq(SUBSET References), NEW group \in SUBSET (DOMAIN candidates),
         NEW N, NEW fs \in Seq(Finals(N)), CoversGroup(group, fs)
  PROVE  /\ EnrichedAll(fs) \in Seq(Finals(DOMAIN candidates))
         /\ \A c : IF c \in group THEN OneHas(Ids(EnrichedAll(fs)), c)
                                  ELSE NoneHas(Ids(EnrichedAll(fs)), c)
         /\ \A i \in DOMAIN EnrichedAll(fs) : \A c \in EnrichedAll(fs)[i].ids :
              candidates[c] \subseteq EnrichedAll(fs)[i].from
<1> DEFINE es == EnrichedAll(fs)
<1>0. /\ es = [i \in DOMAIN fs |-> es[i]] /\ DOMAIN es = DOMAIN fs
      /\ \A i \in DOMAIN fs : es[i] = Enriched(fs[i])
  BY DEF EnrichedAll
<1> HIDE DEF es
<1>1. Len(fs) \in Nat /\ DOMAIN fs = 1 .. Len(fs) /\ DOMAIN candidates = 1 .. Len(candidates)
  OBVIOUS
<1>2. ASSUME NEW i \in DOMAIN fs
      PROVE  /\ es[i] \in Finals(DOMAIN candidates)
             /\ es[i].ids = fs[i].ids
             /\ es[i].from = fs[i].from \cup UNION {candidates[c] : c \in fs[i].ids}
  <2>1. fs[i] \in Finals(N)
    BY ElementOfSeq, <1>1
  <2>2. fs[i].ids \subseteq group
    BY DEF CoversGroup
  <2>3. \A c \in fs[i].ids : candidates[c] \in SUBSET References
    BY <1>1, <2>2, ElementOfSeq
  <2>4. UNION {candidates[c] : c \in fs[i].ids} \in SUBSET References
    BY <2>3
  <2>5. es[i] = [fs[i] EXCEPT !.from = @ \cup UNION {candidates[c] : c \in fs[i].ids}]
    BY <1>0 DEF Enriched
  <2> QED BY <2>1, <2>2, <2>4, <2>5 DEF Finals
<1>3. es \in Seq(Finals(DOMAIN candidates))
  <2>1. es \in [1 .. Len(fs) -> Finals(DOMAIN candidates)]
    BY <1>0, <1>1, <1>2
  <2> QED BY <1>1, <2>1, SeqOfFunction
<1>4. Ids(es) = Ids(fs)
  BY <1>0, <1>2 DEF Ids, Field
<1>5. \A c : IF c \in group THEN OneHas(Ids(fs), c) ELSE NoneHas(Ids(fs), c)
  BY CoveredIsOnce
<1>6. ASSUME NEW i \in DOMAIN es, NEW c \in es[i].ids PROVE candidates[c] \subseteq es[i].from
  BY <1>0, <1>2
<1> QED BY <1>3, <1>4, <1>5, <1>6 DEF es

\* the finals of a group, which take its candidates over from it;
LEMMA DedupGroupKeeps == GoldInv /\ DedupGroup => GoldInv'
<1> SUFFICES ASSUME GoldInv, DedupGroup PROVE GoldInv'
  OBVIOUS
<1>1. /\ TypeInv /\ goldStage = "task3" /\ groups # {} /\ TracedOnce(Furs) /\ FinalsInv
      /\ fur' = fur /\ atoms' = atoms /\ candidates' = candidates
      /\ candidates \in Seq(SUBSET References) /\ blamed \in BOOLEAN
      /\ groups \in SUBSET (SUBSET (DOMAIN candidates))
      /\ finals \in Seq(Finals(DOMAIN candidates))
  BY DEF GoldInv, TypeInv, CandidatesInv, DedupGroup
<1> DEFINE group == CHOOSE g \in groups : \A h \in groups : Position(g, 1) <= Position(h, 1)
<1>2. Len(candidates) \in Nat /\ DOMAIN candidates = 1 .. Len(candidates)
  BY <1>1
<1>3. group \in groups
  BY <1>1, <1>2, FirstGroup DEF FinalsInv
<1>4. Finalize3(group)
  BY DEF DedupGroup
<1> HIDE DEF group
<1>5. /\ group \in SUBSET (DOMAIN candidates) /\ 0 \notin group /\ group \subseteq group \cup {0}
      /\ IsFiniteSet(group \cup {0})
  <2>1. group \in SUBSET (1 .. Len(candidates)) /\ 0 \notin group
    BY <1>1, <1>2, <1>3
  <2>2. IsFiniteSet(group)
    <3>1. IsFiniteSet(1 .. Len(candidates))
      BY <1>2, FS_Interval
    <3> QED BY <2>1, <3>1, FS_Subset
  <2>3. IsFiniteSet(group \cup {0})
    BY <2>2, FS_AddElement
  <2> QED BY <1>2, <2>1, <2>3
<1>6. PICK answer \in Answers3(group) :
        LET fs == Repaired3(group, Related(Said(answer), answer.rels))
        IN  /\ blamed' = (blamed \/ 0 \in NamesOf3(answer))
            /\ IF CoversGroup(group, fs)
               THEN /\ finals' = finals \o [i \in DOMAIN fs |-> Enriched(fs[i])]
                    /\ groups' = groups \ {group}
                    /\ UNCHANGED goldStage
               ELSE goldStage' = "refused" /\ UNCHANGED <<finals, groups>>
  BY <1>4 DEF Finalize3
<1> DEFINE reply == Related(Said(answer), answer.rels)
           fs == Repaired3(group, reply)
           es == EnrichedAll(fs)
<1>7. /\ reply \in Seq(Finals(group \cup {0}))
      /\ 0 \notin NamesOf3(answer) => \A i \in DOMAIN reply : reply[i].ids \subseteq group
  BY <1>5, RelatedAreFinals
<1>8. /\ blamed' = (blamed \/ 0 \in NamesOf3(answer))
      /\ \/ /\ CoversGroup(group, fs)
            /\ finals' = finals \o es /\ groups' = groups \ {group} /\ goldStage' = goldStage
         \/ /\ ~CoversGroup(group, fs)
            /\ goldStage' = "refused" /\ finals' = finals /\ groups' = groups
  BY <1>6 DEF EnrichedAll
<1> HIDE DEF reply
<1>9. /\ fs \in Seq(Finals(group \cup {0}))
      /\ \A c : IF c \in group \/ (\E i \in DOMAIN reply : c \in reply[i].ids)
                THEN OneHas(Ids(fs), c) ELSE NoneHas(Ids(fs), c)
  BY <1>1, <1>5, <1>7, RepairedOnce
<1> HIDE DEF fs
<1>10. 0 \notin NamesOf3(answer) => CoversGroup(group, fs)
  <2> SUFFICES ASSUME 0 \notin NamesOf3(answer) PROVE CoversGroup(group, fs)
    OBVIOUS
  <2>1. \A c : (\E i \in DOMAIN reply : c \in reply[i].ids) => c \in group
    BY <1>7
  <2>2. \A c : IF c \in group THEN OneHas(Ids(fs), c) ELSE NoneHas(Ids(fs), c)
    BY <1>9, <2>1
  <2> QED BY <1>9, <2>2, OnceIsCovered
<1>11. blamed' \in BOOLEAN /\ TracedOnce(Furs)'
  <2>1. blamed' \in BOOLEAN
    BY <1>8
  <2>2. TracedOnce(Furs)'
    BY <1>1 DEF TracedOnce, AtomsOf, OneHas
  <2> QED BY <2>1, <2>2
<1>12. CASE ~CoversGroup(group, fs)
  <2>1. blamed' /\ goldStage' = "refused" /\ finals' = finals /\ groups' = groups
    BY <1>8, <1>10, <1>12
  <2>2. TypeInv'
    BY <1>1, <1>11, <2>1 DEF TypeInv, Stages
  <2> QED BY <2>1, <2>2 DEF GoldInv, CandidatesInv
<1>13. CASE CoversGroup(group, fs)
  <2>1. finals' = finals \o es /\ groups' = groups \ {group} /\ goldStage' = "task3"
    BY <1>1, <1>8, <1>13
  <2>2. /\ es \in Seq(Finals(DOMAIN candidates))
        /\ \A c : IF c \in group THEN OneHas(Ids(es), c) ELSE NoneHas(Ids(es), c)
        /\ \A i \in DOMAIN es : \A c \in es[i].ids : candidates[c] \subseteq es[i].from
    BY <1>1, <1>5, <1>9, <1>13, EnrichedFinals
  <2> HIDE DEF es
  <2>3. /\ finals' \in Seq(Finals(DOMAIN candidates))
        /\ Len(finals) \in Nat /\ DOMAIN finals = 1 .. Len(finals) /\ DOMAIN es = 1 .. Len(es)
        /\ DOMAIN finals' = 1 .. (Len(finals) + Len(es)) /\ Len(es) \in Nat
        /\ \A i \in DOMAIN finals : finals'[i] = finals[i]
        /\ \A k \in DOMAIN es : finals'[Len(finals) + k] = es[k]
    BY <1>1, <2>1, <2>2
  <2>4. /\ Ids(finals) \in Seq(SUBSET (DOMAIN candidates))
        /\ Ids(es) \in Seq(SUBSET (DOMAIN candidates))
        /\ Ids(finals') = Ids(finals) \o Ids(es)
    BY <1>1, <2>1, <2>2, IdsAppended
  <2>5. ASSUME NEW c \in DOMAIN candidates
        PROVE  IF c \in UNION groups' THEN NoneHas(Ids(finals'), c) ELSE OneHas(Ids(finals'), c)
    <3>1. c \in UNION groups' => c \in UNION groups /\ c \notin group
      BY <1>1, <1>3, <2>1 DEF FinalsInv
    <3>2. c \notin UNION groups' => c \in group \/ c \notin UNION groups
      BY <2>1
    <3>3. c \in group => c \in UNION groups
      BY <1>3
    <3>4. IF c \in UNION groups THEN NoneHas(Ids(finals), c) ELSE OneHas(Ids(finals), c)
      BY <1>1, <2>5 DEF FinalsInv
    <3>5. IF c \in group THEN OneHas(Ids(es), c) ELSE NoneHas(Ids(es), c)
      BY <2>2
    <3>6. /\ NoneHas(Ids(finals), c) /\ NoneHas(Ids(es), c) => NoneHas(Ids(finals'), c)
          /\ NoneHas(Ids(finals), c) /\ OneHas(Ids(es), c) => OneHas(Ids(finals'), c)
          /\ OneHas(Ids(finals), c) /\ NoneHas(Ids(es), c) => OneHas(Ids(finals'), c)
      BY <2>4, OneHasAppended
    <3> QED BY <3>1, <3>2, <3>3, <3>4, <3>5, <3>6
  <2>6. ASSUME NEW i \in DOMAIN finals', NEW c \in finals'[i].ids
        PROVE  candidates[c] \subseteq finals'[i].from
    <3>1. CASE i \in DOMAIN finals
      BY <1>1, <2>3, <2>6, <3>1 DEF FinalsInv
    <3>2. CASE i \notin DOMAIN finals
      <4>1. i - Len(finals) \in DOMAIN es /\ i = Len(finals) + (i - Len(finals))
        BY <2>3, <3>2
      <4> QED BY <2>2, <2>3, <2>6, <4>1
    <3> QED BY <3>1, <3>2
  <2>7. /\ {} \notin groups' /\ \A g, h \in groups' : g # h => g \cap h = {}
        /\ groups' \in SUBSET (SUBSET (DOMAIN candidates))
    BY <1>1, <2>1 DEF FinalsInv
  <2>8. FinalsInv'
    BY <1>1, <2>5, <2>6, <2>7 DEF FinalsInv, NoneHas, OneHas, Ids, Field
  <2>9. TypeInv'
    BY <1>1, <1>11, <2>1, <2>3, <2>7 DEF TypeInv, Stages
  <2> QED BY <1>11, <2>1, <2>8, <2>9 DEF GoldInv, CandidatesInv
<1> QED BY <1>12, <1>13

\* and a step of something else.
LEMMA UnchangedKeeps == GoldInv /\ UNCHANGED goldVars => GoldInv'
<1> SUFFICES ASSUME GoldInv, UNCHANGED goldVars PROVE GoldInv'
  OBVIOUS
<1>1. /\ goldStage' = goldStage /\ fur' = fur /\ atoms' = atoms /\ candidates' = candidates
      /\ groups' = groups /\ finals' = finals /\ blamed' = blamed
  BY DEF goldVars
<1>2. TypeInv'
  BY <1>1 DEF GoldInv, TypeInv
<1>3. /\ TracedOnce(1..(fur - 1)) => TracedOnce(1..(fur - 1))'
      /\ TracedOnce(Furs) => TracedOnce(Furs)'
  BY <1>1 DEF TracedOnce, AtomsOf, OneHas
<1>4. FinalsInv => FinalsInv'
  BY <1>1 DEF FinalsInv, OneHas, NoneHas, Ids, Field
<1> QED BY <1>1, <1>2, <1>3, <1>4 DEF GoldInv, CandidatesInv

-----------------------------------------------------------------------------
(* The theorems *)

\* The invariant holds of every run of the pipeline.
THEOREM GoldInvariant == GoldSpec => []GoldInv
<1>1. GoldOff \/ GoldBegun => GoldInv
  BY GoldInit
<1>2. GoldInv /\ [GoldNext]_goldVars => GoldInv'
  <2> SUFFICES ASSUME GoldInv, [GoldNext]_goldVars PROVE GoldInv'
    OBVIOUS
  <2>1. CASE NoAnswer
    BY <2>1, NoAnswerKeeps
  <2>2. CASE Decompose
    BY <2>2, DecomposeKeeps
  <2>3. CASE Normalize
    BY <2>3, NormalizeKeeps
  <2>4. CASE Groups
    BY <2>4, GroupsKeeps
  <2>5. CASE DedupGroup
    BY <2>5, DedupGroupKeeps
  <2>6. CASE Specify3
    BY <2>6, Specify3Keeps
  <2>7. CASE UNCHANGED goldVars
    BY <2>7, UnchangedKeeps
  <2> QED BY <2>1, <2>2, <2>3, <2>4, <2>5, <2>6, <2>7 DEF GoldNext
<1> QED BY <1>1, <1>2, PTL DEF GoldSpec

\* The invariant implies the property.
LEMMA InvariantTraces == GoldInv => GoldTraces
<1> SUFFICES ASSUME GoldInv PROVE GoldTraces
  OBVIOUS
<1>1. ASSUME goldStage = "accepted"
      PROVE  /\ \A c \in DOMAIN candidates : \E i \in DOMAIN finals :
                  /\ candidates[c] \subseteq finals[i].from
                  /\ \A k \in DOMAIN finals : c \in finals[k].ids <=> k = i
             /\ \A a \in AllAtoms :
                  Cardinality({c \in DOMAIN candidates : a \in candidates[c]}) = 1
  <2>1. FinalsInv /\ groups = {} /\ TracedOnce(Furs)
    BY <1>1 DEF GoldInv, CandidatesInv
  <2>2. ASSUME NEW c \in DOMAIN candidates
        PROVE  \E i \in DOMAIN finals : /\ candidates[c] \subseteq finals[i].from
                                        /\ \A k \in DOMAIN finals : c \in finals[k].ids <=> k = i
    <3>1. OneHas(Ids(finals), c)
      BY <2>1, <2>2 DEF FinalsInv
    <3>2. PICK i \in DOMAIN finals : \A k \in DOMAIN finals : c \in finals[k].ids <=> k = i
      BY <3>1 DEF OneHas, Ids, Field
    <3> QED BY <2>1, <3>2 DEF FinalsInv
  <2>3. ASSUME NEW a \in AllAtoms
        PROVE  Cardinality({c \in DOMAIN candidates : a \in candidates[c]}) = 1
    <3>1. OneHas(candidates, a)
      BY <2>1, <2>3 DEF TracedOnce, AllAtoms
    <3>2. PICK i \in DOMAIN candidates : \A k \in DOMAIN candidates : a \in candidates[k] <=> k = i
      BY <3>1 DEF OneHas
    <3>3. {c \in DOMAIN candidates : a \in candidates[c]} = {i}
      BY <3>2
    <3> QED BY <3>3, FS_Singleton
  <2> QED BY <2>2, <2>3
<1>2. goldStage = "refused" => blamed
  BY DEF GoldInv
<1> QED BY <1>1, <1>2 DEF GoldTraces

\* Whatever the models lose, repeat or invent: in a specification that is accepted every
\* atom of every requirement is in one candidate and every candidate in one final
\* requirement that names its atoms, and the repairs suffice for the checks after them.
THEOREM AtomsAreTraced == GoldSpec => []GoldTraces
BY GoldInvariant, InvariantTraces, PTL


-----------------------------------------------------------------------------
(* The merge and the document made of it: the invariant *)

Answers == [op : Operations \cup {"NONE"}, content : Contents]
Writes  == [op : Operations, target : Nat, content : Contents]
Labels  == RowNames \cup {Append(n, i) : n \in RowNames \ {<<>>}, i \in 1 .. MaxRows}
SrsRows == [id : 1 .. MaxRows, name : Labels, source : SUBSET Nat]

SrsStages == {"off", "meeting", "search", "merge", "apply", "specify", "check",
              "validated", "rejected", "failed"}

SrsTypes ==
  /\ srsStage \in SrsStages /\ srsMode \in {"N", "Y"}
  /\ base \in Seq(Items) /\ items \in Seq(Items)
  /\ told \in Seq(Demands) /\ said \in Seq(Answers)
  /\ applied \in Nat
  /\ rows \in Seq(SrsRows)

\* Where the run is.
PlaceInv ==
  /\ srsStage \in {"off", "meeting", "search", "merge"} => said = <<>> /\ applied = 0
  /\ srsStage # "off" => base # <<>>
  /\ said # <<>> => Len(said) = Len(base) /\ told # <<>>
  /\ srsStage = "apply" => applied <= Len(Changes)
  /\ srsStage \notin {"off", "meeting", "search", "merge"} /\ told = <<>> => items = base

\* The items whose change is among the first n, and what the items are then.
Done(n)    == {i \in Answered(said) : Rank(Answered(said), i) <= n}
Now(n)     == [i \in DOMAIN base |-> IF i \in Done(n) THEN Kept(i) ELSE base[i]]
Staying(n) == DOMAIN base \ (Gone \cap Done(n))
Back(n)    == Pick(New(said), Adding \cap Done(n))
Last(n)    == [k \in 1 .. n - Cardinality(Answered(said)) |-> New(Additions)[k]]
SoFar(n)   == Pick(Now(n), Staying(n)) \o Back(n) \o Last(n)

OwnIds == said # <<>> /\ ~Reidentified /\ IdsDiffer

ItemsInv == OwnIds => items = IF srsStage = "apply" THEN SoFar(applied) ELSE Expected

\* Each functional requirement with an id is a source of a row.
IsSource == \A k \in DOMAIN items : items[k].type = "functional" /\ items[k].id # 0 =>
             \E i \in DOMAIN rows : items[k].id \in rows[i].source

RowsInv ==
  srsMode = "N" => /\ srsStage \in {"check", "validated"} => IsSource
                   /\ srsStage = "validated" => RowsPass

SrsInv == SrsTypes /\ PlaceInv /\ ItemsInv /\ RowsInv

-----------------------------------------------------------------------------
(* What one change does *)

\* Writing to an item leaves an item, with the id that is written or the one it had.
LEMMA WrittenIsItem ==
  ASSUME NEW x \in Items, NEW c \in Contents
  PROVE  /\ Blank \in Items
         /\ Written(x, c) \in Items /\ Written(Blank, c) \in Items /\ Over(x, c) \in Items
         /\ Written(x, c).id = Or(c, "id", x.id) /\ Written(Blank, c).id = Or(c, "id", 0)
<1>1. Blank \in Items
  BY SrsAssumption DEF Blank, Items, Kinds
<1>2. ASSUME NEW y \in Items PROVE Written(y, c) \in Items
  <2>1. Or(c, "id", y.id) \in Nat
    BY SrsAssumption DEF Or, Items
  <2>2. Or(c, "type", y.type) \in Kinds
    BY SrsAssumption DEF Or, Items
  <2>3. Or(c, "body", y.body) \in Bodies
    BY SrsAssumption DEF Or, Items
  <2> QED
    BY <2>1, <2>2, <2>3 DEF Written, Items
<1> QED
  BY <1>1, <1>2 DEF Over, Written, Blank

\* Of some elements of f, followed by others, the first with an id that none of the rest has.
LEMMA FoundFirst ==
  ASSUME NEW f \in Seq(Items), NEW R \in SUBSET (1 .. Len(f)), NEW r \in 1 .. Cardinality(R),
         NEW t \in Seq(Items), NEW id \in Nat \ {0},
         f[Position(R, r)].id = id, \A i \in R : i # Position(R, r) => f[i].id # id
  PROVE  /\ WithId(Pick(f, R) \o t, id) # {} /\ FindIndex(Pick(f, R) \o t, id) = r
         /\ Pick(f, R) \in Seq(Items) /\ Len(Pick(f, R)) = Cardinality(R) /\ Cardinality(R) \in Nat
         /\ Position(R, r) \in R /\ Pick(f, R)[r] = f[Position(R, r)]
<1> DEFINE u == Pick(f, R)
           s == u \o t
           W == WithId(s, id)
           n == Len(u) + Len(t)
<1>0. Len(f) \in Nat /\ Len(t) \in Nat
  OBVIOUS
<1>1. u \in Seq(Items) /\ Len(u) = Cardinality(R) /\ Cardinality(R) \in Nat
  BY PickProperties
<1>2. \A k \in 1 .. Cardinality(R) : u[k] = f[Position(R, k)]
  BY DEF Pick
<1>3. /\ \A k \in 1 .. Cardinality(R) : Position(R, k) \in R
      /\ \A q, k \in 1 .. Cardinality(R) : q < k => Position(R, q) < Position(R, k)
  BY <1>0, PositionProperties
<1>4. ASSUME NEW k \in 1 .. Cardinality(R), k < r
      PROVE  u[k].id # id
  <2>1. Position(R, k) < Position(R, r) /\ Position(R, k) \in R /\ Position(R, r) \in R
    BY <1>3, <1>4
  <2>2. Position(R, k) \in Nat /\ Position(R, r) \in Nat
    BY <2>1, <1>0
  <2>3. Position(R, k) # Position(R, r)
    BY <2>1, <2>2
  <2> QED
    BY <1>2, <2>1, <2>3
<1> HIDE DEF u
<1>5. DOMAIN s = 1 .. n /\ \A k \in 1 .. Len(u) : s[k] = u[k]
  <2>1. DOMAIN s = 1 .. n
    BY <1>1, SeqIsFunction
  <2>2. \A k \in DOMAIN u : s[k] = u[k]
    BY <1>1, Appended DEF Follows
  <2>3. DOMAIN u = 1 .. Len(u)
    BY <1>1
  <2> QED
    BY <2>1, <2>2, <2>3
<1>6. n \in Nat /\ r \in 1 .. n
  BY <1>0, <1>1
<1>7. W = {i \in 1 .. n : s[i].id = id}
  BY <1>5 DEF WithId
<1> HIDE DEF s, W, n
<1>8. s[r].id = id
  BY <1>1, <1>2, <1>5
<1>9. \A i \in W : ~(i < r)
  BY <1>0, <1>1, <1>4, <1>5, <1>7
<1>10. r \in W /\ W \in SUBSET (1 .. n)
  BY <1>6, <1>7, <1>8
<1>11. {j \in W : j <= r} = {r}
  <2>1. \A j \in W : j \in Nat
    BY <1>10, <1>6
  <2>2. r \in Nat
    BY <1>6
  <2>3. \A j \in W : j <= r <=> j = r
    BY <1>9, <2>1, <2>2
  <2> QED
    BY <1>10, <2>3
<1>12. Rank(W, r) = 1
  BY <1>11, FS_Singleton DEF Rank
<1>13. Position(W, 1) = r
  BY <1>6, <1>10, <1>12, PositionIs
<1> QED
  BY <1>1, <1>2, <1>3, <1>10, <1>13 DEF FindIndex, W, s, u

\* The change takes the r-th of the items at the positions R away.
DeletesOne(f, R, r, t, c) ==
  Applied(Pick(f, R) \o t, c) = Pick(f, R \ {Position(R, r)}) \o t

\* A change that deletes such an item takes it, and nothing else, from the items picked.
LEMMA AppliedDelete ==
  ASSUME NEW f \in Seq(Items), NEW R \in SUBSET (1 .. Len(f)), NEW r \in 1 .. Cardinality(R),
         NEW t \in Seq(Items), NEW c, c.op = "DELETE", NEW id \in Nat \ {0}, c.target = id,
         f[Position(R, r)].id = id, \A i \in R : i # Position(R, r) => f[i].id # id
  PROVE  DeletesOne(f, R, r, t, c)
<1> DEFINE u == Pick(f, R)
           s == u \o t
<1>1. /\ WithId(s, id) # {} /\ FindIndex(s, id) = r
      /\ u \in Seq(Items) /\ Len(u) = Cardinality(R) /\ Cardinality(R) \in Nat
  BY FoundFirst
<1> HIDE DEF u
<1>2. s \in Seq(Items) /\ r \in 1 .. Len(s) /\ r \in 1 .. Len(u)
  BY <1>1
<1>3. Pick(s, DOMAIN s \ {r}) = Without(s, r)
  BY <1>2, PickOfOthers
<1>4. Without(s, r) = Without(u, r) \o t
  <2>1. u \in Seq(Items) /\ t \in Seq(Items) /\ r \in 1 .. Len(u)
    BY <1>1, <1>2
  <2>2. LosesOneOfFirst(u, t, r)
    BY <2>1, WithoutFirst
  <2> QED
    BY <2>2 DEF LosesOneOfFirst
<1>5. Without(u, r) = Pick(f, R \ {Position(R, r)})
  BY PickOfFewer DEF u
<1> HIDE DEF s
<1>6. Applied(s, c) = Pick(s, DOMAIN s \ {r})
  BY <1>1 DEF Applied
<1> QED
  BY <1>3, <1>4, <1>5, <1>6 DEF s, u, DeletesOne

\* The change overwrites the r-th of the items at the positions R.
UpdatesOne(f, R, r, t, c) ==
  Applied(Pick(f, R) \o t, c)
    = Pick([f EXCEPT ![Position(R, r)] = Over(@, c.content)], R) \o t

\* A change that updates such an item overwrites it, and nothing else.
LEMMA AppliedUpdate ==
  ASSUME NEW f \in Seq(Items), NEW R \in SUBSET (1 .. Len(f)), NEW r \in 1 .. Cardinality(R),
         NEW t \in Seq(Items), NEW c, c.op = "UPDATE", NEW id \in Nat \ {0}, c.target = id,
         c.content \in Contents,
         f[Position(R, r)].id = id, \A i \in R : i # Position(R, r) => f[i].id # id
  PROVE  UpdatesOne(f, R, r, t, c)
<1> DEFINE u == Pick(f, R)
           s == u \o t
           p == Position(R, r)
           v == Over(f[p], c.content)
           g == [f EXCEPT ![p] = v]
<1>1. /\ WithId(s, id) # {} /\ FindIndex(s, id) = r
      /\ u \in Seq(Items) /\ Len(u) = Cardinality(R) /\ Cardinality(R) \in Nat
      /\ p \in R /\ u[r] = f[p]
  BY FoundFirst
<1>2. v \in Items
  <2>1. f[p] \in Items
    BY <1>1
  <2> QED
    BY <2>1, WrittenIsItem
<1>3. Pick(g, R) = [u EXCEPT ![r] = v]
  <2>1. \A k \in 1 .. Cardinality(R) : Position(R, k) \in R /\ (Position(R, k) = p <=> k = r)
    <3>1. Len(f) \in Nat
      OBVIOUS
    <3>2. \A k \in 1 .. Cardinality(R) : Position(R, k) \in R /\ Rank(R, Position(R, k)) = k
      BY <3>1, PositionRank
    <3> QED
      BY <3>2
  <2> HIDE DEF p, v
  <2>2. \A k \in 1 .. Cardinality(R) : g[Position(R, k)] = IF k = r THEN v ELSE f[Position(R, k)]
    BY <2>1, <1>1
  <2>3. u = [k \in 1 .. Cardinality(R) |-> f[Position(R, k)]]
    BY DEF Pick
  <2>4. Pick(g, R) = [k \in 1 .. Cardinality(R) |-> g[Position(R, k)]]
    BY DEF Pick
  <2> HIDE DEF g, u
  <2> QED
    BY <2>2, <2>3, <2>4
<1> HIDE DEF u
<1>4. r \in 1 .. Len(u) /\ r \in DOMAIN s /\ s[r] = u[r]
  BY <1>1
<1>5. [s EXCEPT ![r] = v] = [u EXCEPT ![r] = v] \o t
  BY <1>1, <1>2, <1>4, UpdateFirst
<1> HIDE DEF s
<1>6. Applied(s, c) = [s EXCEPT ![r] = Over(@, c.content)]
  BY <1>1 DEF Applied
<1>7. Applied(s, c) = [s EXCEPT ![r] = v]
  BY <1>1, <1>4, <1>6
<1> QED
  BY <1>3, <1>5, <1>7 DEF s, u, UpdatesOne

\* A change that adds an item does so at the end; one without a target does nothing.
LEMMA AppliedElse ==
  ASSUME NEW s, NEW c
  PROVE  /\ c.op = "ADD" => Applied(s, c) = Append(s, Written(Blank, c.content))
         /\ c.op \in {"DELETE", "UPDATE"} /\ c.target = 0 => Applied(s, c) = s
<1>1. c.target = 0 => WithId(s, c.target) = {}
  BY DEF WithId
<1> QED
  BY <1>1 DEF Applied

-----------------------------------------------------------------------------
(* What the changes do up to a place *)

\* The answers are one for each item.
Heard == SrsTypes /\ Len(said) = Len(base)

\* Where there is an answer for each item the types are right.
LEMMA SrsTypesOfHeard == ASSUME Heard PROVE SrsTypes
BY DEF Heard

\* Each item has an id and an answer, and what it may come to is an item.
LEMMA ItemsTyped ==
  ASSUME Heard
  PROVE  /\ Len(base) \in Nat /\ DOMAIN base = 1 .. Len(base) /\ DOMAIN said = 1 .. Len(base)
         /\ \A i \in DOMAIN base : base[i] \in Items /\ base[i].id \in Nat
         /\ \A i \in DOMAIN base : said[i].op \in Operations \cup {"NONE"} /\ said[i].content \in Contents
         /\ \A i \in DOMAIN base : Kept(i) \in Items
<1>1. /\ Len(base) \in Nat /\ DOMAIN base = 1 .. Len(base) /\ DOMAIN said = 1 .. Len(base)
      /\ \A i \in DOMAIN base : base[i] \in Items
      /\ \A i \in DOMAIN base : said[i] \in Answers
  BY DEF Heard, SrsTypes
<1>2. \A i \in DOMAIN base : said[i].op \in Operations \cup {"NONE"} /\ said[i].content \in Contents
  BY <1>1 DEF Answers
<1>3. \A i \in DOMAIN base : base[i].id \in Nat
  BY <1>1 DEF Items
<1>4. \A i \in DOMAIN base : Kept(i) \in Items
  BY <1>1, <1>2, WrittenIsItem DEF Kept
<1> QED
  BY <1>1, <1>2, <1>3, <1>4

\* What is kept of an item has its id, or none.
LEMMA KeptId ==
  ASSUME Heard, ~Reidentified, NEW i \in DOMAIN base
  PROVE  Kept(i).id \in {base[i].id, 0}
<1>1. /\ base[i] \in Items /\ said[i].content \in Contents /\ i \in DOMAIN said
  BY ItemsTyped
<1>2. /\ Written(base[i], said[i].content).id = Or(said[i].content, "id", base[i].id)
      /\ Written(Blank, said[i].content).id = Or(said[i].content, "id", 0)
  BY <1>1, WrittenIsItem
<1>3. CASE said[i].op = "UPDATE" /\ base[i].id # 0
  <2>1. "id" \in DOMAIN said[i].content => said[i].content["id"] = base[i].id
    BY <1>1, <1>3 DEF Reidentified
  <2>2. Over(base[i], said[i].content) \in
          {Written(Blank, said[i].content), Written(base[i], said[i].content)}
    BY DEF Over
  <2>3. Kept(i) = Over(base[i], said[i].content)
    BY <1>3 DEF Kept
  <2> QED
    BY <1>2, <2>1, <2>2, <2>3 DEF Or
<1>4. CASE ~(said[i].op = "UPDATE" /\ base[i].id # 0)
  BY <1>4 DEF Kept
<1> QED
  BY <1>3, <1>4

\* The meeting's additions are changes that add an item each.
LEMMA AdditionsTyped ==
  ASSUME SrsTypes
  PROVE  /\ Additions \in Seq(Demands) /\ Len(Additions) \in Nat
         /\ \A k \in 1 .. Len(Additions) : /\ Additions[k] \in Demands /\ Additions[k].op = "ADD"
                                          /\ Additions[k].content \in Contents
         /\ New(Additions) \in Seq(Items) /\ Len(New(Additions)) = Len(Additions)
         /\ told = <<>> => Additions = <<>>
<1> DEFINE P == {i \in DOMAIN told : told[i].op = "ADD"}
<1>1. told \in Seq(Demands) /\ P \in SUBSET (1 .. Len(told))
  BY DEF SrsTypes
<1>2. /\ Additions \in Seq(Demands) /\ Picks(Additions, told, P)
      /\ Len(Additions) = Cardinality(P)
  BY <1>1, Picked, PickProperties DEF Additions
<1>3. \A k \in DOMAIN Additions : \E i \in P : Additions[k] = told[i]
  BY <1>2 DEF Picks
<1>4. Len(Additions) \in Nat /\ DOMAIN Additions = 1 .. Len(Additions)
  BY <1>2
<1>5. \A k \in DOMAIN Additions : Additions[k] \in Demands /\ Additions[k].op = "ADD"
  BY <1>2, <1>3
<1>6. \A k \in DOMAIN Additions : Additions[k].content \in Contents
  BY <1>5 DEF Demands
<1>7. New(Additions) \in [1 .. Len(Additions) -> Items]
  <2>1. \A k \in DOMAIN Additions : Written(Blank, Additions[k].content) \in Items
    <3>1. Blank \in Items
      BY SrsAssumption DEF Blank, Items, Kinds
    <3> QED
      BY <3>1, <1>6, WrittenIsItem
  <2> QED
    BY <1>4, <2>1 DEF New
<1>8. New(Additions) \in Seq(Items) /\ Len(New(Additions)) = Len(Additions)
  BY <1>4, <1>7, SeqOfFunction
<1>9. told = <<>> => Additions = <<>>
  <2>1. SUFFICES ASSUME told = <<>> PROVE Additions = <<>>
    OBVIOUS
  <2>2. DOMAIN Additions = {}
    BY <1>3, <2>1
  <2> QED
    BY <1>2, <2>2
<1> QED
  BY <1>2, <1>4, <1>5, <1>6, <1>8, <1>9

\* The answers come to changes of the items they are about, in their order.
LEMMA ReducedIs ==
  ASSUME Heard, NEW A, A = Answered(said)
  PROVE  /\ A \in SUBSET (1 .. Len(base)) /\ Cardinality(A) \in Nat
         /\ Reduced(said) \in Seq(Writes) /\ Len(Reduced(said)) = Cardinality(A)
         /\ \A k \in 1 .. Cardinality(A) :
              /\ Position(A, k) \in A
              /\ Reduced(said)[k] = [op |-> said[Position(A, k)].op,
                                     target |-> base[Position(A, k)].id,
                                     content |-> said[Position(A, k)].content]
<1> DEFINE f == [i \in DOMAIN base |-> i]
           at == Pick(f, A)
           O(p) == [op |-> said[p].op, target |-> base[p].id, content |-> said[p].content]
<1>1. /\ Len(base) \in Nat /\ DOMAIN base = 1 .. Len(base) /\ DOMAIN said = 1 .. Len(base)
      /\ \A i \in DOMAIN base : base[i].id \in Nat
      /\ \A i \in DOMAIN base : said[i].op \in Operations \cup {"NONE"} /\ said[i].content \in Contents
  BY ItemsTyped
<1>2. A \in SUBSET (1 .. Len(base)) /\ \A i \in A : said[i].op \in Operations
  BY <1>1 DEF Answered
<1>3. Cardinality(A) \in Nat /\ \A k \in 1 .. Cardinality(A) : Position(A, k) \in A
  BY <1>1, <1>2, PositionProperties
<1>4. DOMAIN at = 1 .. Cardinality(A) /\ \A k \in DOMAIN at : at[k] = Position(A, k)
  BY <1>1, <1>2, <1>3 DEF Pick
<1>5. Reduced(said) = [k \in DOMAIN at |-> O(at[k])]
  BY DEF Reduced
<1> HIDE DEF at
<1>6. Reduced(said) = [k \in 1 .. Cardinality(A) |-> O(Position(A, k))]
  BY <1>4, <1>5
<1>7. \A p \in A : O(p) \in Writes
  BY <1>1, <1>2 DEF Writes
<1> HIDE DEF O
<1>8. Reduced(said) \in [1 .. Cardinality(A) -> Writes]
  BY <1>3, <1>6, <1>7
<1>9. Reduced(said) \in Seq(Writes) /\ Len(Reduced(said)) = Cardinality(A)
  BY <1>3, <1>8, SeqOfFunction
<1> QED
  BY <1>2, <1>3, <1>6, <1>9 DEF O

\* The changes are those the answers come to, then the additions.
LEMMA ChangesAre ==
  ASSUME SrsTypes, said # <<>> => Heard
  PROVE  /\ Changes \in Seq(Demands \cup Writes) /\ Len(Changes) \in Nat
         /\ said # <<>> => Len(Changes) = Cardinality(Answered(said)) + Len(Additions)
         /\ said # <<>> => Follows(Changes, Reduced(said), Additions)
<1>1. CASE said = <<>>
  <2>1. Changes \in Seq(Demands)
    BY <1>1 DEF Changes, SrsTypes
  <2> QED
    BY <1>1, <2>1
<1>2. CASE said # <<>>
  <2>1. /\ Reduced(said) \in Seq(Writes) /\ Len(Reduced(said)) = Cardinality(Answered(said))
        /\ Cardinality(Answered(said)) \in Nat
    BY <1>2, ReducedIs
  <2>2. Additions \in Seq(Demands) /\ Len(Additions) \in Nat
    BY AdditionsTyped
  <2>3. Reduced(said) \in Seq(Demands \cup Writes) /\ Additions \in Seq(Demands \cup Writes)
    BY <2>1, <2>2
  <2>4. Changes = Reduced(said) \o Additions
    BY <1>2 DEF Changes
  <2>5. /\ Changes \in Seq(Demands \cup Writes)
        /\ Follows(Changes, Reduced(said), Additions)
    BY <2>3, <2>4, Appended
  <2>6. Len(Changes) = Len(Reduced(said)) + Len(Additions)
    BY <2>3, <2>4
  <2> QED
    BY <1>2, <2>1, <2>2, <2>5, <2>6
<1> QED
  BY <1>1, <1>2

\* There are finitely many changes.
LEMMA ChangesCounted ==
  ASSUME Heard
  PROVE  Len(Changes) \in Nat
BY ChangesAre, SrsTypesOfHeard

\* The next answered item comes after those whose answers are among the first n.
LEMMA DoneStep ==
  ASSUME Heard, NEW A, A = Answered(said), NEW n \in Nat, n < Cardinality(A)
  PROVE  /\ Position(A, n + 1) \in A /\ Position(A, n + 1) \notin Done(n)
         /\ Done(n + 1) = Done(n) \cup {Position(A, n + 1)}
         /\ \A i \in Done(n) : i < Position(A, n + 1)
<1> DEFINE p == Position(A, n + 1)
<1>1. /\ A \in SUBSET (1 .. Len(base)) /\ Cardinality(A) \in Nat /\ Len(base) \in Nat
  BY ReducedIs, ItemsTyped
<1>2. n + 1 \in 1 .. Cardinality(A)
  BY <1>1
<1>3. p \in A /\ Rank(A, p) = n + 1
  BY <1>1, <1>2, PositionRank
<1>4. \A i \in A : Rank(A, i) \in Nat /\ Position(A, Rank(A, i)) = i /\ i \in Nat
  <2>1. \A i \in A : Rank(A, i) \in 1 .. Cardinality(A) /\ Position(A, Rank(A, i)) = i
    BY <1>1, PositionIs
  <2> QED
    BY <1>1, <2>1
<1> HIDE DEF p
<1>5. \A i \in A : Rank(A, i) <= n + 1 <=> Rank(A, i) <= n \/ i = p
  <2>1. SUFFICES ASSUME NEW i \in A
                 PROVE  Rank(A, i) <= n + 1 <=> Rank(A, i) <= n \/ i = p
    OBVIOUS
  <2>2. Rank(A, i) = n + 1 => i = p
    BY <1>4 DEF p
  <2> QED
    BY <1>3, <1>4, <2>2
<1>6. Done(n) = {i \in A : Rank(A, i) <= n} /\ Done(n + 1) = {i \in A : Rank(A, i) <= n + 1}
  BY DEF Done
<1>7. \A i \in Done(n) : i < p
  <2>1. SUFFICES ASSUME NEW i \in A, Rank(A, i) <= n PROVE i < p
    BY <1>6
  <2>2. i # p
    BY <1>3, <2>1
  <2>3. p < i => Rank(A, p) < Rank(A, i)
    BY <1>1, <1>3, RankStrict
  <2> QED
    BY <1>3, <1>4, <2>1, <2>2, <2>3
<1>8. p \notin Done(n)
  BY <1>3, <1>6
<1>9. Done(n + 1) = Done(n) \cup {p}
  BY <1>3, <1>5, <1>6
<1> QED
  BY <1>3, <1>7, <1>8, <1>9 DEF p

\* No answer is among the first none; when n reaches their number all are.
LEMMA DoneEnds ==
  ASSUME Heard
  PROVE  /\ Done(0) = {}
         /\ \A n \in Nat : Cardinality(Answered(said)) <= n => Done(n) = Answered(said)
<1> DEFINE A == Answered(said)
<1>1. /\ A \in SUBSET (1 .. Len(base)) /\ Cardinality(A) \in Nat /\ Len(base) \in Nat
  BY ReducedIs, ItemsTyped
<1>2. \A i \in A : Rank(A, i) \in 1 .. Cardinality(A)
  BY <1>1, PositionIs
<1> HIDE DEF A
<1>3. /\ {i \in A : Rank(A, i) <= 0} = {}
      /\ \A n \in Nat : Cardinality(A) <= n => {i \in A : Rank(A, i) <= n} = A
  <2>1. \A i \in A : ~(Rank(A, i) <= 0)
    BY <1>1, <1>2
  <2>2. \A n \in Nat : Cardinality(A) <= n => \A i \in A : Rank(A, i) <= n
    BY <1>1, <1>2
  <2> QED
    BY <2>1, <2>2, Zenon
<1> QED
  BY <1>3 DEF Done, A

\* The parts the items consist of.
PartsTyped(n) ==
  /\ Now(n) \in Seq(Items) /\ Len(Now(n)) = Len(base) /\ Staying(n) \in SUBSET (1 .. Len(base))
  /\ New(said) \in Seq(Items) /\ Len(New(said)) = Len(base)
  /\ Adding \cap Done(n) \in SUBSET (1 .. Len(base))
  /\ Pick(Now(n), Staying(n)) \in Seq(Items) /\ Back(n) \in Seq(Items)

\* The parts are sequences of items.
LEMMA PartsAre ==
  ASSUME Heard, NEW n
  PROVE  PartsTyped(n)
<1>1. /\ Len(base) \in Nat /\ DOMAIN base = 1 .. Len(base) /\ DOMAIN said = 1 .. Len(base)
      /\ \A i \in DOMAIN base : base[i] \in Items /\ Kept(i) \in Items
      /\ \A i \in DOMAIN base : said[i].content \in Contents
  BY ItemsTyped
<1>2. Now(n) \in [1 .. Len(base) -> Items]
  BY <1>1 DEF Now
<1>3. Now(n) \in Seq(Items) /\ Len(Now(n)) = Len(base)
  BY <1>1, <1>2, SeqOfFunction
<1>4. New(said) \in [1 .. Len(base) -> Items]
  <2>1. \A i \in DOMAIN base : Written(Blank, said[i].content) \in Items
    BY <1>1, WrittenIsItem
  <2> QED
    BY <1>1, <2>1 DEF New
<1>5. New(said) \in Seq(Items) /\ Len(New(said)) = Len(base)
  BY <1>1, <1>4, SeqOfFunction
<1>6. Staying(n) \in SUBSET (1 .. Len(base)) /\ Adding \cap Done(n) \in SUBSET (1 .. Len(base))
  BY <1>1 DEF Staying, Adding
<1>7. Pick(Now(n), Staying(n)) \in Seq(Items)
  BY <1>3, <1>6, PickProperties
<1>8. Back(n) \in Seq(Items)
  BY <1>5, <1>6, PickProperties DEF Back
<1> QED
  BY <1>3, <1>5, <1>6, <1>7, <1>8 DEF PartsTyped

\* The additions come after the answers, one with each turn.
LEMMA LastIs ==
  ASSUME Heard, NEW n \in Nat, n <= Cardinality(Answered(said)) + Len(Additions)
  PROVE  /\ Cardinality(Answered(said)) \in Nat
         /\ n <= Cardinality(Answered(said)) => Last(n) = <<>>
         /\ Last(n) \in Seq(Items)
         /\ n = Cardinality(Answered(said)) + Len(Additions) => Last(n) = New(Additions)
         /\ Cardinality(Answered(said)) < n =>
              Last(n) = Append(Last(n - 1), New(Additions)[n - Cardinality(Answered(said))])
<1> DEFINE m == Cardinality(Answered(said))
           t == New(Additions)
<1>1. m \in Nat
  BY ReducedIs
<1>2. t \in Seq(Items) /\ Len(t) = Len(Additions) /\ Len(t) \in Nat
  BY AdditionsTyped, SrsTypesOfHeard
<1> HIDE DEF m, t
<1>3. \A k : Last(k) = [j \in 1 .. k - m |-> t[j]]
  BY DEF Last, m, t
<1>4. n <= m => Last(n) = <<>>
  <2>1. SUFFICES ASSUME n <= m PROVE Last(n) = <<>>
    OBVIOUS
  <2>2. 1 .. n - m = {}
    BY <1>1, <2>1
  <2>3. Last(n) = [j \in {} |-> t[j]]
    BY <1>3, <2>2
  <2> QED
    BY <2>3
<1>5. \A k \in Nat : m <= k /\ k <= m + Len(t) => Last(k) \in Seq(Items) /\ Len(Last(k)) = k - m
  <2>1. SUFFICES ASSUME NEW k \in Nat, m <= k, k <= m + Len(t)
                 PROVE  Last(k) \in Seq(Items) /\ Len(Last(k)) = k - m
    OBVIOUS
  <2>2. k - m \in Nat /\ 1 .. k - m \subseteq 1 .. Len(t)
    BY <1>1, <1>2, <2>1
  <2>3. Last(k) \in [1 .. k - m -> Items]
    BY <1>2, <1>3, <2>2
  <2> QED
    BY <2>2, <2>3, SeqOfFunction
<1>6. Last(n) \in Seq(Items)
  <2>1. CASE n <= m
    BY <1>4, <2>1
  <2>2. CASE ~(n <= m)
    BY <1>1, <1>2, <1>5, <2>2 DEF m
  <2> QED
    BY <2>1, <2>2
<1>7. n = m + Len(Additions) => Last(n) = t
  <2>1. SUFFICES ASSUME n = m + Len(t) PROVE Last(n) = t
    BY <1>2
  <2>2. n - m = Len(t)
    BY <1>1, <1>2, <2>1
  <2>3. t = [j \in 1 .. Len(t) |-> t[j]]
    BY <1>2
  <2> QED
    BY <1>3, <2>2, <2>3
<1>8. m < n => Last(n) = Append(Last(n - 1), t[n - m])
  <2>1. SUFFICES ASSUME m < n PROVE Last(n) = Append(Last(n - 1), t[n - m])
    OBVIOUS
  <2> DEFINE u == Last(n - 1)
             v == Append(u, t[n - m])
  <2>2. /\ n - 1 \in Nat /\ m <= n - 1 /\ n - 1 <= m + Len(t) /\ n <= m + Len(t)
    BY <1>1, <1>2, <2>1 DEF m
  <2>3. u \in Seq(Items) /\ Len(u) = (n - 1) - m
    BY <1>5, <2>2
  <2>4. t[n - m] \in Items
    BY <1>1, <1>2, <2>1, <2>2
  <2>5. \A j \in 1 .. (n - 1) - m : u[j] = t[j]
    BY <1>3
  <2> HIDE DEF u
  <2>6. v \in Seq(Items) /\ Len(v) = n - m
    BY <1>1, <2>2, <2>3, <2>4
  <2>7. \A j \in 1 .. n - m : v[j] = t[j]
    BY <1>1, <2>2, <2>3, <2>4, <2>5
  <2>8. Last(n) \in Seq(Items) /\ Len(Last(n)) = n - m
    <3>1. m <= n
      BY <1>1, <2>1
    <3> QED
      BY <1>5, <2>2, <3>1
  <2>9. \A j \in 1 .. n - m : Last(n)[j] = t[j]
    BY <1>3
  <2> HIDE DEF v
  <2>10. Last(n) = v
    BY <2>6, <2>7, <2>8, <2>9, SeqEqual
  <2> QED
    BY <2>10 DEF u, v
<1> QED
  BY <1>1, <1>4, <1>6, <1>7, <1>8 DEF m, t

\* How the parts change when the answer for item p is next.
PartsNext(n, p) ==
  /\ p \in DOMAIN base /\ p \in Staying(n) /\ Now(n)[p] = base[p]
  /\ Now(n + 1) = [Now(n) EXCEPT ![p] = Kept(p)]
  /\ Staying(n + 1) = IF p \in Gone THEN Staying(n) \ {p} ELSE Staying(n)
  /\ p \notin Adding => Back(n + 1) = Back(n)
  /\ p \in Adding => Back(n + 1) = Append(Back(n), Written(Blank, said[p].content))

\* The next answer changes the parts where its item is, and nowhere else.
LEMMA PartsStep ==
  ASSUME Heard, NEW n \in Nat, n < Cardinality(Answered(said))
  PROVE  PartsNext(n, Position(Answered(said), n + 1))
<1> DEFINE p == Position(Answered(said), n + 1)
           D == Done(n)
<1>1. /\ p \in Answered(said) /\ p \notin D
      /\ Done(n + 1) = D \cup {p} /\ \A i \in D : i < p
  BY DoneStep
<1>2. /\ DOMAIN base = 1 .. Len(base) /\ DOMAIN said = 1 .. Len(base) /\ Len(base) \in Nat
  BY ItemsTyped
<1>3. p \in 1 .. Len(base) /\ D \subseteq 1 .. Len(base)
  BY <1>1, <1>2 DEF Answered, Done
<1> HIDE DEF p, D
<1>4. p \in Staying(n) /\ Now(n)[p] = base[p]
  BY <1>1, <1>2, <1>3 DEF Staying, Now, D
<1>5. Now(n + 1) = [Now(n) EXCEPT ![p] = Kept(p)]
  <2>1. Now(n) = [i \in DOMAIN base |-> IF i \in D THEN Kept(i) ELSE base[i]]
    BY DEF Now, D
  <2>2. Now(n + 1) = [i \in DOMAIN base |-> IF i \in D \cup {p} THEN Kept(i) ELSE base[i]]
    BY <1>1 DEF Now
  <2> QED
    BY <2>1, <2>2
<1>6. Staying(n + 1) = IF p \in Gone THEN Staying(n) \ {p} ELSE Staying(n)
  BY <1>1 DEF Staying, D
<1>7. p \notin Adding => Back(n + 1) = Back(n)
  <2>1. SUFFICES ASSUME p \notin Adding PROVE Back(n + 1) = Back(n)
    OBVIOUS
  <2>2. Adding \cap Done(n + 1) = Adding \cap Done(n)
    BY <1>1, <2>1 DEF D
  <2> QED
    BY <2>2 DEF Back
<1>8. p \in Adding => Back(n + 1) = Append(Back(n), Written(Blank, said[p].content))
  <2>1. SUFFICES ASSUME p \in Adding
                 PROVE  Back(n + 1) = Append(Back(n), Written(Blank, said[p].content))
    OBVIOUS
  <2> DEFINE P == Adding \cap Done(n)
  <2>2. Adding \cap Done(n + 1) = P \cup {p}
    BY <1>1, <2>1 DEF D
  <2>3. New(said) \in Seq(Items) /\ Len(New(said)) = Len(base) /\ P \in SUBSET (1 .. Len(New(said)))
    BY PartsAre DEF PartsTyped
  <2>4. p \in 1 .. Len(New(said)) /\ \A i \in P : i < p
    BY <1>1, <1>3, <2>3 DEF D
  <2> HIDE DEF P
  <2>5. Pick(New(said), P \cup {p}) = Append(Pick(New(said), P), New(said)[p])
    BY <2>3, <2>4, PickOfMore
  <2>6. New(said)[p] = Written(Blank, said[p].content)
    BY <1>2, <1>3 DEF New
  <2> QED
    BY <2>2, <2>5, <2>6 DEF Back, P
<1> QED
  BY <1>2, <1>3, <1>4, <1>5, <1>6, <1>7, <1>8 DEF PartsNext, p

\* One turn with the answer for item p.
LEMMA AnswerApplied ==
  ASSUME Heard, OwnIds, NEW n \in Nat, n < Cardinality(Answered(said)), NEW p,
         p = Position(Answered(said), n + 1), NEW c,
         c.op = said[p].op, c.target = base[p].id, c.content = said[p].content
  PROVE  Applied(Pick(Now(n), Staying(n)) \o Back(n), c)
           = Pick(Now(n + 1), Staying(n + 1)) \o Back(n + 1)
<1> DEFINE f == Now(n)
           R == Staying(n)
           t == Back(n)
<1>1. /\ p \in DOMAIN base /\ p \in R /\ f[p] = base[p]
      /\ Now(n + 1) = [f EXCEPT ![p] = Kept(p)]
      /\ Staying(n + 1) = IF p \in Gone THEN R \ {p} ELSE R
      /\ p \notin Adding => Back(n + 1) = t
      /\ p \in Adding => Back(n + 1) = Append(t, Written(Blank, said[p].content))
  BY PartsStep DEF PartsNext
<1>2. /\ f \in Seq(Items) /\ Len(f) = Len(base) /\ R \in SUBSET (1 .. Len(base))
      /\ Pick(f, R) \in Seq(Items) /\ t \in Seq(Items)
  BY PartsAre DEF PartsTyped
<1>3. /\ Len(base) \in Nat /\ DOMAIN base = 1 .. Len(base) /\ DOMAIN said = 1 .. Len(base)
      /\ base[p] \in Items /\ base[p].id \in Nat
      /\ said[p].op \in Operations \cup {"NONE"} /\ said[p].content \in Contents
  BY <1>1, ItemsTyped
<1>4. p \in Answered(said)
  BY DoneStep
<1>5. said[p].op \in Operations
  BY <1>3, <1>4 DEF Answered
<1>7. base[p].id # 0 => \A i \in R : i # p => f[i].id # base[p].id
  <2>1. SUFFICES ASSUME base[p].id # 0, NEW i \in R, i # p PROVE f[i].id # base[p].id
    OBVIOUS
  <2>2. i \in DOMAIN base
    BY <1>2, <1>3
  <2>3. Kept(i).id \in {base[i].id, 0}
    BY <2>2, KeptId DEF OwnIds
  <2>4. base[i].id # base[p].id
    BY <1>1, <2>1, <2>2 DEF OwnIds, IdsDiffer
  <2>5. f[i] \in {Kept(i), base[i]}
    BY <2>2 DEF Now
  <2> QED
    BY <2>1, <2>3, <2>4, <2>5
<1>9. f = [f EXCEPT ![p] = base[p]]
  BY <1>1, <1>2, <1>3
<1> HIDE DEF f, R, t
<1>6. PICK r \in 1 .. Cardinality(R) : Position(R, r) = p
  <2>1. Rank(R, p) \in 1 .. Cardinality(R) /\ Position(R, Rank(R, p)) = p
    BY <1>1, <1>2, <1>3, PositionIs
  <2> QED
    BY <2>1
<1>8. R \in SUBSET (1 .. Len(f)) /\ f \in Seq(Items) /\ t \in Seq(Items)
  BY <1>2
<1>10. CASE said[p].op = "ADD"
  <2>1. p \notin Gone /\ p \in Adding /\ Kept(p) = base[p]
    BY <1>1, <1>3, <1>10 DEF Gone, Adding, Kept
  <2>2. Applied(Pick(f, R) \o t, c) = Append(Pick(f, R) \o t, Written(Blank, said[p].content))
    <3>1. Applied(Pick(f, R) \o t, c) = Append(Pick(f, R) \o t, Written(Blank, c.content))
      BY <1>10, AppliedElse
    <3> QED
      BY <3>1
  <2>3. Written(Blank, said[p].content) \in Items
    BY <1>3, WrittenIsItem
  <2>4. Append(Pick(f, R) \o t, Written(Blank, said[p].content))
          = Pick(f, R) \o Append(t, Written(Blank, said[p].content))
    <3>1. GrowsAtLast(Pick(f, R), t, Written(Blank, said[p].content))
      BY <1>2, <2>3, AppendLast
    <3> QED
      BY <3>1 DEF GrowsAtLast
  <2> QED
    BY <1>1, <1>9, <2>1, <2>2, <2>4 DEF f, R, t
<1>11. CASE said[p].op # "ADD" /\ base[p].id = 0
  <2>1. p \notin Gone /\ p \notin Adding /\ Kept(p) = base[p]
    BY <1>1, <1>3, <1>11 DEF Gone, Adding, Kept
  <2>2. c.op \in {"DELETE", "UPDATE"} /\ c.target = 0
    BY <1>5, <1>11 DEF Operations
  <2>3. Applied(Pick(f, R) \o t, c) = Pick(f, R) \o t
    BY <2>2, AppliedElse
  <2> QED
    BY <1>1, <1>9, <2>1, <2>3 DEF f, R, t
<1>12. CASE said[p].op = "DELETE" /\ base[p].id # 0
  <2>1. p \in Gone /\ p \notin Adding /\ Kept(p) = base[p]
    BY <1>1, <1>3, <1>12 DEF Gone, Adding, Kept
  <2>2. Applied(Pick(f, R) \o t, c) = Pick(f, R \ {p}) \o t
    <3>1. base[p].id \in Nat \ {0} /\ c.op = "DELETE" /\ f[Position(R, r)].id = base[p].id
      BY <1>1, <1>3, <1>6, <1>12
    <3>2. \A i \in R : i # Position(R, r) => f[i].id # base[p].id
      BY <1>6, <1>7, <1>12
    <3>3. DeletesOne(f, R, r, t, c)
      BY <1>8, <3>1, <3>2, AppliedDelete
    <3> QED
      BY <1>6, <3>3 DEF DeletesOne
  <2> QED
    BY <1>1, <1>9, <2>1, <2>2 DEF f, R, t
<1>13. CASE said[p].op = "UPDATE" /\ base[p].id # 0
  <2>1. p \notin Gone /\ p \notin Adding /\ Kept(p) = Over(base[p], said[p].content)
    BY <1>1, <1>3, <1>13 DEF Gone, Adding, Kept
  <2>2. Applied(Pick(f, R) \o t, c)
          = Pick([f EXCEPT ![p] = Over(@, c.content)], R) \o t
    <3>1. base[p].id \in Nat \ {0} /\ c.op = "UPDATE" /\ f[Position(R, r)].id = base[p].id
      BY <1>1, <1>3, <1>6, <1>13
    <3>2. \A i \in R : i # Position(R, r) => f[i].id # base[p].id
      BY <1>6, <1>7, <1>13
    <3>3. c.content \in Contents
      BY <1>3
    <3>4. UpdatesOne(f, R, r, t, c)
      BY <1>8, <3>1, <3>2, <3>3, AppliedUpdate
    <3> QED
      BY <1>6, <3>4 DEF UpdatesOne
  <2>3. [f EXCEPT ![p] = Over(@, c.content)] = [f EXCEPT ![p] = Kept(p)]
    BY <1>1, <2>1
  <2> QED
    BY <1>1, <2>1, <2>2, <2>3 DEF f, R, t
<1> QED
  BY <1>5, <1>10, <1>11, <1>12, <1>13 DEF Operations

\* One turn of the loop.
LEMMA SoFarStep ==
  ASSUME Heard, OwnIds, NEW n \in Nat, n < Len(Changes)
  PROVE  Applied(SoFar(n), Changes[n + 1]) = SoFar(n + 1)
<1> DEFINE m == Cardinality(Answered(said))
           front(k) == Pick(Now(k), Staying(k)) \o Back(k)
           c == Changes[n + 1]
<1>1. /\ m \in Nat /\ Len(Reduced(said)) = m
      /\ \A k \in 1 .. m :
           Reduced(said)[k] = [op |-> said[Position(Answered(said), k)].op,
                               target |-> base[Position(Answered(said), k)].id,
                               content |-> said[Position(Answered(said), k)].content]
      /\ Reduced(said) \in Seq(Writes)
  BY ReducedIs
<1>2. /\ Len(Additions) \in Nat
      /\ \A k \in 1 .. Len(Additions) : Additions[k].op = "ADD" /\ Additions[k].content \in Contents
      /\ New(Additions) \in Seq(Items) /\ Len(New(Additions)) = Len(Additions)
      /\ DOMAIN Additions = 1 .. Len(Additions)
  BY AdditionsTyped, SrsTypesOfHeard
<1>3. Len(Changes) = m + Len(Additions) /\ Follows(Changes, Reduced(said), Additions)
  BY ChangesAre, SrsTypesOfHeard DEF OwnIds
<1>4. \A k : Pick(Now(k), Staying(k)) \in Seq(Items) /\ Back(k) \in Seq(Items)
  BY PartsAre DEF PartsTyped
<1>5. \A k : front(k) \in Seq(Items)
  BY <1>4
<1>6. SoFar(n) = front(n) \o Last(n) /\ SoFar(n + 1) = front(n + 1) \o Last(n + 1)
  BY DEF SoFar
<1>7. /\ n <= m => Last(n) = <<>>
      /\ Last(n) \in Seq(Items)
  BY <1>1, <1>2, <1>3, LastIs
<1>8. /\ n + 1 <= m => Last(n + 1) = <<>>
      /\ m < n + 1 => Last(n + 1) = Append(Last(n), New(Additions)[n + 1 - m])
  <2>1. n + 1 \in Nat /\ n + 1 <= m + Len(Additions) /\ (n + 1) - 1 = n
    BY <1>1, <1>2, <1>3
  <2>2. /\ n + 1 <= m => Last(n + 1) = <<>>
        /\ m < n + 1 => Last(n + 1) = Append(Last((n + 1) - 1), New(Additions)[n + 1 - m])
    BY <2>1, LastIs
  <2> QED
    BY <2>1, <2>2
<1>9. CASE n < m
  <2> DEFINE p == Position(Answered(said), n + 1)
  <2>1. n + 1 \in 1 .. m /\ n + 1 <= m /\ n <= m
    BY <1>1, <1>9
  <2>2. c = Reduced(said)[n + 1]
    BY <1>1, <1>3, <2>1 DEF Follows
  <2>3. c.op = said[p].op /\ c.target = base[p].id /\ c.content = said[p].content
    BY <1>1, <2>1, <2>2
  <2> HIDE DEF p, c
  <2>4. Applied(Pick(Now(n), Staying(n)) \o Back(n), c)
          = Pick(Now(n + 1), Staying(n + 1)) \o Back(n + 1)
    BY <1>9, <2>3, AnswerApplied DEF p
  <2>5. front(n) \o <<>> = front(n) /\ front(n + 1) \o <<>> = front(n + 1)
    BY <1>5
  <2> QED
    BY <1>6, <1>7, <1>8, <2>1, <2>4, <2>5 DEF c
<1>10. CASE ~(n < m)
  <2> DEFINE k == n + 1 - m
  <2>1. k \in 1 .. Len(Additions) /\ m < n + 1 /\ n + 1 = Len(Reduced(said)) + k
    BY <1>1, <1>2, <1>3, <1>10
  <2> HIDE DEF k
  <2>2. c = Additions[k]
    BY <1>3, <2>1 DEF Follows
  <2>3. Written(Blank, c.content) = New(Additions)[k] /\ New(Additions)[k] \in Items
    BY <1>2, <2>1, <2>2 DEF New
  <2>4. c.op = "ADD"
    BY <1>2, <2>1, <2>2
  <2> HIDE DEF c
  <2>5. Applied(SoFar(n), c) = Append(SoFar(n), New(Additions)[k])
    BY <2>3, <2>4, AppliedElse
  <2>6. GrowsAtLast(front(n), Last(n), New(Additions)[k])
    <3> HIDE DEF front
    <3> QED
      BY <1>5, <1>7, <2>3, AppendLast
  <2>7. Done(n + 1) = Done(n)
    <3>1. n + 1 \in Nat /\ m <= n /\ m <= n + 1
      BY <1>1, <1>10
    <3> QED
      BY <3>1, DoneEnds
  <2>8. front(n + 1) = front(n)
    BY <2>7 DEF Now, Staying, Back
  <2>9. Last(n + 1) = Append(Last(n), New(Additions)[k])
    BY <1>8, <2>1 DEF k
  <2> HIDE DEF front
  <2> QED
    BY <1>6, <2>5, <2>6, <2>8, <2>9 DEF GrowsAtLast, c
<1> QED
  BY <1>9, <1>10

\* Before the first turn the items are the base.
LEMMA SoFarStarts ==
  ASSUME Heard
  PROVE  SoFar(0) = base
<1>1. Done(0) = {}
  BY DoneEnds
<1>2. base \in Seq(Items) /\ DOMAIN base = 1 .. Len(base)
  BY DEF Heard, SrsTypes
<1>3. Now(0) = base /\ Staying(0) = 1 .. Len(base) /\ Adding \cap Done(0) = {}
  BY <1>1, <1>2 DEF Now, Staying
<1>4. New(said) \in Seq(Items)
  BY PartsAre DEF PartsTyped
<1>5. Pick(Now(0), Staying(0)) = base /\ Back(0) = <<>>
  BY <1>2, <1>3, <1>4, PickAll DEF Back
<1>6. Last(0) = <<>>
  <2>1. Cardinality(Answered(said)) \in Nat /\ Len(Additions) \in Nat
    BY ReducedIs, AdditionsTyped, SrsTypesOfHeard
  <2> QED
    BY <2>1, LastIs
<1>7. base \o <<>> = base
  BY <1>2
<1> QED
  BY <1>5, <1>6, <1>7 DEF SoFar

\* After the last turn they are what applying every answer to its own item gives.
LEMMA SoFarEnds ==
  ASSUME Heard, said # <<>>
  PROVE  SoFar(Len(Changes)) = Expected
<1> DEFINE n == Len(Changes)
<1>1. /\ Cardinality(Answered(said)) \in Nat /\ Len(Additions) \in Nat
      /\ n = Cardinality(Answered(said)) + Len(Additions)
  BY ReducedIs, AdditionsTyped, ChangesAre, SrsTypesOfHeard
<1>2. n \in Nat /\ Cardinality(Answered(said)) <= n
  BY <1>1
<1> HIDE DEF n
<1>3. Done(n) = Answered(said)
  BY <1>2, DoneEnds
<1>4. Last(n) = New(Additions)
  BY <1>1, <1>2, LastIs
<1>5. DOMAIN said = DOMAIN base
  BY ItemsTyped
<1>6. Now(n) = [i \in DOMAIN base |-> Kept(i)]
  BY <1>3, <1>5 DEF Now, Answered, Kept
<1>7. Staying(n) = DOMAIN base \ Gone /\ Adding \cap Done(n) = Adding
  BY <1>3, <1>5 DEF Staying, Gone, Adding, Answered
<1> QED
  BY <1>4, <1>6, <1>7 DEF SoFar, Back, Expected, n

-----------------------------------------------------------------------------
(* What the steps leave *)

\* A change leaves a sequence of items.
LEMMA AppliedTyped ==
  ASSUME NEW s \in Seq(Items), NEW c \in Demands \cup Writes
  PROVE  Applied(s, c) \in Seq(Items)
<1>1. c.op \in Operations /\ c.target \in Nat /\ c.content \in Contents
  BY DEF Demands, Writes
<1>2. Written(Blank, c.content) \in Items
  <2>1. Blank \in Items
    BY SrsAssumption DEF Blank, Items, Kinds
  <2> QED
    BY <1>1, <2>1, WrittenIsItem
<1> DEFINE W  == WithId(s, c.target)
           at == FindIndex(s, c.target)
<1>3. W # {} => at \in 1 .. Len(s)
  <2>1. SUFFICES ASSUME W # {} PROVE at \in 1 .. Len(s)
    OBVIOUS
  <2>2. Len(s) \in Nat /\ W \in SUBSET (1 .. Len(s))
    BY DEF WithId
  <2>3. PICK i \in W : TRUE
    BY <2>1
  <2>4. Rank(W, i) \in 1 .. Cardinality(W) /\ Cardinality(W) \in Nat
    BY <2>2, <2>3, PositionIs, PositionProperties
  <2>5. 1 \in 1 .. Cardinality(W)
    BY <2>4
  <2>6. at \in W
    BY <2>2, <2>5, PositionProperties DEF FindIndex
  <2> QED
    BY <2>2, <2>6
<1>4. W # {} => [s EXCEPT ![at] = Over(@, c.content)] \in Seq(Items)
  <2>1. SUFFICES ASSUME W # {} PROVE [s EXCEPT ![at] = Over(@, c.content)] \in Seq(Items)
    OBVIOUS
  <2>2. at \in 1 .. Len(s) /\ s[at] \in Items
    BY <1>3, <2>1
  <2>3. Over(s[at], c.content) \in Items
    BY <1>1, <2>2, WrittenIsItem
  <2> HIDE DEF at, W
  <2> QED
    BY <2>2, <2>3
<1>5. Pick(s, DOMAIN s \ {at}) \in Seq(Items)
  <2>1. DOMAIN s \ {at} \in SUBSET (1 .. Len(s))
    OBVIOUS
  <2> QED
    BY <2>1, PickProperties
<1>6. Append(s, Written(Blank, c.content)) \in Seq(Items)
  BY <1>2
<1> HIDE DEF W, at
<1>7. \/ Applied(s, c) \in {Pick(s, DOMAIN s \ {at}), Append(s, Written(Blank, c.content)), s}
      \/ W # {} /\ Applied(s, c) = [s EXCEPT ![at] = Over(@, c.content)]
  BY <1>1 DEF Applied, Operations, W, at
<1> QED
  BY <1>4, <1>5, <1>6, <1>7

\* A rewritten change is a change.
LEMMA RewordedTyped ==
  ASSUME NEW c \in Demands, NEW answer \in Rewritings \cup {<<>>}
  PROVE  Reworded(c, answer) \in Demands
<1>1. c.op \in Operations /\ c.target \in Nat /\ c.content \in Contents /\ c.search \in BOOLEAN
  BY DEF Demands
<1>2. /\ "op" \in DOMAIN answer => answer["op"] \in Operations
      /\ "target" \in DOMAIN answer => answer["target"] \in Nat
      /\ "content" \in DOMAIN answer => answer["content"] \in Contents
  <2>1. CASE answer \in Rewritings
    BY <2>1, SrsAssumption
  <2>2. CASE answer = <<>>
    <3>1. DOMAIN answer = {}
      BY <2>2
    <3> QED
      BY <3>1
  <2> QED
    BY <2>1, <2>2
<1>3. Or(answer, "op", c.op) \in Operations
  BY <1>1, <1>2 DEF Or
<1>4. Or(answer, "target", c.target) \in Nat
  BY <1>1, <1>2 DEF Or
<1>5. Or(answer, "content", c.content) \in Contents
  BY <1>1, <1>2 DEF Or
<1> QED
  BY <1>1, <1>3, <1>4, <1>5, Zenon DEF Demands, Reworded

\* What the fine-tuned agent makes of requirements is traced to all of them.
LEMMA SpecificationsTrace ==
  ASSUME NEW ids \in SUBSET Nat, NEW spec \in Specifications(ids), NEW found \in SUBSET Nat
  PROVE  /\ NamesDiffer(Supplemented(spec, found)) \in Seq(SrsRows)
         /\ \A x \in ids : \E i \in DOMAIN NamesDiffer(Supplemented(spec, found)) :
              x \in NamesDiffer(Supplemented(spec, found))[i].source
<1> DEFINE Of(n) == {[i \in 1 .. n |-> [id |-> i, name |-> f[i].name, source |-> f[i].source]] :
                     f \in {g \in [1 .. n -> [name : RowNames, source : SUBSET ids \ {{}}]] :
                             UNION {g[i].source : i \in 1 .. n} = ids}}
<1>0. PICK n \in 1 .. MaxRows : spec \in Of(n)
  <2>1. spec \in UNION {Of(n) : n \in 1 .. MaxRows}
    BY DEF Specifications
  <2> HIDE DEF Of
  <2> QED
    BY <2>1
<1>1. PICK f \in [1 .. n -> [name : RowNames, source : SUBSET ids \ {{}}]] :
        /\ spec = [i \in 1 .. n |-> [id |-> i, name |-> f[i].name, source |-> f[i].source]]
        /\ UNION {f[i].source : i \in 1 .. n} = ids
  BY <1>0
<1> HIDE DEF Of
<1>9. \A i \in 1 .. n : f[i].name \in RowNames /\ f[i].source \in SUBSET ids
  OBVIOUS
<1>2. n \in Nat /\ n <= MaxRows /\ MaxRows \in Nat
  <2>1. MaxRows \in Nat
    BY SrsAssumption, Zenon
  <2> QED
    BY <2>1
<1> DEFINE s == Supplemented(spec, found)
           r == NamesDiffer(s)
<1>3. s = [i \in 1 .. n |-> [id |-> i, name |-> f[i].name, source |-> f[i].source \cup found]]
  <2>1. /\ DOMAIN spec = 1 .. n
        /\ \A i \in 1 .. n : spec[i] = [id |-> i, name |-> f[i].name, source |-> f[i].source]
    BY <1>1
  <2>2. \A i \in 1 .. n : [spec[i] EXCEPT !.source = @ \cup found]
                          = [id |-> i, name |-> f[i].name, source |-> f[i].source \cup found]
    <3> TAKE i \in 1 .. n
    <3> DEFINE sources == f[i].source \cup found
    <3>1. spec[i] = [id |-> i, name |-> f[i].name, source |-> f[i].source]
      BY <2>1
    <3>2. spec[i].source \cup found = sources
      BY <3>1
    <3> HIDE DEF sources
    <3>3. [spec[i] EXCEPT !.source = sources] = [id |-> i, name |-> f[i].name, source |-> sources]
      BY <3>1
    <3> QED
      BY <3>2, <3>3 DEF sources
  <2> QED
    BY <2>1, <2>2 DEF Supplemented
<1> HIDE DEF s
<1>4. \A i \in 1 .. n : s[i].id = i /\ s[i].name = f[i].name /\ s[i].source = f[i].source \cup found
  BY <1>3
<1>5. DOMAIN r = 1 .. n
  BY <1>3 DEF NamesDiffer
<1>6. ASSUME NEW i \in 1 .. n
      PROVE  r[i] \in SrsRows /\ r[i].source = f[i].source \cup found
  <2> DEFINE name == IF s[i].name # <<>> /\ \E k \in 1 .. (i - 1) : s[k].name = s[i].name
                     THEN Append(f[i].name, i) ELSE f[i].name
  <2>1. s[i] = [id |-> i, name |-> f[i].name, source |-> f[i].source \cup found]
    BY <1>3
  <2>2. r[i] = [id |-> i, name |-> name, source |-> f[i].source \cup found]
    BY <1>3, <2>1 DEF NamesDiffer
  <2>3. name \in Labels
    <3>1. f[i].name \in RowNames /\ i \in 1 .. MaxRows
      BY <1>2, <1>9
    <3> QED
      BY <1>4, <3>1 DEF Labels
  <2>4. i \in 1 .. MaxRows /\ f[i].source \cup found \in SUBSET Nat
    <3>1. i \in 1 .. MaxRows
      BY <1>2
    <3>2. f[i].source \in SUBSET ids
      BY <1>9
    <3> QED
      BY <3>1, <3>2
  <2> HIDE DEF name, r
  <2>5. [id |-> i, name |-> name, source |-> f[i].source \cup found] \in SrsRows
    BY <2>3, <2>4, Zenon DEF SrsRows
  <2> QED
    BY <2>2, <2>5
<1>7. r \in Seq(SrsRows)
  <2>1. r \in [1 .. n -> SrsRows]
    BY <1>5, <1>6 DEF NamesDiffer
  <2> QED
    BY <1>2, <2>1, SeqOfFunction
<1> HIDE DEF r
<1>8. ASSUME NEW x \in ids PROVE \E i \in DOMAIN r : x \in r[i].source
  <2>1. PICK i \in 1 .. n : x \in f[i].source
    BY <1>1
  <2> QED
    BY <1>5, <1>6, <2>1
<1> QED
  BY <1>7, <1>8 DEF r, s

\* The functional requirements with an id are among those the agent is given.
LEMMA FunctionalTraced ==
  ASSUME items \in Seq(Items)
  PROVE  /\ GoldIds(Functional(items)) \in SUBSET Nat
         /\ \A k \in DOMAIN items : items[k].type = "functional" /\ items[k].id # 0 =>
              items[k].id \in GoldIds(Functional(items))
<1> DEFINE P == {i \in DOMAIN items : items[i].type = "functional"}
           s == Functional(items)
<1>1. s \in Seq(Items) /\ Picks(s, items, P)
  BY Picked DEF Functional
<1> HIDE DEF s
<1>2. \A i \in DOMAIN s : GoldId(s, i) \in Nat
  <2>1. \A i \in DOMAIN s : i \in Nat /\ s[i] \in Items
    BY <1>1
  <2> QED
    BY <2>1 DEF GoldId, Items
<1>3. ASSUME NEW k \in P, items[k].id # 0 PROVE items[k].id \in GoldIds(s)
  <2>1. PICK i \in DOMAIN s : s[i] = items[k]
    BY <1>1 DEF Picks
  <2>2. GoldId(s, i) = items[k].id
    BY <1>3, <2>1 DEF GoldId
  <2> QED
    BY <2>1, <2>2 DEF GoldIds
<1> QED
  BY <1>2, <1>3 DEF GoldIds, s

-----------------------------------------------------------------------------
(* The invariant *)

\* The invariant holds at the start.
LEMMA SrsStarts ==
  ASSUME SrsOff \/ SrsBegun
  PROVE  SrsInv
<1>1. CASE SrsOff
  <2> USE <1>1 DEF SrsOff
  <2>1. SrsTypes
    BY DEF SrsTypes, SrsStages
  <2> QED
    BY <2>1 DEF SrsInv, PlaceInv, ItemsInv, OwnIds, RowsInv
<1>2. CASE SrsBegun
  <2> USE <1>2 DEF SrsBegun
  <2>1. base \in Seq(Items) /\ base # <<>>
    BY SrsAssumption
  <2>2. SrsTypes
    BY <2>1 DEF SrsTypes, SrsStages
  <2> QED
    BY <2>1, <2>2 DEF SrsInv, PlaceInv, ItemsInv, OwnIds, RowsInv
<1> QED
  BY <1>1, <1>2

\* Reading the meeting preserves the invariant.
LEMMA StepReadMeeting ==
  ASSUME SrsInv, ReadMeeting
  PROVE  SrsInv'
<1> USE DEF ReadMeeting
<1>1. SrsTypes'
  BY SrsAssumption DEF SrsInv, SrsTypes, SrsStages
<1>2. said' = <<>> /\ applied' = 0 /\ base' # <<>>
  BY DEF SrsInv, PlaceInv
<1> QED
  BY <1>1, <1>2 DEF SrsInv, PlaceInv, ItemsInv, OwnIds, RowsInv

\* Searching for the changes preserves the invariant.
LEMMA StepEnrichChanges ==
  ASSUME SrsInv, EnrichChanges
  PROVE  SrsInv'
<1> USE DEF EnrichChanges
<1>0. told \in Seq(Demands)
  BY DEF SrsInv, SrsTypes
<1>1. told' \in Seq(Demands)
  <2>1. Len(told) \in Nat /\ DOMAIN told = 1 .. Len(told) /\ \A i \in DOMAIN told : told[i] \in Demands
    BY <1>0
  <2>2. PICK answers \in [{i \in DOMAIN told : told[i].search} -> Rewritings \cup {<<>>}] :
          told' = [i \in DOMAIN told |->
                     IF told[i].search THEN Reworded(told[i], answers[i]) ELSE told[i]]
    OBVIOUS
  <2>3. \A i \in DOMAIN told : told[i].search => Reworded(told[i], answers[i]) \in Demands
    BY <2>1, RewordedTyped
  <2>4. told' \in [1 .. Len(told) -> Demands]
    BY <2>1, <2>2, <2>3
  <2> QED
    BY <2>1, <2>4, SeqOfFunction
<1>2. SrsTypes'
  BY <1>1 DEF SrsInv, SrsTypes, SrsStages
<1>3. said' = <<>> /\ applied' = 0 /\ base' # <<>>
  BY DEF SrsInv, PlaceInv
<1> QED
  BY <1>2, <1>3 DEF SrsInv, PlaceInv, ItemsInv, OwnIds, RowsInv

\* Taking the meeting's changes preserves the invariant.
LEMMA StepTakeChanges ==
  ASSUME SrsInv, TakeChanges
  PROVE  SrsInv'
<1> USE DEF TakeChanges, MergeBegins
<1>1. SrsTypes'
  BY DEF SrsInv, SrsTypes, SrsStages
<1>2. said' = <<>> /\ applied' = 0 /\ base' # <<>> /\ items' = base'
  BY DEF SrsInv, PlaceInv
<1>3. Changes' = told' /\ Len(told') \in Nat
  BY <1>1, <1>2 DEF Changes, SrsTypes
<1> QED
  BY <1>1, <1>2, <1>3 DEF SrsInv, PlaceInv, ItemsInv, OwnIds, RowsInv

\* Asking for answers preserves the invariant: the loop starts at the base.
LEMMA StepAskForAnswers ==
  ASSUME SrsInv, AskForAnswers
  PROVE  SrsInv'
<1> USE DEF AskForAnswers, MergeBegins
<1>1. /\ base \in Seq(Items) /\ Len(base) \in Nat /\ DOMAIN base = 1 .. Len(base)
      /\ base # <<>> /\ applied = 0
  BY DEF SrsInv, SrsTypes, PlaceInv
<1>2. said' \in Seq(Answers) /\ Len(said') = Len(base)
  <2>1. Replies \cup {[op |-> "NONE", content |-> Text]} \subseteq Answers
    <3>1. Replies \subseteq [op : Operations, content : Contents] /\ Text \in Contents
      BY SrsAssumption, Zenon
    <3>2. [op |-> "NONE", content |-> Text] \in Answers
      BY <3>1 DEF Answers
    <3>3. [op : Operations, content : Contents] \subseteq Answers
      BY DEF Answers
    <3> QED
      BY <3>1, <3>2, <3>3
  <2>2. said' \in [1 .. Len(base) -> Answers]
    BY <1>1, <2>1
  <2> QED
    BY <1>1, <2>2, SeqOfFunction
<1>3. SrsTypes'
  BY <1>2 DEF SrsInv, SrsTypes, SrsStages
<1>4. said' # <<>> /\ applied' = 0 /\ base' # <<>> /\ items' = base' /\ told' # <<>>
  BY <1>1, <1>2
<1>5. Heard'
  BY <1>2, <1>3 DEF Heard
<1>6. (SoFar(0) = base)'
  BY <1>5, SoFarStarts, PTL
<1>7. (Len(Changes) \in Nat)'
  BY <1>5, ChangesCounted, PTL
<1>8. PlaceInv'
  BY <1>2, <1>4, <1>7 DEF PlaceInv
<1>9. ItemsInv'
  BY <1>4, <1>6 DEF ItemsInv
<1> QED
  BY <1>3, <1>8, <1>9 DEF SrsInv, RowsInv

\* What the items come to depends on the base, the meeting and the answers alone.
LEMMA Unmoved ==
  ASSUME UNCHANGED <<base, told, said>>
  PROVE  /\ Changes' = Changes /\ OwnIds' = OwnIds /\ Expected' = Expected
         /\ \A k : SoFar(k)' = SoFar(k)
BY DEF Changes, Reduced, Answered, Additions, OwnIds, Reidentified, IdsDiffer, Expected,
       SoFar, Now, Staying, Back, Last, Done, Kept, Gone, Adding, New

\* A turn of the loop preserves the invariant.
LEMMA StepApplyChange ==
  ASSUME SrsInv, ApplyChange
  PROVE  SrsInv'
<1> USE DEF ApplyChange
<1>1. SrsTypes /\ PlaceInv /\ ItemsInv /\ applied \in Nat
  BY DEF SrsInv, SrsTypes
<1>2. said # <<>> => Heard
  BY <1>1 DEF Heard, PlaceInv
<1>3. /\ Changes \in Seq(Demands \cup Writes) /\ Len(Changes) \in Nat
      /\ applied + 1 \in 1 .. Len(Changes)
  BY <1>1, <1>2, ChangesAre
<1>4. items' \in Seq(Items)
  <2>1. Changes[applied + 1] \in Demands \cup Writes
    BY <1>3
  <2> QED
    BY <1>1, <2>1, AppliedTyped DEF SrsTypes
<1>5. SrsTypes'
  BY <1>1, <1>4 DEF SrsTypes
<1>6. Changes' = Changes /\ OwnIds' = OwnIds /\ \A k : SoFar(k)' = SoFar(k)
  BY Unmoved
<1>7. told # <<>>
  <2>1. SUFFICES ASSUME told = <<>> PROVE FALSE
    OBVIOUS
  <2>2. Changes = <<>>
    BY <1>1, <2>1 DEF PlaceInv, Changes
  <2> QED
    BY <1>1, <2>2
<1>8. PlaceInv'
  <2>1. (applied + 1) <= Len(Changes)
    BY <1>3
  <2> QED
    BY <1>1, <1>6, <1>7, <2>1 DEF PlaceInv
<1>9. ItemsInv'
  <2>1. SUFFICES ASSUME OwnIds, NEW k, k = applied + 1 PROVE items' = SoFar(k)
    <3>1. ASSUME OwnIds PROVE items' = SoFar(applied)'
      <4>1. PICK k : k = applied + 1
        OBVIOUS
      <4>2. items' = SoFar(k)
        BY <3>1, <4>1
      <4>3. SoFar(applied)' = SoFar(k)'
        BY <4>1
      <4>4. \A j : SoFar(j)' = SoFar(j)
        BY <1>6
      <4> QED
        BY <4>2, <4>3, <4>4
    <3> QED
      BY <1>6, <3>1 DEF ItemsInv
  <2>2. Heard /\ items = SoFar(applied)
    BY <1>1, <1>2, <2>1 DEF ItemsInv, OwnIds
  <2>3. Applied(SoFar(applied), Changes[applied + 1]) = SoFar(applied + 1)
    BY <1>1, <2>1, <2>2, SoFarStep
  <2> QED
    BY <2>1, <2>2, <2>3
<1> QED
  BY <1>5, <1>8, <1>9 DEF SrsInv, RowsInv

\* The end of the loop preserves the invariant: the items are what was expected.
LEMMA StepEndMerge ==
  ASSUME SrsInv, EndMerge
  PROVE  SrsInv'
<1> USE DEF EndMerge
<1>1. SrsTypes /\ PlaceInv /\ ItemsInv
  BY DEF SrsInv
<1>2. SrsTypes'
  BY <1>1 DEF SrsTypes, SrsStages
<1>3. OwnIds' = OwnIds /\ Expected' = Expected
  BY Unmoved
<1>4. OwnIds => items = Expected
  <2>1. SUFFICES ASSUME OwnIds PROVE items = Expected
    OBVIOUS
  <2>2. Heard /\ said # <<>> /\ items = SoFar(Len(Changes))
    BY <1>1, <2>1 DEF ItemsInv, OwnIds, Heard, PlaceInv
  <2> QED
    BY <2>2, SoFarEnds
<1>5. ItemsInv'
  BY <1>3, <1>4 DEF ItemsInv
<1>6. PlaceInv'
  BY <1>1 DEF PlaceInv
<1> QED
  BY <1>2, <1>5, <1>6 DEF SrsInv, RowsInv

\* Specifying the final requirements preserves the invariant: all are traced.
LEMMA StepSpecifyRows ==
  ASSUME SrsInv, SpecifyRows
  PROVE  SrsInv'
<1> USE DEF SpecifyRows
<1>1. SrsTypes /\ PlaceInv /\ ItemsInv
  BY DEF SrsInv
<1>2. OwnIds' = OwnIds /\ Expected' = Expected
  BY Unmoved
<1>3. ItemsInv' /\ PlaceInv'
  BY <1>1, <1>2 DEF ItemsInv, PlaceInv
<1>4. CASE srsStage' = "failed" /\ UNCHANGED rows
  <2>1. SrsTypes'
    BY <1>1, <1>4 DEF SrsTypes, SrsStages
  <2> QED
    BY <1>3, <1>4, <2>1 DEF SrsInv, RowsInv
<1>5. CASE /\ srsStage' = "check"
           /\ \E spec \in Specifications(GoldIds(Functional(items))), found \in {{}, {0}} :
                rows' = NamesDiffer(Supplemented(spec, found))
  <2> DEFINE ids == GoldIds(Functional(items))
  <2>1. PICK spec \in Specifications(ids), found \in {{}, {0}} :
          rows' = NamesDiffer(Supplemented(spec, found))
    BY <1>5
  <2>2. ids \in SUBSET Nat
    BY <1>1, FunctionalTraced DEF SrsTypes
  <2>3. found \in SUBSET Nat
    OBVIOUS
  <2> HIDE DEF ids
  <2>4. /\ rows' \in Seq(SrsRows)
        /\ \A x \in ids : \E i \in DOMAIN rows' : x \in rows'[i].source
    BY <2>1, <2>2, <2>3, SpecificationsTrace
  <2>5. \A k \in DOMAIN items : items[k].type = "functional" /\ items[k].id # 0 =>
          items[k].id \in ids
    BY <1>1, FunctionalTraced DEF SrsTypes, ids
  <2>6. IsSource'
    BY <2>4, <2>5 DEF IsSource
  <2>7. SrsTypes'
    BY <1>1, <1>5, <2>4 DEF SrsTypes, SrsStages
  <2> QED
    BY <1>3, <1>5, <2>6, <2>7 DEF SrsInv, RowsInv
<1> QED
  BY <1>4, <1>5

\* The validation preserves the invariant.
LEMMA StepCheckSrs ==
  ASSUME SrsInv, CheckSrs
  PROVE  SrsInv'
<1> USE DEF CheckSrs
<1>1. SrsTypes /\ PlaceInv /\ ItemsInv /\ RowsInv
  BY DEF SrsInv
<1>2. OwnIds' = OwnIds /\ Expected' = Expected
  BY Unmoved
<1>3. SrsTypes'
  BY <1>1 DEF SrsTypes, SrsStages
<1>4. ItemsInv' /\ PlaceInv'
  BY <1>1, <1>2 DEF ItemsInv, PlaceInv
<1>5. RowsInv'
  BY <1>1 DEF RowsInv, RowsPass, IsSource
<1> QED
  BY <1>3, <1>4, <1>5 DEF SrsInv

\* A stuttering step preserves the invariant.
LEMMA SrsStutters ==
  ASSUME SrsInv, UNCHANGED srsVars
  PROVE  SrsInv'
<1> USE DEF srsVars
<1>1. SrsTypes /\ PlaceInv /\ ItemsInv /\ RowsInv
  BY DEF SrsInv
<1>2. /\ Changes' = Changes /\ OwnIds' = OwnIds /\ Expected' = Expected
      /\ \A k : SoFar(k)' = SoFar(k)
  BY Unmoved
<1>3. SrsTypes'
  BY <1>1 DEF SrsTypes
<1>4. ItemsInv' /\ PlaceInv'
  <2>1. SoFar(applied)' = SoFar(applied)
    <3>1. \A k : SoFar(k)' = SoFar(k)
      BY <1>2
    <3> QED
      BY <3>1
  <2> QED
    BY <1>1, <1>2, <2>1 DEF ItemsInv, PlaceInv
<1>5. RowsInv'
  BY <1>1 DEF RowsInv, RowsPass, IsSource
<1> QED
  BY <1>3, <1>4, <1>5 DEF SrsInv

\* Whatever the meeting says and the models answer, the parts of the invariant hold in every
\* state of the merge and of the specification made of it.
THEOREM SrsInvariant == SrsSpec => []SrsInv
<1>1. SrsOff \/ SrsBegun => SrsInv
  BY SrsStarts
<1>2. SrsInv /\ [SrsNext]_srsVars => SrsInv'
  BY StepReadMeeting, StepEnrichChanges, StepTakeChanges, StepAskForAnswers, StepApplyChange,
     StepEndMerge, StepSpecifyRows, StepCheckSrs, SrsStutters, Zenon DEF SrsNext
<1> QED
  BY <1>1, <1>2, PTL DEF SrsSpec

\* Rows that pass the validation have as many names as there are rows.
LEMMA NamesCounted ==
  ASSUME rows \in Seq(SrsRows), RowsPass
  PROVE  Cardinality({rows[i].name : i \in DOMAIN rows}) = Len(rows)
<1> DEFINE n == Len(rows)
           T == {rows[i].name : i \in DOMAIN rows}
           f == [i \in 1 .. n |-> rows[i].name]
<1>1. n \in Nat /\ DOMAIN rows = 1 .. n
  OBVIOUS
<1>2. f \in [1 .. n -> T]
  BY <1>1
<1>3. \A i, k \in 1 .. n : f[i] = f[k] => i = k
  BY <1>1 DEF RowsPass
<1>4. \A x \in T : \E i \in 1 .. n : f[i] = x
  BY <1>1
<1> HIDE DEF f, T
<1>5. f \in Injection(1 .. n, T) /\ f \in Surjection(1 .. n, T)
  BY <1>2, <1>3, <1>4, Fun_IsInj, Fun_IsSurj
<1>6. IsFiniteSet(1 .. n) /\ Cardinality(1 .. n) = n
  BY <1>1, FS_Interval
<1>7. Cardinality(T) = n
  BY <1>5, <1>6, FS_Surjection DEF Injection
<1> QED
  BY <1>7 DEF T

\* The invariant implies the property.
LEMMA SrsInvHits ==
  ASSUME SrsInv
  PROVE  ChangesHitTheirOwn
<1>1. SrsTypes /\ PlaceInv /\ ItemsInv /\ RowsInv
  BY DEF SrsInv
<1>2. said # <<>> /\ ~Reidentified /\ IdsDiffer /\ srsStage # "apply" => items = Expected
  BY <1>1 DEF ItemsInv, OwnIds
<1>3. srsStage = "validated" /\ told = <<>> => items = base
  BY <1>1 DEF PlaceInv
<1>4. srsStage = "validated" /\ srsMode = "N" =>
        IsSource /\ Cardinality({rows[i].name : i \in DOMAIN rows}) = Len(rows)
  BY <1>1, NamesCounted DEF RowsInv, SrsTypes
<1> QED
  BY <1>2, <1>3, <1>4 DEF ChangesHitTheirOwn, IsSource

\* Every change hits the requirement it is about and no other, nothing is lost on the way to
\* the document, and no two final requirements of a validated one share a name.
THEOREM ChangesHit == SrsSpec => []ChangesHitTheirOwn
<1>1. SrsSpec => []SrsInv
  BY SrsInvariant
<1>2. SrsInv => ChangesHitTheirOwn
  BY SrsInvHits
<1> QED
  BY <1>1, <1>2, PTL

-----------------------------------------------------------------------------
(* The test document: its invariant *)

CaseLoops == {"fallback", "answers", "coverage"}
CasesMade == {"steps", "details", "types", "check", "validated", "rejected"}
StepsMade == CasesMade \ {"steps"}
TsStages  == {"scenarios", "update", "refine", "cases"} \cup CaseLoops \cup CasesMade

TsTypes ==
  /\ tsStage \in TsStages /\ tsMode \in {"N", "Y"}
  /\ scenarios \in Seq(SUBSET Nat)
  /\ answered \in Seq(CaseRecords) /\ cases \in Seq(CaseRecords)
  /\ steps \in Seq(StepRecords)
  /\ turn \in Nat /\ heard \in Nat /\ astray \in SUBSET AstrayKinds

\* What each stage has left behind, and what it has not begun.
StageInv ==
  /\ tsStage \in {"scenarios", "details"} => tsMode = "N"
  /\ tsStage \in {"update", "refine", "types"} => tsMode = "Y"
  /\ scenarios = <<>> <=> tsStage \in {"scenarios", "update"}
  /\ tsStage \in {"scenarios", "update", "refine", "cases"} => turn = 0
  /\ tsStage \in CaseLoops => turn < Len(scenarios)
  /\ tsStage = "steps" => turn < Len(cases)
  /\ tsStage \notin {"answers", "coverage"} => answered = <<>>
  /\ tsStage \in {"scenarios", "update", "answers"} => cases = <<>>
  /\ tsMode = "N" /\ tsStage = "cases" => cases = <<>>
  /\ tsMode = "N" /\ tsStage \in {"scenarios", "cases"} \cup CaseLoops => steps = <<>>
  /\ tsStage \in CasesMade => cases # <<>>
  /\ tsStage \in StepsMade => steps # <<>>

TraceInv == tsMode = "N" /\ tsStage # "scenarios" => 1..TsReqs \subseteq Traced(scenarios)

\* The cases are of the first n scenarios, and of every type for each of them.
Tested(cs, n) ==
  /\ \A i \in DOMAIN cs : cs[i].scenario \in 1..n
  /\ \A s \in 1..n : \A t \in DOMAIN CaseTypes :
       \E i \in DOMAIN cs : cs[i].scenario = s /\ cs[i].type = CaseTypes[t]

CaseInv ==
  /\ tsStage \in {"fallback", "coverage"} => Tested(cases, turn)
  /\ tsMode = "N" /\ tsStage \in CasesMade => Tested(cases, Len(scenarios))

\* Where a case of a document in the making comes from.
IsAnswered(x, given) == \E a \in DOMAIN given : x = given[a]
IsFallback(x)        == \E c \in DOMAIN CaseTypes : x = Fallback(x.scenario)[c]
FromEither(cs, given) ==
  \A i \in DOMAIN cs : IsAnswered(cs[i], given) \/ IsFallback(cs[i])

IdInv ==
  /\ tsStage = "answers" => \A a \in DOMAIN answered : answered[a].id.prefix \in 1..turn
  /\ tsStage = "coverage" => \A a \in DOMAIN answered : answered[a].id.prefix # 0
  /\ tsStage \in {"fallback", "coverage"} => FromEither(cases, answered)
  /\ tsMode = "Y" /\ tsStage \in {"refine", "cases"} => \A i \in DOMAIN cases : Plain(cases[i].id)
  /\ "id" \notin astray => DifferentIds(answered) /\ DifferentIds(cases)

\* The steps are those of the first n cases, and each of these has one.
Stepped(ss, cs, n) ==
  /\ \A k \in DOMAIN ss : \E i \in 1..n : ss[k].case = cs[i].id
  /\ \A i \in 1..n : \E k \in DOMAIN ss : ss[k].case = cs[i].id

StepInv ==
  /\ astray = {} => DifferentSteps(steps)
  /\ "case" \notin astray =>
    /\ tsMode = "N" /\ tsStage = "steps" => Stepped(steps, cases, turn)
    /\ tsMode = "N" /\ tsStage \in StepsMade => Stepped(steps, cases, Len(cases))

VerdictInv ==
  tsStage = "rejected" =>
    astray # {} \/ (tsMode = "Y" /\ ~({"NORMAL", "EXCEPTION"} \subseteq TypesOf(cases)))

TsInv == TsTypes /\ StageInv /\ TraceInv /\ CaseInv /\ IdInv /\ StepInv /\ VerdictInv

-----------------------------------------------------------------------------
(* Cases and steps one after the other *)

LEMMA DifferentIdsJoined ==
  ASSUME NEW s \in Seq(CaseRecords), NEW t \in Seq(CaseRecords),
         DifferentIds(s), DifferentIds(t),
         \A i \in DOMAIN s : \A k \in DOMAIN t : s[i].id # t[k].id
  PROVE  DifferentIds(s \o t)
<1> DEFINE u == s \o t
<1>1. SUFFICES ASSUME NEW i \in DOMAIN u, NEW k \in DOMAIN u, i # k PROVE u[i].id # u[k].id
  BY DEF DifferentIds
<1>2. \/ i \in DOMAIN s /\ u[i] = s[i]
      \/ \E a \in DOMAIN t : i = Len(s) + a /\ u[i] = t[a]
  BY FollowsFrom
<1>3. \/ k \in DOMAIN s /\ u[k] = s[k]
      \/ \E b \in DOMAIN t : k = Len(s) + b /\ u[k] = t[b]
  BY FollowsFrom
<1> HIDE DEF u
<1> QED BY <1>1, <1>2, <1>3, Zenon DEF DifferentIds

LEMMA DifferentStepsJoined ==
  ASSUME NEW s \in Seq(StepRecords), NEW t \in Seq(StepRecords),
         DifferentSteps(s), DifferentSteps(t),
         \A i \in DOMAIN s : \A k \in DOMAIN t : s[i] # t[k]
  PROVE  DifferentSteps(s \o t)
<1> DEFINE u == s \o t
<1>1. SUFFICES ASSUME NEW i \in DOMAIN u, NEW k \in DOMAIN u, i # k PROVE u[i] # u[k]
  BY DEF DifferentSteps
<1>2. \/ i \in DOMAIN s /\ u[i] = s[i]
      \/ \E a \in DOMAIN t : i = Len(s) + a /\ u[i] = t[a]
  BY FollowsFrom
<1>3. \/ k \in DOMAIN s /\ u[k] = s[k]
      \/ \E b \in DOMAIN t : k = Len(s) + b /\ u[k] = t[b]
  BY FollowsFrom
<1> HIDE DEF u
<1> QED BY <1>1, <1>2, <1>3, Zenon DEF DifferentSteps

-----------------------------------------------------------------------------
(* What one scenario and one case get *)

LEMMA TsConstants ==
  /\ TsReqs \in Nat /\ MaxHeard \in Nat
  /\ CaseTypes \in Seq(TypeNames) /\ Len(CaseTypes) \in Nat /\ DOMAIN CaseTypes = 1 .. Len(CaseTypes)
  /\ CaseTypes # <<>> /\ DOMAIN CaseTypes # {}
  /\ {"NORMAL", "EXCEPTION"} \subseteq {CaseTypes[i] : i \in DOMAIN CaseTypes}
<1>1. /\ TsReqs \in Nat /\ MaxHeard \in Nat /\ CaseTypes \in Seq(TypeNames)
      /\ {"NORMAL", "EXCEPTION"} \subseteq {CaseTypes[i] : i \in DOMAIN CaseTypes}
  BY TsAssumption
<1>2. Len(CaseTypes) \in Nat /\ DOMAIN CaseTypes = 1 .. Len(CaseTypes)
  BY <1>1
<1>3. DOMAIN CaseTypes # {}
  BY <1>1
<1>4. CaseTypes # <<>>
  BY <1>2, <1>3
<1> QED BY <1>1, <1>2, <1>3, <1>4

LEMMA FallbackHas ==
  ASSUME NEW s \in Nat
  PROVE  /\ Fallback(s) \in Seq(CaseRecords) /\ DOMAIN Fallback(s) = DOMAIN CaseTypes
         /\ Len(Fallback(s)) = Len(CaseTypes)
         /\ \A c \in DOMAIN CaseTypes :
              /\ c \in Nat /\ Fallback(s)[c] \in CaseRecords
              /\ Fallback(s)[c] = [id |-> [prefix |-> 0, raw |-> <<s, c>>], scenario |-> s,
                                   type |-> CaseTypes[c], procedures |-> 0]
              /\ Fallback(s)[c].scenario = s /\ Fallback(s)[c].type = CaseTypes[c]
              /\ Fallback(s)[c].id.prefix = 0 /\ Fallback(s)[c].id.raw = <<s, c>>
<1> DEFINE F(c) == [id |-> [prefix |-> 0, raw |-> <<s, c>>], scenario |-> s,
                    type |-> CaseTypes[c], procedures |-> 0]
<1>1. Fallback(s) = [c \in DOMAIN CaseTypes |-> F(c)]
  BY DEF Fallback, Case
<1>2. ASSUME NEW c \in DOMAIN CaseTypes PROVE F(c) \in CaseRecords /\ c \in Nat
  <2>1. c \in Nat /\ CaseTypes[c] \in TypeNames
    BY TsConstants
  <2>2. <<s, c>> \in Seq(Nat)
    BY <2>1
  <2> QED BY <2>1, <2>2 DEF CaseRecords, CaseIds
<1>3. ASSUME NEW c \in DOMAIN CaseTypes
      PROVE  /\ Fallback(s)[c] = F(c)
             /\ F(c).scenario = s /\ F(c).type = CaseTypes[c]
             /\ F(c).id.prefix = 0 /\ F(c).id.raw = <<s, c>>
  BY <1>1
<1> HIDE DEF F
<1>4. Fallback(s) \in [1 .. Len(CaseTypes) -> CaseRecords]
  BY <1>1, <1>2, TsConstants
<1>5. Fallback(s) \in Seq(CaseRecords) /\ Len(Fallback(s)) = Len(CaseTypes)
  BY <1>4, SeqOfFunction, TsConstants
<1>6. DOMAIN Fallback(s) = DOMAIN CaseTypes
  BY <1>1
<1> QED BY <1>2, <1>3, <1>5, <1>6 DEF F

LEMMA FallbackDiffers ==
  ASSUME NEW s \in Nat
  PROVE  DifferentIds(Fallback(s))
<1>1. SUFFICES ASSUME NEW i \in DOMAIN CaseTypes, NEW k \in DOMAIN CaseTypes, i # k
               PROVE  Fallback(s)[i].id # Fallback(s)[k].id
  BY FallbackHas DEF DifferentIds
<1>2. <<s, i>> # <<s, k>>
  BY <1>1
<1>3. Fallback(s)[i].id.raw = <<s, i>> /\ Fallback(s)[k].id.raw = <<s, k>>
  BY FallbackHas, Zenon
<1> QED BY <1>2, <1>3

\* A case as _normalize_case makes it: its id has the prefix of its scenario, and the number
\* the case had or its index.
IsFilled(x, id) == x \in CaseRecords /\ x.id = id

LEMMA FilledHas ==
  ASSUME NEW c, c.scenario \in Nat, c.type \in TypeNames, c.procedures \in Nat,
         NEW id \in CaseIds, NEW s \in Nat
  PROVE  IsFilled(Filled(c, id, s), id)
<1> DEFINE of == IF c.scenario # 0 THEN c.scenario ELSE s
<1>1. Filled(c, id, s) = [id |-> id, scenario |-> of, type |-> c.type,
                          procedures |-> c.procedures]
  BY DEF Filled, Case
<1>2. of \in Nat
  OBVIOUS
<1> HIDE DEF of
<1> QED BY <1>1, <1>2 DEF CaseRecords, IsFilled

NumberOr(number, index) == IF number # 0 THEN number ELSE index

IsNormal(x, c, index, s) ==
  /\ x \in CaseRecords /\ x.id.prefix = s
  /\ x.id.raw = <<NumberOr(c.number, index)>>

LEMMA NormalCaseHas ==
  ASSUME NEW c, c.scenario \in Nat, c.type \in TypeNames, c.procedures \in Nat,
         c.number \in Nat, NEW index \in Nat, NEW s \in Nat
  PROVE  IsNormal(NormalCase(c, index, s), c, index, s)
<1> DEFINE raw == <<NumberOr(c.number, index)>>
           id  == [prefix |-> s, raw |-> raw]
<1>1. NormalCase(c, index, s) = Filled(c, id, s)
  BY DEF NormalCase, Prefixed, NumberOr
<1>2. NumberOr(c.number, index) \in Nat
  BY DEF NumberOr
<1>3. raw \in Seq(Nat)
  BY <1>2
<1> HIDE DEF raw
<1>4. id \in CaseIds /\ id.prefix = s /\ id.raw = raw
  BY <1>3 DEF CaseIds
<1> HIDE DEF id
<1>5. IsFilled(NormalCase(c, index, s), id)
  BY <1>1, <1>4, FilledHas
<1> QED BY <1>4, <1>5 DEF IsFilled, IsNormal, raw

\* Unless they may clash, the numbers that a list was given or got of its indices differ.
LEMMA NumbersDiffer ==
  ASSUME NEW given, NEW i \in DOMAIN given, NEW k \in DOMAIN given, i # k,
         given[i] \in Nat, given[k] \in Nat, ~MayClash(given),
         NEW a \in Nat, NEW b \in Nat, a # b
  PROVE  NumberOr(given[i], a) # NumberOr(given[k], b)
<1>1. /\ ~(given[i] = given[k] /\ given[i] > 0)
      /\ ~(given[i] > given[k] /\ given[k] <= 0)
      /\ ~(given[k] > given[i] /\ given[i] <= 0)
  BY DEF MayClash
<1> QED BY <1>1 DEF NumberOr

LEMMA AnsweredHas ==
  ASSUME NEW s \in Nat, NEW answer \in CaseAnswers, NEW before \in Nat
  PROVE  /\ CasesOf(s, answer, before) \in Seq(CaseRecords)
         /\ \A k \in DOMAIN CasesOf(s, answer, before) :
              CasesOf(s, answer, before)[k].id.prefix = s
         /\ ~MayClash([k \in DOMAIN answer |-> answer[k].number])
              => DifferentIds(CasesOf(s, answer, before))
<1> DEFINE new == CasesOf(s, answer, before)
<1>0. answer \in Seq(CaseAnswerRecords)
  BY TsAssumption
<1>1. CASE answer = <<>>
  <2> DEFINE F(c) == [Fallback(s)[c] EXCEPT !.id = Prefixed(s, @.raw)]
  <2>1. new = [c \in DOMAIN CaseTypes |-> F(c)]
    BY <1>1 DEF CasesOf
  <2>2. ASSUME NEW c \in DOMAIN CaseTypes
        PROVE  /\ F(c) \in CaseRecords /\ c \in Nat
               /\ F(c).id.prefix = s /\ F(c).id.raw = <<s, c>>
    <3>1. /\ Fallback(s)[c] \in CaseRecords /\ Fallback(s)[c].id.raw = <<s, c>> /\ c \in Nat
      BY FallbackHas, Zenon
    <3>2. [prefix |-> s, raw |-> <<s, c>>] \in CaseIds
      <4>1. <<s, c>> \in Seq(Nat)
        BY <3>1
      <4> QED BY <4>1 DEF CaseIds
    <3>3. F(c) \in CaseRecords /\ F(c).id = [prefix |-> s, raw |-> <<s, c>>]
      BY <3>1, <3>2 DEF CaseRecords, Prefixed
    <3> QED BY <3>1, <3>3
  <2> HIDE DEF F
  <2>3. new \in [1 .. Len(CaseTypes) -> CaseRecords]
    BY <2>1, <2>2, TsConstants
  <2>4. new \in Seq(CaseRecords)
    BY <2>3, SeqOfFunction, TsConstants
  <2>5. \A c \in DOMAIN new : c \in Nat /\ new[c].id.prefix = s /\ new[c].id.raw = <<s, c>>
    BY <2>1, <2>2
  <2>6. \A i, k \in DOMAIN new : i # k => <<s, i>> # <<s, k>>
    BY <2>5
  <2> HIDE DEF new
  <2>7. DifferentIds(new)
    BY <2>5, <2>6 DEF DifferentIds
  <2>8. \A k \in DOMAIN new : new[k].id.prefix = s
    BY <2>5
  <2> QED BY <2>4, <2>7, <2>8 DEF new
<1>2. CASE answer # <<>>
  <2>1. new = [k \in DOMAIN answer |-> NormalCase(answer[k], before + 2 * k - 1, s)]
    BY <1>2 DEF CasesOf
  <2>2. ASSUME NEW k \in DOMAIN answer
        PROVE  /\ k \in Nat /\ before + 2 * k - 1 \in Nat /\ answer[k].number \in Nat
               /\ new[k] \in CaseRecords /\ new[k].id.prefix = s
               /\ new[k].id.raw = <<NumberOr(answer[k].number, before + 2 * k - 1)>>
    <3>1. k \in Nat \ {0} /\ answer[k] \in CaseAnswerRecords
      BY <1>0
    <3>2. new[k] = NormalCase(answer[k], before + 2 * k - 1, s)
      BY <2>1
    <3> HIDE DEF new
    <3>3. k \in Nat /\ before + 2 * k - 1 \in Nat
      BY <3>1
    <3>4. /\ answer[k].scenario \in Nat /\ answer[k].type \in TypeNames
          /\ answer[k].procedures \in Nat /\ answer[k].number \in Nat
      BY <3>1 DEF CaseAnswerRecords
    <3>5. IsNormal(new[k], answer[k], before + 2 * k - 1, s)
      BY <3>2, <3>3, <3>4, NormalCaseHas
    <3> QED BY <3>3, <3>4, <3>5 DEF IsNormal
  <2>3. DOMAIN answer = 1 .. Len(answer) /\ Len(answer) \in Nat
    BY <1>0
  <2>4. new \in [1 .. Len(answer) -> CaseRecords] /\ DOMAIN new = DOMAIN answer
    BY <2>1, <2>2, <2>3
  <2> HIDE DEF new
  <2>5. new \in Seq(CaseRecords)
    BY <2>3, <2>4, SeqOfFunction
  <2> DEFINE given == [k \in DOMAIN answer |-> answer[k].number]
  <2>6. ASSUME ~MayClash(given) PROVE DifferentIds(new)
    <3>1. SUFFICES ASSUME NEW i \in DOMAIN new, NEW k \in DOMAIN new, i # k
                   PROVE  new[i].id # new[k].id
      BY DEF DifferentIds
    <3>2. i \in DOMAIN given /\ k \in DOMAIN given /\ i \in DOMAIN answer /\ k \in DOMAIN answer
      BY <2>4
    <3>3. /\ given[i] = answer[i].number /\ given[k] = answer[k].number
          /\ given[i] \in Nat /\ given[k] \in Nat /\ i \in Nat /\ k \in Nat
          /\ before + 2 * i - 1 \in Nat /\ before + 2 * k - 1 \in Nat
      BY <2>2, <3>2
    <3>4. /\ new[i].id.raw = <<NumberOr(given[i], before + 2 * i - 1)>>
          /\ new[k].id.raw = <<NumberOr(given[k], before + 2 * k - 1)>>
      BY <2>2, <3>2, <3>3
    <3> HIDE DEF given
    <3>5. before + 2 * i - 1 # before + 2 * k - 1
      BY <3>1, <3>3
    <3>6. NumberOr(given[i], before + 2 * i - 1) # NumberOr(given[k], before + 2 * k - 1)
      BY <2>6, <3>1, <3>2, <3>3, <3>5, NumbersDiffer
    <3>7. <<NumberOr(given[i], before + 2 * i - 1)>> # <<NumberOr(given[k], before + 2 * k - 1)>>
      BY <3>6
    <3> QED BY <3>4, <3>7
  <2> QED BY <2>2, <2>4, <2>5, <2>6 DEF new
<1> QED BY <1>1, <1>2

\* Some of the cases of a list have different ids if all have.
LEMMA PickedIdsDiffer ==
  ASSUME NEW s \in Seq(CaseRecords), NEW P \in SUBSET (1 .. Len(s)), DifferentIds(s)
  PROVE  DifferentIds(Pick(s, P))
<1>1. /\ Len(s) \in Nat /\ DOMAIN s = 1 .. Len(s)
      /\ DOMAIN Pick(s, P) = 1 .. Cardinality(P)
      /\ \A k \in 1 .. Cardinality(P) : Pick(s, P)[k] = s[Position(P, k)]
  BY DEF Pick
<1>2. /\ \A k \in 1 .. Cardinality(P) : Position(P, k) \in P
      /\ \A i \in P : \E m \in 1 .. Cardinality(P) :
           \A k \in 1 .. Cardinality(P) : Position(P, k) = i <=> k = m
  BY <1>1, PositionOnce
<1>3. SUFFICES ASSUME NEW i \in DOMAIN Pick(s, P), NEW k \in DOMAIN Pick(s, P), i # k
               PROVE  Pick(s, P)[i].id # Pick(s, P)[k].id
  BY DEF DifferentIds
<1>4. Position(P, i) # Position(P, k)
  <2>1. Position(P, i) \in P
    BY <1>1, <1>2
  <2>2. PICK m \in 1 .. Cardinality(P) :
          \A j \in 1 .. Cardinality(P) : Position(P, j) = Position(P, i) <=> j = m
    BY <1>2, <2>1
  <2> QED BY <1>1, <1>3, <2>2
<1>5. Position(P, i) \in DOMAIN s /\ Position(P, k) \in DOMAIN s
  BY <1>1, <1>2
<1> QED BY <1>1, <1>4, <1>5 DEF DifferentIds

\* Where the cases of a scenario come from, and that it has all it needs.
Covers(list, s) ==
  /\ list \in Seq(CaseRecords)
  /\ \A i \in DOMAIN list :
       list[i].scenario = s /\ (IsAnswered(list[i], answered) \/ IsFallback(list[i]))
  /\ \A t \in DOMAIN CaseTypes : \E i \in DOMAIN list : list[i].type = CaseTypes[t]
  /\ DifferentIds(answered) /\ (\A a \in DOMAIN answered : answered[a].id.prefix # 0)
       => DifferentIds(list)

LEMMA CasesForCovers ==
  ASSUME NEW s \in Nat, answered \in Seq(CaseRecords)
  PROVE  Covers(CasesFor(s), s)
<1> DEFINE kept == Pick(answered, Naming(s))
           added == Pick(Fallback(s), Lacking(s))
<1>1. /\ Naming(s) \in SUBSET (1 .. Len(answered)) /\ Naming(s) \subseteq DOMAIN answered
      /\ \A i \in Naming(s) : answered[i].scenario = s
  BY DEF Naming
<1>2. /\ Lacking(s) \subseteq DOMAIN CaseTypes
      /\ \A c \in DOMAIN CaseTypes : c \notin Lacking(s) =>
           \E i \in Naming(s) : answered[i].type = CaseTypes[c]
  BY DEF Lacking
<1>3. /\ Fallback(s) \in Seq(CaseRecords) /\ Len(Fallback(s)) = Len(CaseTypes)
      /\ DOMAIN CaseTypes = 1 .. Len(CaseTypes)
      /\ \A c \in DOMAIN CaseTypes :
           /\ Fallback(s)[c].scenario = s /\ Fallback(s)[c].type = CaseTypes[c]
           /\ Fallback(s)[c].id.prefix = 0
  BY FallbackHas, TsConstants
<1>4. Lacking(s) \in SUBSET (1 .. Len(Fallback(s)))
  BY <1>2, <1>3
<1>5. kept \in Seq(CaseRecords) /\ Picks(kept, answered, Naming(s))
  BY <1>1, Picked
<1>6. added \in Seq(CaseRecords) /\ Picks(added, Fallback(s), Lacking(s))
  BY <1>3, <1>4, Picked
<1>7. (DifferentIds(answered) => DifferentIds(kept)) /\ DifferentIds(added)
  BY <1>1, <1>3, <1>4, PickedIdsDiffer, FallbackDiffers
<1>8. CasesFor(s) = kept \o added
  BY DEF CasesFor
<1> DEFINE list == CasesFor(s)
<1> HIDE DEF kept, added
<1>9. list \in Seq(CaseRecords) /\ Joins(list, kept, added)
  BY <1>5, <1>6, <1>8, Joined
<1> HIDE DEF list
<1>10. ASSUME NEW i \in DOMAIN kept PROVE kept[i].scenario = s /\ IsAnswered(kept[i], answered)
  <2>1. PICK a \in Naming(s) : kept[i] = answered[a]
    BY <1>5 DEF Picks
  <2>2. a \in DOMAIN answered /\ answered[a].scenario = s
    BY <1>1, Zenon
  <2> QED BY <2>1, <2>2, Zenon DEF IsAnswered
<1>11. ASSUME NEW i \in DOMAIN added PROVE added[i].scenario = s /\ IsFallback(added[i])
  <2>1. PICK c \in DOMAIN CaseTypes : added[i] = Fallback(s)[c]
    BY <1>2, <1>6 DEF Picks
  <2>2. added[i].scenario = s
    BY <1>3, <2>1, Zenon
  <2> QED BY <2>1, <2>2, Zenon DEF IsFallback
<1>12. ASSUME NEW i \in DOMAIN list
       PROVE  list[i].scenario = s /\ (IsAnswered(list[i], answered) \/ IsFallback(list[i]))
  <2>1. (\E k \in DOMAIN kept : list[i] = kept[k]) \/ (\E k \in DOMAIN added : list[i] = added[k])
    BY <1>9 DEF Joins
  <2> QED BY <1>10, <1>11, <2>1, Zenon
<1>13. ASSUME NEW t \in DOMAIN CaseTypes
       PROVE  \E i \in DOMAIN list : list[i].type = CaseTypes[t]
  <2>1. CASE t \in Lacking(s)
    <3>1. PICK k \in DOMAIN added : added[k] = Fallback(s)[t]
      BY <1>6, <2>1, Zenon DEF Picks
    <3>2. PICK i \in DOMAIN list : list[i] = added[k]
      BY <1>9, Zenon DEF Joins
    <3>3. Fallback(s)[t].type = CaseTypes[t]
      BY <1>3, Zenon
    <3> QED BY <3>1, <3>2, <3>3, Zenon
  <2>2. CASE t \notin Lacking(s)
    <3>1. PICK a \in Naming(s) : answered[a].type = CaseTypes[t]
      BY <1>2, <2>2, Zenon
    <3>2. PICK k \in DOMAIN kept : kept[k] = answered[a]
      BY <1>5, Zenon DEF Picks
    <3>3. PICK i \in DOMAIN list : list[i] = kept[k]
      BY <1>9, Zenon DEF Joins
    <3> QED BY <3>1, <3>2, <3>3, Zenon
  <2> QED BY <2>1, <2>2
<1>14. ASSUME DifferentIds(answered), \A a \in DOMAIN answered : answered[a].id.prefix # 0
       PROVE  DifferentIds(list)
  <2>1. ASSUME NEW i \in DOMAIN kept PROVE kept[i].id.prefix # 0
    <3>1. PICK a \in DOMAIN answered : kept[i] = answered[a]
      BY <1>1, <1>5 DEF Picks
    <3>2. answered[a].id.prefix # 0
      BY <1>14, Zenon
    <3> QED BY <3>1, <3>2, Zenon
  <2>2. ASSUME NEW k \in DOMAIN added PROVE added[k].id.prefix = 0
    <3>1. PICK c \in DOMAIN CaseTypes : added[k] = Fallback(s)[c]
      BY <1>2, <1>6 DEF Picks
    <3>2. Fallback(s)[c].id.prefix = 0
      BY <1>3, Zenon
    <3> QED BY <3>1, <3>2, Zenon
  <2>3. \A i \in DOMAIN kept : \A k \in DOMAIN added : kept[i].id # added[k].id
    BY <2>1, <2>2, Zenon
  <2> QED BY <1>5, <1>6, <1>7, <1>8, <1>14, <2>3, DifferentIdsJoined DEF list
<1> QED BY <1>9, <1>12, <1>13, <1>14 DEF Covers, list

\* Cases of different scenarios have different ids, wherever they come from.
LEMMA OriginsDiffer ==
  ASSUME NEW x \in CaseRecords, NEW y \in CaseRecords, x.scenario # y.scenario,
         IsAnswered(x, answered) \/ IsFallback(x), IsAnswered(y, answered) \/ IsFallback(y),
         DifferentIds(answered), \A a \in DOMAIN answered : answered[a].id.prefix # 0
  PROVE  x.id # y.id
<1>1. ASSUME NEW z \in CaseRecords, IsFallback(z)
      PROVE  z.id.prefix = 0 /\ \E c \in Nat : z.id.raw = <<z.scenario, c>>
  <2>1. z.scenario \in Nat
    BY DEF CaseRecords
  <2>2. PICK c \in DOMAIN CaseTypes : z = Fallback(z.scenario)[c]
    BY <1>1 DEF IsFallback
  <2>3. /\ Fallback(z.scenario)[c].id.prefix = 0 /\ c \in Nat
        /\ Fallback(z.scenario)[c].id.raw = <<z.scenario, c>>
    BY <2>1, <2>2, FallbackHas, Zenon
  <2>4. z.id.prefix = 0 /\ z.id.raw = <<z.scenario, c>>
    BY <2>2, <2>3, Zenon
  <2> QED BY <2>3, <2>4
<1>2. ASSUME NEW z, IsAnswered(z, answered) PROVE z.id.prefix # 0
  BY <1>2, Zenon DEF IsAnswered
<1>3. CASE IsAnswered(x, answered) /\ IsAnswered(y, answered)
  BY <1>3, Zenon DEF IsAnswered, DifferentIds
<1>4. CASE IsFallback(x) /\ IsFallback(y)
  <2>1. PICK c \in Nat : x.id.raw = <<x.scenario, c>>
    BY <1>1, <1>4
  <2>2. PICK d \in Nat : y.id.raw = <<y.scenario, d>>
    BY <1>1, <1>4
  <2>3. <<x.scenario, c>> # <<y.scenario, d>>
    OBVIOUS
  <2> QED BY <2>1, <2>2, <2>3, Zenon
<1>5. CASE IsAnswered(x, answered) /\ IsFallback(y)
  BY <1>1, <1>2, <1>5, Zenon
<1>6. CASE IsFallback(x) /\ IsAnswered(y, answered)
  BY <1>1, <1>2, <1>6, Zenon
<1> QED BY <1>3, <1>4, <1>5, <1>6

\* An answer as a case's procedures make it: it names another case only if the answer does,
\* and its numbers are its own or those of the procedures.
IsGiven(given, answer, case) ==
  /\ given \in Seq(StepAnswerRecords) /\ given # <<>>
  /\ ~NamesCase(answer) => \A k \in DOMAIN given : given[k].case = 0
  /\ (given = answer /\ case.procedures = 0) \/ \A k \in DOMAIN given : given[k].no = k

LEMMA ForProceduresGives ==
  ASSUME NEW answer \in Seq(StepAnswerRecords), answer # <<>>, NEW case \in CaseRecords
  PROVE  IsGiven(ForProcedures(answer, case), answer, case)
<1>0. case.procedures \in Nat
  BY DEF CaseRecords
<1>1. CASE case.procedures = 0
  <2>1. ForProcedures(answer, case) = answer
    BY <1>1 DEF ForProcedures
  <2> QED BY <1>1, <2>1 DEF IsGiven, NamesCase
<1>2. CASE case.procedures # 0
  <2> DEFINE n == case.procedures
             S(k) == [case |-> IF LastNumbered(answer, k) = {} THEN 0
                               ELSE answer[Position(LastNumbered(answer, k), 1)].case,
                      no   |-> k]
             given == ForProcedures(answer, case)
  <2>1. given = [k \in 1 .. n |-> S(k)]
    BY <1>2 DEF ForProcedures
  <2>2. ASSUME NEW k \in 1 .. n
        PROVE  /\ S(k) \in StepAnswerRecords /\ S(k).no = k
               /\ ~NamesCase(answer) => S(k).case = 0
    <3> DEFINE P == LastNumbered(answer, k)
    <3>1. Len(answer) \in Nat /\ P \in SUBSET (1 .. Len(answer)) /\ P \subseteq DOMAIN answer
      BY DEF LastNumbered
    <3>2. CASE P = {}
      BY <1>0, <3>2 DEF StepAnswerRecords
    <3>3. CASE P # {}
      <4> HIDE DEF P
      <4>1. /\ \A m \in 1 .. Cardinality(P) : Position(P, m) \in P
            /\ \A j \in P : \E m \in 1 .. Cardinality(P) : Position(P, m) = j
            /\ Cardinality(P) \in Nat
        BY <3>1, PositionProperties
      <4>2. 1 \in 1 .. Cardinality(P)
        BY <3>3, <4>1
      <4>3. Position(P, 1) \in DOMAIN answer
        BY <3>1, <4>1, <4>2
      <4>4. answer[Position(P, 1)] \in StepAnswerRecords
        BY <4>3
      <4>5. answer[Position(P, 1)].case \in Nat
        BY <4>4 DEF StepAnswerRecords
      <4>6. ~NamesCase(answer) => answer[Position(P, 1)].case = 0
        BY <4>3, <4>5, Zenon DEF NamesCase
      <4>7. S(k) = [case |-> answer[Position(P, 1)].case, no |-> k]
        BY <3>3 DEF P
      <4>8. k \in Nat
        BY <1>0
      <4> QED BY <4>5, <4>6, <4>7, <4>8 DEF StepAnswerRecords
    <3> QED BY <3>2, <3>3
  <2> HIDE DEF S
  <2>3. given \in [1 .. n -> StepAnswerRecords] /\ DOMAIN given = 1 .. n
    BY <2>1, <2>2
  <2>4. given \in Seq(StepAnswerRecords) /\ Len(given) = n
    <3> HIDE DEF given
    <3> QED BY <1>0, <2>3, SeqOfFunction
  <2>5. given # <<>>
    BY <1>2, <2>4
  <2>6. \A k \in DOMAIN given : given[k] = S(k) /\ k \in 1 .. n
    BY <2>1
  <2> HIDE DEF given
  <2>7. /\ \A k \in DOMAIN given : given[k].no = k
        /\ ~NamesCase(answer) => \A k \in DOMAIN given : given[k].case = 0
    BY <2>2, <2>6, Zenon
  <2> QED BY <2>4, <2>5, <2>7, Zenon DEF IsGiven, given
<1> QED BY <1>1, <1>2

LEMMA NumberedDiffer ==
  ASSUME NEW s, \A k \in DOMAIN s : s[k].no = k
  PROVE  DifferentSteps(s)
<1>1. SUFFICES ASSUME NEW i \in DOMAIN s, NEW k \in DOMAIN s, s[i] = s[k] PROVE i = k
  BY Zenon DEF DifferentSteps
<1>2. s[i].no = i /\ s[k].no = k
  BY Zenon
<1>3. s[i].no = s[k].no
  BY <1>1, Zenon
<1> QED BY <1>2, <1>3, Zenon

\* The steps of a case: its own unless a model named another, and different unless it gave
\* numbers that may clash.
AreSteps(list, answer, case) ==
  /\ list \in Seq(StepRecords) /\ list # <<>>
  /\ ~NamesCase(answer) => \A k \in DOMAIN list : list[k].case = case.id
  /\ ~NumbersClash(answer, case) => DifferentSteps(list)

LEMMA StepsOfHas ==
  ASSUME NEW answer \in StepAnswers, NEW case \in CaseRecords, NEW before \in Nat,
         cases \in Seq(CaseRecords), cases # <<>>
  PROVE  AreSteps(StepsOf(answer, case, before), answer, case)
<1> DEFINE heeded == IF answer = <<>> THEN <<[case |-> 0, no |-> 0]>> ELSE answer
           given == ForProcedures(heeded, case)
           list == StepsOf(answer, case, before)
           new(k) == NormalStep(given[k], before + k, case)
<1>1. heeded \in Seq(StepAnswerRecords) /\ heeded # <<>>
  <2>1. answer \in Seq(StepAnswerRecords)
    BY TsAssumption
  <2>2. <<[case |-> 0, no |-> 0]>> \in Seq(StepAnswerRecords)
    <3>1. [case |-> 0, no |-> 0] \in StepAnswerRecords
      BY DEF StepAnswerRecords
    <3> QED BY <3>1
  <2> QED BY <2>1, <2>2
<1>2. ~NamesCase(answer) => ~NamesCase(heeded)
  BY DEF NamesCase
<1>21. ASSUME case.procedures = 0, ~NumbersClash(answer, case), NEW i \in DOMAIN heeded,
              NEW k \in DOMAIN heeded, i # k
       PROVE  NumberOr(heeded[i].no, before + i) # NumberOr(heeded[k].no, before + k)
  <2> DEFINE nos == [j \in DOMAIN answer |-> answer[j].no]
  <2>1. CASE answer = <<>>
    BY <1>21, <2>1
  <2>2. CASE answer # <<>>
    <3>1. heeded = answer /\ ~MayClash(nos)
      BY <1>21, <2>2 DEF NumbersClash
    <3>2. /\ i \in DOMAIN nos /\ k \in DOMAIN nos /\ nos[i] = heeded[i].no /\ nos[k] = heeded[k].no
      BY <3>1
    <3>3. heeded[i] \in StepAnswerRecords /\ heeded[k] \in StepAnswerRecords /\ i \in Nat /\ k \in Nat
      BY <1>1
    <3>4. nos[i] \in Nat /\ nos[k] \in Nat
      BY <3>2, <3>3 DEF StepAnswerRecords
    <3>5. before + i \in Nat /\ before + k \in Nat /\ before + i # before + k
      BY <1>21, <3>3
    <3> HIDE DEF nos, heeded
    <3> QED BY <1>21, <3>1, <3>2, <3>4, <3>5, NumbersDiffer
  <2> QED BY <2>1, <2>2
<1>3. list = [k \in DOMAIN given |-> new(k)]
  BY DEF StepsOf
<1> HIDE DEF heeded
<1>4. IsGiven(given, heeded, case)
  BY <1>1, ForProceduresGives
<1> HIDE DEF given
<1>5. /\ given \in Seq(StepAnswerRecords) /\ given # <<>>
      /\ Len(given) \in Nat /\ DOMAIN given = 1 .. Len(given) /\ Len(given) # 0
  BY <1>4 DEF IsGiven
<1>6. cases[1].id \in CaseIds /\ case.id \in CaseIds
  <2>1. cases[1] \in CaseRecords
    OBVIOUS
  <2> QED BY <2>1 DEF CaseRecords
<1>7. ASSUME NEW k \in DOMAIN given
      PROVE  /\ new(k) \in StepRecords
             /\ given[k].case = 0 => new(k).case = case.id
             /\ given[k].no = k => new(k).no = k
             /\ new(k).no = NumberOr(given[k].no, before + k)
  <2>1. k \in Nat /\ k # 0 /\ before + k \in Nat /\ given[k] \in StepAnswerRecords
    BY <1>5
  <2>2. given[k].case \in Nat /\ given[k].no \in Nat
    BY <2>1 DEF StepAnswerRecords
  <2>3. /\ OrPlace(given[k], before + k) \in Nat
        /\ given[k].no = k => OrPlace(given[k], before + k) = k
        /\ OrPlace(given[k], before + k) = NumberOr(given[k].no, before + k)
    BY <2>1, <2>2 DEF OrPlace, NumberOr
  <2>4. new(k) = [case |-> IF given[k].case = 0 THEN case.id ELSE cases[1].id,
                  no   |-> OrPlace(given[k], before + k)]
    BY DEF NormalStep
  <2> HIDE DEF new
  <2> QED BY <1>6, <2>3, <2>4 DEF StepRecords
<1> HIDE DEF new
<1>8. list \in [1 .. Len(given) -> StepRecords] /\ DOMAIN list = DOMAIN given
  BY <1>3, <1>5, <1>7
<1>9. \A k \in DOMAIN given : list[k] = new(k)
  BY <1>3
<1> HIDE DEF list
<1>10. list \in Seq(StepRecords) /\ Len(list) = Len(given)
  BY <1>5, <1>8, SeqOfFunction
<1>11. list # <<>>
  BY <1>5, <1>10
<1>12. ~NamesCase(answer) => \A k \in DOMAIN list : list[k].case = case.id
  <2>1. SUFFICES ASSUME ~NamesCase(answer), NEW k \in DOMAIN list PROVE list[k].case = case.id
    OBVIOUS
  <2>2. k \in DOMAIN given /\ given[k].case = 0
    BY <1>2, <1>4, <1>8, <2>1 DEF IsGiven
  <2>3. new(k).case = case.id /\ list[k] = new(k)
    BY <1>7, <1>9, <2>2, Zenon
  <2> QED BY <2>3, Zenon
<1>13. ASSUME ~NumbersClash(answer, case) PROVE DifferentSteps(list)
  <2>1. CASE \A k \in DOMAIN given : given[k].no = k
    <3>1. \A k \in DOMAIN list : list[k].no = k
      BY <1>7, <1>8, <1>9, <2>1, Zenon
    <3> QED BY <3>1, NumberedDiffer
  <2>2. CASE given = heeded /\ case.procedures = 0
    <3>1. SUFFICES ASSUME NEW i \in DOMAIN list, NEW k \in DOMAIN list, i # k
                   PROVE  list[i].no # list[k].no
      BY Zenon DEF DifferentSteps
    <3>2. /\ list[i].no = NumberOr(heeded[i].no, before + i)
          /\ list[k].no = NumberOr(heeded[k].no, before + k)
      BY <1>7, <1>8, <1>9, <2>2, Zenon
    <3>3. i \in DOMAIN heeded /\ k \in DOMAIN heeded
      BY <1>8, <2>2
    <3>4. NumberOr(heeded[i].no, before + i) # NumberOr(heeded[k].no, before + k)
      BY <1>13, <1>21, <2>2, <3>1, <3>3
    <3> QED BY <3>2, <3>4, Zenon
  <2> QED BY <1>4, <2>1, <2>2 DEF IsGiven
<1> QED BY <1>10, <1>11, <1>12, <1>13 DEF AreSteps, list

\* One step for each case.
LEMMA StepForEachHas ==
  ASSUME cases \in Seq(CaseRecords), cases # <<>>
  PROVE  /\ StepForEach \in Seq(StepRecords) /\ StepForEach # <<>>
         /\ DifferentSteps(StepForEach)
         /\ DOMAIN StepForEach = DOMAIN cases
         /\ \A k \in DOMAIN cases : StepForEach[k].case = cases[k].id
<1>1. Len(cases) \in Nat /\ Len(cases) # 0 /\ DOMAIN cases = 1 .. Len(cases)
  OBVIOUS
<1> DEFINE new(k) == [case |-> cases[k].id, no |-> k]
<1>2. StepForEach = [k \in DOMAIN cases |-> new(k)]
  BY DEF StepForEach
<1>3. ASSUME NEW k \in DOMAIN cases
      PROVE  new(k) \in StepRecords /\ new(k).case = cases[k].id /\ new(k).no = k
  <2>1. cases[k] \in CaseRecords /\ k \in Nat
    BY <1>1
  <2> QED BY <2>1 DEF StepRecords, CaseRecords
<1> HIDE DEF new
<1>4. StepForEach \in [1 .. Len(cases) -> StepRecords] /\ DOMAIN StepForEach = DOMAIN cases
  BY <1>1, <1>2, <1>3
<1>5. StepForEach \in Seq(StepRecords) /\ Len(StepForEach) = Len(cases)
  BY <1>1, <1>4, SeqOfFunction
<1>6. \A k \in DOMAIN cases : StepForEach[k].case = cases[k].id /\ StepForEach[k].no = k
  BY <1>2, <1>3
<1>7. DifferentSteps(StepForEach)
  BY <1>4, <1>6, NumberedDiffer
<1>8. StepForEach # <<>>
  BY <1>1, <1>5
<1> QED BY <1>4, <1>5, <1>6, <1>7, <1>8

\* Every requirement is traced once the scenarios are covered.
LEMMA CoveredTraces ==
  ASSUME NEW s \in Seq(SUBSET Nat), s # <<>>
  PROVE  Covered(s) \in Seq(SUBSET Nat) /\ Covered(s) # <<>> /\ 1 .. TsReqs \subseteq Traced(Covered(s))
<1> DEFINE P == Untraced(s)
           extra == [k \in 1 .. Cardinality(P) |-> {Position(P, k)}]
<1>1. TsReqs \in Nat /\ P \in SUBSET (1 .. TsReqs)
  BY TsConstants DEF Untraced
<1>2. \A r \in 1 .. TsReqs : r \notin P => \E i \in DOMAIN s : r \in s[i]
  BY DEF Untraced
<1>3. Covered(s) = s \o extra
  BY DEF Covered
<1> HIDE DEF P
<1>4. /\ \A m \in 1 .. Cardinality(P) : Position(P, m) \in P
      /\ \A j \in P : \E m \in 1 .. Cardinality(P) : Position(P, m) = j
      /\ Cardinality(P) \in Nat
  BY <1>1, PositionProperties
<1>5. extra \in [1 .. Cardinality(P) -> SUBSET Nat] /\ DOMAIN extra = 1 .. Cardinality(P)
  <2>1. ASSUME NEW m \in 1 .. Cardinality(P) PROVE {Position(P, m)} \in SUBSET Nat
    <3>1. Position(P, m) \in P
      BY <1>4
    <3>2. Position(P, m) \in 1 .. TsReqs
      BY <1>1, <3>1
    <3> QED BY <3>2
  <2> QED BY <2>1
<1>6. \A r \in P : \E k \in DOMAIN extra : r \in extra[k]
  BY <1>4
<1> HIDE DEF extra
<1>7. extra \in Seq(SUBSET Nat)
  BY <1>4, <1>5, SeqOfFunction
<1> DEFINE u == Covered(s)
<1>8. u \in Seq(SUBSET Nat) /\ Joins(u, s, extra)
  BY <1>3, <1>7, Joined
<1>9. u # <<>>
  BY <1>3, <1>7
<1> HIDE DEF u
<1>10. ASSUME NEW r \in 1 .. TsReqs PROVE r \in Traced(u)
  <2>1. CASE r \in P
    <3>1. PICK k \in DOMAIN extra : r \in extra[k]
      BY <1>6, <2>1
    <3>2. PICK i \in DOMAIN u : u[i] = extra[k]
      BY <1>8, Zenon DEF Joins
    <3> QED BY <3>1, <3>2 DEF Traced
  <2>2. CASE r \notin P
    <3>1. PICK k \in DOMAIN s : r \in s[k]
      BY <1>2, <2>2
    <3>2. PICK i \in DOMAIN u : u[i] = s[k]
      BY <1>8, Zenon DEF Joins
    <3> QED BY <3>1, <3>2 DEF Traced
  <2> QED BY <2>1, <2>2
<1> QED BY <1>8, <1>9, <1>10 DEF u

-----------------------------------------------------------------------------
(* The steps of the test agent *)

LEMMA FromEitherJoined ==
  ASSUME NEW u, NEW cs, NEW list, NEW given, Joins(u, cs, list), FromEither(cs, given),
         \A k \in DOMAIN list : IsAnswered(list[k], given) \/ IsFallback(list[k])
  PROVE  FromEither(u, given)
<1>1. SUFFICES ASSUME NEW i \in DOMAIN u PROVE IsAnswered(u[i], given) \/ IsFallback(u[i])
  BY Zenon DEF FromEither
<1>2. (\E k \in DOMAIN cs : u[i] = cs[k]) \/ (\E k \in DOMAIN list : u[i] = list[k])
  BY Zenon DEF Joins
<1> QED BY <1>2, Zenon DEF FromEither

Led(p, r) == <<p>> \o r

LEMMA LedOnce ==
  ASSUME NEW p \in Nat, NEW q \in Nat, NEW r \in Seq(Nat), NEW s \in Seq(Nat),
         Led(p, r) = Led(q, s)
  PROVE  p = q /\ r = s
<1> DEFINE u == <<p>> \o r
           w == <<q>> \o s
<1>0. <<p>> \in Seq(Nat) /\ <<q>> \in Seq(Nat) /\ <<p>>[1] = p /\ <<q>>[1] = q
      /\ Len(<<p>>) = 1 /\ Len(<<q>>) = 1 /\ 1 \in DOMAIN <<p>> /\ 1 \in DOMAIN <<q>>
  OBVIOUS
<1>1. Follows(u, <<p>>, r) /\ Follows(w, <<q>>, s)
  BY <1>0, Appended
<1>2. u = w
  BY DEF Led
<1> HIDE DEF u, w
<1>3. /\ u[1] = p /\ DOMAIN u = 1 .. (1 + Len(r)) /\ \A k \in 1 .. Len(r) : u[1 + k] = r[k]
      /\ w[1] = q /\ DOMAIN w = 1 .. (1 + Len(s)) /\ \A k \in 1 .. Len(s) : w[1 + k] = s[k]
  BY <1>0, <1>1 DEF Follows
<1>4. Len(r) \in Nat /\ Len(s) \in Nat
  OBVIOUS
<1>5. Len(r) = Len(s)
  BY <1>2, <1>3, <1>4
<1>6. \A k \in 1 .. Len(r) : r[k] = s[k]
  BY <1>2, <1>3, <1>5
<1>7. r = s
  <2>1. DOMAIN r = DOMAIN s
    BY <1>5
  <2>2. r = [k \in DOMAIN r |-> r[k]] /\ s = [k \in DOMAIN s |-> s[k]]
    OBVIOUS
  <2>3. \A k \in DOMAIN r : r[k] = s[k]
    <3>1. DOMAIN r = 1 .. Len(r)
      OBVIOUS
    <3> QED BY <1>6, <3>1
  <2> QED BY <2>1, <2>2, <2>3, Zenon
<1> QED BY <1>2, <1>3, <1>7

\* Keeping an id whole behind a new prefix does not make two ids one.
LEMMA WholeOnce ==
  ASSUME NEW a \in CaseIds, NEW b \in CaseIds, Plain(a), Plain(b), Whole(a) = Whole(b)
  PROVE  a = b
<1>1. a.prefix \in Nat /\ a.raw \in Seq(Nat) /\ b.prefix \in Nat /\ b.raw \in Seq(Nat)
  BY DEF CaseIds
<1>2. ASSUME NEW p \in Nat, NEW r \in Seq(Nat)
      PROVE  /\ <<0, p>> \o r = Led(0, Led(p, r)) /\ Led(p, r) \in Seq(Nat)
             /\ (<<0, p>> \o r)[1] = 0 /\ 1 \in DOMAIN (<<0, p>> \o r)
  BY DEF Led
<1>3. ASSUME NEW id \in CaseIds, id.prefix = 0, Plain(id), NEW p \in Nat, NEW r \in Seq(Nat)
      PROVE  id.raw # <<0, p>> \o r
  <2>1. \A j \in DOMAIN id.raw : id.raw[j] # 0
    BY <1>3 DEF Plain
  <2> DEFINE w == <<0, p>> \o r
  <2>2. w[1] = 0 /\ 1 \in DOMAIN w
    BY <1>2
  <2> HIDE DEF w
  <2>3. id.raw # w
    BY <2>1, <2>2, Zenon
  <2> QED BY <2>3 DEF w
<1>4. CASE a.prefix = 0 /\ b.prefix = 0
  BY <1>4 DEF Whole, CaseIds
<1>5. CASE a.prefix = 0 /\ b.prefix # 0
  BY <1>1, <1>3, <1>5 DEF Whole
<1>6. CASE a.prefix # 0 /\ b.prefix = 0
  BY <1>1, <1>3, <1>6 DEF Whole
<1>7. CASE a.prefix # 0 /\ b.prefix # 0
  <2>1. Led(0, Led(a.prefix, a.raw)) = Led(0, Led(b.prefix, b.raw))
    <3>1. <<0, a.prefix>> \o a.raw = <<0, b.prefix>> \o b.raw
      BY <1>7 DEF Whole
    <3>2. /\ <<0, a.prefix>> \o a.raw = Led(0, Led(a.prefix, a.raw))
          /\ <<0, b.prefix>> \o b.raw = Led(0, Led(b.prefix, b.raw))
      BY <1>1, <1>2
    <3> QED BY <3>1, <3>2, Zenon
  <2>2. Led(a.prefix, a.raw) \in Seq(Nat) /\ Led(b.prefix, b.raw) \in Seq(Nat)
    BY <1>1, <1>2
  <2>3. Led(a.prefix, a.raw) = Led(b.prefix, b.raw)
    BY <2>1, <2>2, LedOnce
  <2>4. a.prefix = b.prefix /\ a.raw = b.raw
    BY <1>1, <2>3, LedOnce, Zenon
  <2> QED BY <2>4 DEF CaseIds
<1> QED BY <1>1, <1>4, <1>5, <1>6, <1>7

LEMMA TestedMore ==
  ASSUME NEW n \in Nat, NEW cs \in Seq(CaseRecords), NEW list \in Seq(CaseRecords),
         Tested(cs, n),
         \A i \in DOMAIN list : list[i].scenario = n + 1,
         \A t \in DOMAIN CaseTypes : \E i \in DOMAIN list : list[i].type = CaseTypes[t]
  PROVE  Tested(cs \o list, n + 1)
<1> DEFINE u == cs \o list
<1>1. u \in Seq(CaseRecords) /\ Joins(u, cs, list)
  BY Joined
<1> HIDE DEF u
<1>2. \A s \in 1 .. (n + 1) : s \in 1 .. n \/ s = n + 1
  OBVIOUS
<1>3. \A s \in 1 .. n : s \in 1 .. (n + 1)
  OBVIOUS
<1>4. n + 1 \in 1 .. (n + 1)
  OBVIOUS
<1>5. ASSUME NEW i \in DOMAIN u PROVE u[i].scenario \in 1 .. (n + 1)
  <2>1. CASE \E k \in DOMAIN cs : u[i] = cs[k]
    <3>1. PICK k \in DOMAIN cs : u[i] = cs[k]
      BY <2>1
    <3>2. cs[k].scenario \in 1 .. n
      BY Zenon DEF Tested
    <3>3. cs[k].scenario \in 1 .. (n + 1)
      BY <1>3, <3>2, Zenon
    <3> QED BY <3>1, <3>3, Zenon
  <2>2. CASE \E k \in DOMAIN list : u[i] = list[k]
    <3>1. PICK k \in DOMAIN list : u[i] = list[k]
      BY <2>2
    <3>2. list[k].scenario = n + 1
      BY Zenon
    <3> QED BY <1>4, <3>1, <3>2, Zenon
  <2> QED BY <1>1, <2>1, <2>2, Zenon DEF Joins
<1>6. ASSUME NEW s \in 1 .. (n + 1), NEW t \in DOMAIN CaseTypes
      PROVE  \E i \in DOMAIN u : u[i].scenario = s /\ u[i].type = CaseTypes[t]
  <2>1. CASE s \in 1 .. n
    <3>1. PICK k \in DOMAIN cs : cs[k].scenario = s /\ cs[k].type = CaseTypes[t]
      BY <2>1, Zenon DEF Tested
    <3>2. PICK i \in DOMAIN u : u[i] = cs[k]
      BY <1>1, Zenon DEF Joins
    <3> QED BY <3>1, <3>2, Zenon
  <2>2. CASE s = n + 1
    <3>1. PICK k \in DOMAIN list : list[k].type = CaseTypes[t]
      BY Zenon
    <3>2. PICK i \in DOMAIN u : u[i] = list[k]
      BY <1>1, Zenon DEF Joins
    <3>3. list[k].scenario = s
      BY <2>2, Zenon
    <3> QED BY <3>1, <3>2, <3>3, Zenon
  <2> QED BY <1>2, <2>1, <2>2
<1> QED BY <1>5, <1>6, Zenon DEF Tested, u

LEMMA NoneTested == Tested(<<>>, 0) /\ DifferentIds(<<>>) /\ DifferentSteps(<<>>)
  BY DEF Tested, DifferentIds, DifferentSteps

LEMMA TsInitially ==
  ASSUME TsBegun
  PROVE  TsInv
<1>1. TsTypes
  <2>1. /\ tsMode \in {"N", "Y"} /\ tsStage \in {"scenarios", "update"}
        /\ scenarios = <<>> /\ answered = <<>> /\ cases = <<>> /\ steps = <<>>
        /\ turn = 0 /\ heard = 0 /\ astray = {}
    BY DEF TsBegun
  <2>2. tsStage \in TsStages
    BY <2>1 DEF TsStages
  <2>3. turn \in Nat /\ heard \in Nat
    BY <2>1
  <2>5. scenarios \in Seq(SUBSET Nat)
    BY <2>1
  <2>6. astray \in SUBSET AstrayKinds
    BY <2>1, Zenon
  <2>4. answered \in Seq(CaseRecords) /\ cases \in Seq(CaseRecords) /\ steps \in Seq(StepRecords)
    BY <2>1
  <2> QED BY <2>1, <2>2, <2>3, <2>4, <2>5, <2>6, Zenon DEF TsTypes
<1>2. StageInv
  BY DEF TsBegun, StageInv, CaseLoops, CasesMade, StepsMade
<1>3. TraceInv /\ CaseInv /\ StepInv /\ VerdictInv
  BY NoneTested DEF TsBegun, TraceInv, CaseInv, StepInv, VerdictInv, CasesMade, StepsMade
<1>4. IdInv
  BY NoneTested DEF TsBegun, IdInv
<1> QED BY <1>1, <1>2, <1>3, <1>4 DEF TsInv

LEMMA GenerateScenariosKeeps ==
  ASSUME TsInv, GenerateScenarios
  PROVE  TsInv'
<1> USE DEF TsInv
<1>1. scenarios' \in Seq(SUBSET Nat) /\ scenarios' # <<>> /\ 1 .. TsReqs \subseteq Traced(scenarios')
  <2>1. PICK traces \in [1 .. TsReqs -> Traces \cup {{}}] :
          scenarios' = Covered([r \in 1 .. TsReqs |-> IF traces[r] = {} THEN {r} ELSE traces[r]])
    BY DEF GenerateScenarios
  <2> DEFINE s == [r \in 1 .. TsReqs |-> IF traces[r] = {} THEN {r} ELSE traces[r]]
  <2>2. TsReqs \in Nat \ {0} /\ Traces \subseteq SUBSET Nat
    BY TsAssumption
  <2>3. ASSUME NEW r \in 1 .. TsReqs
        PROVE  (IF traces[r] = {} THEN {r} ELSE traces[r]) \in SUBSET Nat
    <3>1. traces[r] \in SUBSET Nat
      BY <2>2
    <3>2. {r} \in SUBSET Nat
      BY <2>2
    <3> QED BY <3>1, <3>2
  <2>4. s \in [1 .. TsReqs -> SUBSET Nat]
    BY <2>3
  <2> HIDE DEF s
  <2>5. s \in Seq(SUBSET Nat) /\ Len(s) = TsReqs
    BY <2>2, <2>4, SeqOfFunction
  <2>6. s # <<>>
    BY <2>2, <2>5
  <2> QED BY <2>1, <2>5, <2>6, CoveredTraces, Zenon DEF s
<1>2. TsTypes'
  BY <1>1 DEF GenerateScenarios, TsTypes, TsStages
<1>3. StageInv'
  BY <1>1 DEF GenerateScenarios, StageInv, CaseLoops, CasesMade, StepsMade
<1>4. TraceInv' /\ CaseInv' /\ StepInv' /\ VerdictInv'
  BY <1>1 DEF GenerateScenarios, TraceInv, CaseInv, StepInv, VerdictInv, CasesMade, StepsMade,
              DifferentSteps
<1>5. IdInv'
  <2>1. tsMode' = "N" /\ tsStage' = "cases" /\ UNCHANGED <<answered, cases, astray>>
    BY DEF GenerateScenarios, StageInv
  <2> QED BY <2>1 DEF IdInv, DifferentIds
<1> QED BY <1>2, <1>3, <1>4, <1>5

LEMMA AskForCasesKeeps ==
  ASSUME TsInv, AskForCases
  PROVE  TsInv'
<1> USE DEF TsInv
<1>1. TsTypes'
  BY DEF AskForCases, TsTypes, TsStages, CaseLoops
<1>2. StageInv'
  <2>1. Len(scenarios) \in Nat /\ scenarios # <<>> /\ turn = 0
    BY DEF AskForCases, TsTypes, StageInv
  <2>2. 0 < Len(scenarios)
    BY <2>1 DEF TsTypes
  <2> QED BY <2>1, <2>2 DEF AskForCases, StageInv, CaseLoops, CasesMade, StepsMade
<1>3. TraceInv'
  BY DEF AskForCases, TraceInv, Traced
<1>4. CaseInv' /\ VerdictInv'
  BY NoneTested DEF AskForCases, CaseInv, VerdictInv, CasesMade, StageInv
<1>5. StepInv'
  BY DEF AskForCases, StepInv, CasesMade, StepsMade, DifferentSteps
<1>6. IdInv'
  <2>1. cases' = <<>> /\ answered' = <<>> /\ tsStage' \in {"fallback", "answers"}
    BY DEF AskForCases, StageInv
  <2> QED BY <2>1, NoneTested DEF IdInv, FromEither
<1> QED BY <1>1, <1>2, <1>3, <1>4, <1>5, <1>6

LEMMA FallbackCasesKeeps ==
  ASSUME TsInv, FallbackCases
  PROVE  TsInv'
<1> USE DEF TsInv
<1> DEFINE s == turn + 1
           list == Fallback(s)
           last == LastTurn(scenarios)
<1>1. /\ turn \in Nat /\ s \in Nat \ {0} /\ tsStage = "fallback" /\ turn < Len(scenarios)
      /\ Len(scenarios) \in Nat /\ cases \in Seq(CaseRecords)
      /\ cases' = cases \o list
      /\ turn' = IF last THEN 0 ELSE s
      /\ tsStage' = IF last THEN "steps" ELSE "fallback"
      /\ UNCHANGED <<tsMode, scenarios, answered, steps, heard, astray>>
      /\ last <=> s = Len(scenarios)
      /\ answered = <<>> /\ Tested(cases, turn) /\ FromEither(cases, answered)
  BY DEF FallbackCases, Turn, LastTurn, TsTypes, StageInv, CaseInv, IdInv, CaseLoops
<1>2. /\ list \in Seq(CaseRecords) /\ DOMAIN list = DOMAIN CaseTypes
      /\ \A c \in DOMAIN CaseTypes : list[c].scenario = s /\ list[c].type = CaseTypes[c]
      /\ DifferentIds(list)
  BY <1>1, FallbackHas, FallbackDiffers
<1>3. list # <<>> /\ Len(list) \in Nat \ {0}
  BY <1>1, FallbackHas, TsConstants
<1> HIDE DEF list, last
<1>4. /\ cases' \in Seq(CaseRecords) /\ cases' # <<>> /\ Len(cases') \in Nat \ {0}
      /\ Joins(cases', cases, list)
  BY <1>1, <1>2, <1>3, Joined
<1>5. Tested(cases', s)
  BY <1>1, <1>2, TestedMore
<1> HIDE DEF s
<1>6. TsTypes'
  BY <1>1, <1>4 DEF TsTypes, TsStages, CaseLoops, CasesMade
<1>7. StageInv'
  <2>1. ~last => s < Len(scenarios)
    BY <1>1 DEF s
  <2> QED BY <1>1, <1>4, <2>1 DEF StageInv, CaseLoops, CasesMade, StepsMade
<1>8. TraceInv' /\ VerdictInv'
  BY <1>1 DEF TraceInv, Traced, VerdictInv
<1>9. CaseInv'
  BY <1>1, <1>5 DEF CaseInv, CasesMade
<1>10. StepInv'
  <2>1. tsMode = "N" => steps' = <<>>
    BY <1>1 DEF StageInv, CaseLoops
  <2>2. tsMode = "N" => Stepped(steps', cases', 0)
    BY <2>1 DEF Stepped
  <2>3. astray' = {} => DifferentSteps(steps')
    BY <1>1 DEF StepInv
  <2> QED BY <1>1, <2>2, <2>3 DEF StepInv, StepsMade, CasesMade
<1>11. FromEither(cases', answered)
  <2>1. ASSUME NEW k \in DOMAIN list PROVE IsFallback(list[k])
    BY <1>2, Zenon DEF IsFallback, list
  <2> QED BY <1>1, <1>4, <2>1, FromEitherJoined
<1>12. "id" \notin astray => DifferentIds(cases')
  <2>1. SUFFICES ASSUME "id" \notin astray PROVE DifferentIds(cases')
    OBVIOUS
  <2>2. DifferentIds(cases)
    BY <2>1 DEF IdInv
  <2>3. ASSUME NEW i \in DOMAIN cases, NEW k \in DOMAIN list PROVE cases[i].id # list[k].id
    <3>1. cases[i] \in CaseRecords /\ list[k] \in CaseRecords
      BY <1>1, <1>2
    <3>2. cases[i].scenario # list[k].scenario
      <4>1. cases[i].scenario \in 1 .. turn
        BY <1>1, Zenon DEF Tested
      <4>2. list[k].scenario = s
        BY <1>2, Zenon
      <4> QED BY <1>1, <4>1, <4>2 DEF s
    <3>3. IsAnswered(cases[i], answered) \/ IsFallback(cases[i])
      BY <1>1 DEF FromEither
    <3>4. IsFallback(list[k])
      BY <1>2, Zenon DEF IsFallback, list
    <3>5. DifferentIds(answered) /\ \A a \in DOMAIN answered : answered[a].id.prefix # 0
      BY <1>1 DEF DifferentIds
    <3> QED BY <3>1, <3>2, <3>3, <3>4, <3>5, OriginsDiffer
  <2> QED BY <1>1, <1>2, <2>2, <2>3, DifferentIdsJoined
<1>13. IdInv'
  <2>1. "id" \notin astray' => DifferentIds(answered') /\ DifferentIds(cases')
    BY <1>1, <1>12, NoneTested
  <2>2. tsStage' \notin {"answers", "coverage", "refine", "cases"}
    BY <1>1
  <2>3. FromEither(cases', answered')
    BY <1>1, <1>11
  <2> QED BY <2>1, <2>2, <2>3 DEF IdInv
<1> QED BY <1>6, <1>7, <1>8, <1>9, <1>10, <1>13

LEMMA NormalizeCasesKeeps ==
  ASSUME TsInv, NormalizeCases
  PROVE  TsInv'
<1> USE DEF TsInv
<1> DEFINE s == turn + 1
           last == LastTurn(scenarios)
<1>1. PICK answer \in CaseAnswers :
        /\ answered' = answered \o CasesOf(s, answer, Len(answered))
        /\ astray' = astray \cup
             Marks(MayClash([k \in DOMAIN answer |-> answer[k].number]), "id")
  BY DEF NormalizeCases
<1> DEFINE list == CasesOf(s, answer, Len(answered))
<1>2. /\ turn \in Nat /\ s \in Nat \ {0} /\ tsStage = "answers" /\ turn < Len(scenarios)
      /\ Len(scenarios) \in Nat
      /\ answered \in Seq(CaseRecords) /\ Len(answered) \in Nat
      /\ turn' = IF last THEN 0 ELSE s
      /\ tsStage' = IF last THEN "coverage" ELSE "answers"
      /\ UNCHANGED <<tsMode, scenarios, cases, steps, heard>>
      /\ last <=> s = Len(scenarios)
      /\ cases = <<>> /\ \A a \in DOMAIN answered : answered[a].id.prefix \in 1 .. turn
  BY DEF NormalizeCases, Turn, LastTurn, TsTypes, StageInv, IdInv, CaseLoops
<1>3. /\ list \in Seq(CaseRecords)
      /\ \A k \in DOMAIN list : list[k].id.prefix = s
      /\ "id" \notin astray' => DifferentIds(list)
  <2>1. "id" \notin astray' => ~MayClash([k \in DOMAIN answer |-> answer[k].number])
    BY <1>1 DEF Marks
  <2> QED BY <1>2, <2>1, AnsweredHas
<1> HIDE DEF list, last
<1>4. answered' \in Seq(CaseRecords) /\ Joins(answered', answered, list)
  BY <1>1, <1>2, <1>3, Joined DEF list
<1>5. \A a \in DOMAIN answered' : answered'[a].id.prefix \in 1 .. s
  <2>1. SUFFICES ASSUME NEW a \in DOMAIN answered' PROVE answered'[a].id.prefix \in 1 .. s
    OBVIOUS
  <2>2. CASE \E k \in DOMAIN answered : answered'[a] = answered[k]
    <3>1. PICK k \in DOMAIN answered : answered'[a] = answered[k]
      BY <2>2
    <3>2. answered[k].id.prefix \in 1 .. turn
      BY <1>2, Zenon
    <3>3. answered[k].id.prefix \in 1 .. s
      BY <1>2, <3>2
    <3> QED BY <3>1, <3>3, Zenon
  <2>3. CASE \E k \in DOMAIN list : answered'[a] = list[k]
    <3>1. PICK k \in DOMAIN list : answered'[a] = list[k]
      BY <2>3
    <3>2. list[k].id.prefix = s
      BY <1>3, Zenon
    <3>3. s \in 1 .. s
      BY <1>2
    <3> QED BY <3>1, <3>2, <3>3, Zenon
  <2> QED BY <1>4, <2>2, <2>3, Zenon DEF Joins
<1>6. "id" \notin astray' => DifferentIds(answered')
  <2>1. SUFFICES ASSUME "id" \notin astray' PROVE DifferentIds(answered')
    OBVIOUS
  <2>2. DifferentIds(answered)
    BY <1>1, <2>1 DEF IdInv
  <2>3. ASSUME NEW i \in DOMAIN answered, NEW k \in DOMAIN list
        PROVE  answered[i].id # list[k].id
    <3>1. answered[i].id.prefix \in 1 .. turn /\ list[k].id.prefix = s
      BY <1>2, <1>3, Zenon
    <3>2. answered[i].id.prefix # list[k].id.prefix
      BY <1>2, <3>1
    <3> QED BY <3>2, Zenon
  <2> QED BY <1>1, <1>2, <1>3, <2>1, <2>2, <2>3, DifferentIdsJoined DEF list
<1>7. s \in Nat \ {0}
  BY <1>2
<1>8. ~last => s < Len(scenarios)
  BY <1>2
<1>9. last => 0 < Len(scenarios)
  BY <1>2
<1> HIDE DEF s
<1>10. TsTypes'
  <2>1. astray' \in SUBSET AstrayKinds
    BY <1>1 DEF TsTypes, Marks, AstrayKinds
  <2> QED BY <1>2, <1>4, <1>7, <2>1 DEF TsTypes, TsStages, CaseLoops
<1>11. StageInv'
  BY <1>2, <1>8, <1>9 DEF StageInv, CaseLoops, CasesMade, StepsMade
<1>12. TraceInv' /\ VerdictInv'
  BY <1>2 DEF TraceInv, Traced, VerdictInv
<1>13. CaseInv'
  BY <1>2, NoneTested DEF CaseInv, CasesMade
<1>14. StepInv'
  <2>1. astray' = {} => DifferentSteps(steps')
    BY <1>1, <1>2 DEF StepInv
  <2> QED BY <1>2, <2>1 DEF StepInv, StepsMade, CasesMade
<1>15. IdInv'
  <2>1. \A a \in DOMAIN answered' : answered'[a].id.prefix # 0
    BY <1>5, <1>7
  <2>2. FromEither(cases', answered') /\ DifferentIds(cases')
    BY <1>2, NoneTested DEF FromEither
  <2>3. (tsStage' = "answers" => turn' = s) /\ tsStage' \notin {"refine", "cases"}
    BY <1>2
  <2> QED BY <1>2, <1>5, <1>6, <2>1, <2>2, <2>3 DEF IdInv
<1> QED BY <1>10, <1>11, <1>12, <1>13, <1>14, <1>15

LEMMA CoverTypesKeeps ==
  ASSUME TsInv, CoverTypes
  PROVE  TsInv'
<1> USE DEF TsInv
<1> DEFINE s == turn + 1
           list == CasesFor(s)
           last == LastTurn(scenarios)
<1>1. /\ turn \in Nat /\ s \in Nat \ {0} /\ tsStage = "coverage" /\ turn < Len(scenarios)
      /\ Len(scenarios) \in Nat /\ cases \in Seq(CaseRecords) /\ answered \in Seq(CaseRecords)
      /\ cases' = cases \o list
      /\ answered' = IF last THEN <<>> ELSE answered
      /\ turn' = IF last THEN 0 ELSE s
      /\ tsStage' = IF last THEN "steps" ELSE "coverage"
      /\ UNCHANGED <<tsMode, scenarios, steps, heard, astray>>
      /\ last <=> s = Len(scenarios)
      /\ Tested(cases, turn) /\ FromEither(cases, answered)
      /\ \A a \in DOMAIN answered : answered[a].id.prefix # 0
  BY DEF CoverTypes, Turn, LastTurn, TsTypes, StageInv, CaseInv, IdInv, CaseLoops
<1>2. Covers(list, s)
  BY <1>1, CasesForCovers
<1>3. ~last => s < Len(scenarios)
  BY <1>1
<1> HIDE DEF list, last
<1>4. /\ list \in Seq(CaseRecords)
      /\ \A i \in DOMAIN list :
           list[i].scenario = s /\ (IsAnswered(list[i], answered) \/ IsFallback(list[i]))
      /\ \A t \in DOMAIN CaseTypes : \E i \in DOMAIN list : list[i].type = CaseTypes[t]
  BY <1>2 DEF Covers
<1>5. DOMAIN list # {}
  <2>1. PICK t \in DOMAIN CaseTypes : TRUE
    BY TsConstants
  <2> QED BY <1>4, <2>1, Zenon
<1>6. cases' \in Seq(CaseRecords) /\ Joins(cases', cases, list)
  BY <1>1, <1>4, Joined
<1>7. cases' # <<>> /\ Len(cases') \in Nat \ {0}
  <2>1. DOMAIN cases' # {}
    BY <1>5, <1>6, Zenon DEF Joins
  <2> QED BY <1>6, <2>1
<1>8. Tested(cases', s)
  BY <1>1, <1>4, TestedMore
<1> HIDE DEF s
<1>9. TsTypes'
  BY <1>1, <1>6 DEF TsTypes, TsStages, CaseLoops, CasesMade
<1>10. StageInv'
  BY <1>1, <1>3, <1>7 DEF StageInv, CaseLoops, CasesMade, StepsMade
<1>11. TraceInv' /\ VerdictInv'
  BY <1>1 DEF TraceInv, Traced, VerdictInv
<1>12. CaseInv'
  BY <1>1, <1>8 DEF CaseInv, CasesMade
<1>13. StepInv'
  <2>1. tsMode = "N" => steps' = <<>>
    BY <1>1 DEF StageInv, CaseLoops
  <2>2. tsMode = "N" => Stepped(steps', cases', 0)
    BY <2>1 DEF Stepped
  <2>3. astray' = {} => DifferentSteps(steps')
    BY <1>1 DEF StepInv
  <2> QED BY <1>1, <2>2, <2>3 DEF StepInv, StepsMade, CasesMade
<1>14. FromEither(cases', answered)
  BY <1>1, <1>4, <1>6, FromEitherJoined
<1>15. "id" \notin astray => DifferentIds(cases')
  <2>1. SUFFICES ASSUME "id" \notin astray PROVE DifferentIds(cases')
    OBVIOUS
  <2>2. DifferentIds(cases) /\ DifferentIds(answered)
    BY <2>1 DEF IdInv
  <2>3. DifferentIds(list)
    BY <1>1, <1>2, <2>2 DEF Covers
  <2>4. ASSUME NEW i \in DOMAIN cases, NEW k \in DOMAIN list PROVE cases[i].id # list[k].id
    <3>1. cases[i] \in CaseRecords /\ list[k] \in CaseRecords
      BY <1>1, <1>4
    <3>2. cases[i].scenario # list[k].scenario
      <4>1. cases[i].scenario \in 1 .. turn
        BY <1>1, Zenon DEF Tested
      <4>2. list[k].scenario = s
        BY <1>4, Zenon
      <4> QED BY <1>1, <4>1, <4>2 DEF s
    <3>3. /\ IsAnswered(cases[i], answered) \/ IsFallback(cases[i])
          /\ IsAnswered(list[k], answered) \/ IsFallback(list[k])
      BY <1>1, <1>4, Zenon DEF FromEither
    <3> QED BY <1>1, <2>2, <3>1, <3>2, <3>3, OriginsDiffer
  <2> QED BY <1>1, <1>4, <2>2, <2>3, <2>4, DifferentIdsJoined
<1>16. IdInv'
  <2>1. "id" \notin astray' => DifferentIds(answered') /\ DifferentIds(cases')
    BY <1>1, <1>15, NoneTested DEF IdInv
  <2>2. tsStage' = "coverage" => answered' = answered
    BY <1>1
  <2>3. tsStage' \notin {"answers", "fallback", "refine", "cases"}
    BY <1>1
  <2> QED BY <1>1, <1>14, <2>1, <2>2, <2>3 DEF IdInv
<1> QED BY <1>9, <1>10, <1>11, <1>12, <1>13, <1>16

LEMMA FallbackStepsKeeps ==
  ASSUME TsInv, FallbackSteps
  PROVE  TsInv'
<1> USE DEF TsInv
<1>1. /\ tsStage = "steps" /\ tsMode = "N" /\ steps' = StepForEach /\ tsStage' = "details"
      /\ UNCHANGED <<tsMode, scenarios, answered, cases, turn, heard, astray>>
      /\ cases \in Seq(CaseRecords) /\ cases # <<>>
  BY DEF FallbackSteps, TsTypes, StageInv, CasesMade
<1>2. /\ steps' \in Seq(StepRecords) /\ steps' # <<>> /\ DifferentSteps(steps')
      /\ DOMAIN steps' = DOMAIN cases
      /\ \A k \in DOMAIN cases : steps'[k].case = cases[k].id
  BY <1>1, StepForEachHas
<1>3. TsTypes'
  BY <1>1, <1>2 DEF TsTypes, TsStages, CasesMade
<1>4. StageInv'
  BY <1>1, <1>2 DEF StageInv, CaseLoops, CasesMade, StepsMade
<1>5. TraceInv' /\ VerdictInv' /\ CaseInv'
  BY <1>1 DEF TraceInv, Traced, VerdictInv, CaseInv, CasesMade
<1>6. StepInv'
  <2>1. DOMAIN cases = 1 .. Len(cases)
    BY <1>1
  <2>2. Stepped(steps', cases', Len(cases'))
    BY <1>1, <1>2, <2>1 DEF Stepped
  <2> QED BY <1>1, <1>2, <2>2 DEF StepInv, StepsMade, CasesMade
<1>7. IdInv'
  BY <1>1 DEF IdInv
<1> QED BY <1>3, <1>4, <1>5, <1>6, <1>7

LEMMA GenerateStepsKeeps ==
  ASSUME TsInv, GenerateSteps
  PROVE  TsInv'
<1> USE DEF TsInv
<1> DEFINE n == turn + 1
           last == LastTurn(cases)
<1>1. PICK answer \in StepAnswers :
        /\ steps' = steps \o StepsOf(answer, cases[n], Len(steps))
        /\ heard' = IF answer = <<>> THEN heard ELSE heard + 1
        /\ astray' = astray \cup Marks(NamesCase(answer), "case")
                             \cup Marks(NumbersClash(answer, cases[n]), "no")
  BY DEF GenerateSteps
<1> DEFINE list == StepsOf(answer, cases[n], Len(steps))
<1>2. /\ turn \in Nat /\ n \in Nat \ {0} /\ tsStage = "steps" /\ tsMode = "N"
      /\ turn < Len(cases) /\ Len(cases) \in Nat /\ DOMAIN cases = 1 .. Len(cases)
      /\ cases \in Seq(CaseRecords) /\ cases # <<>> /\ heard \in Nat
      /\ steps \in Seq(StepRecords) /\ Len(steps) \in Nat
      /\ turn' = IF last THEN 0 ELSE n
      /\ tsStage' = IF last THEN "details" ELSE "steps"
      /\ UNCHANGED <<tsMode, scenarios, answered, cases>>
      /\ last <=> n = Len(cases)
  BY DEF GenerateSteps, Turn, LastTurn, TsTypes, StageInv, CasesMade
<1>0. turn \in Nat /\ Len(cases) \in Nat /\ turn < Len(cases) /\ n = turn + 1
  BY <1>2
<1>3. n \in DOMAIN cases /\ cases[n] \in CaseRecords
  <2>1. n \in 1 .. Len(cases)
    BY <1>0
  <2>2. cases \in Seq(CaseRecords)
    BY DEF TsTypes
  <2> HIDE DEF n
  <2> QED BY <2>1, <2>2
<1>4. AreSteps(list, answer, cases[n])
  BY <1>2, <1>3, StepsOfHas
<1>5. ~last => n < Len(cases)
  <2>1. n # Len(cases) => n < Len(cases)
    BY <1>0
  <2> QED BY <1>2, <2>1
<1> HIDE DEF list, last
<1>6. list \in Seq(StepRecords) /\ list # <<>>
  BY <1>4 DEF AreSteps
<1>61. \E k \in DOMAIN list : TRUE
  <2>1. Len(list) \in Nat /\ Len(list) # 0 /\ DOMAIN list = 1 .. Len(list)
    BY <1>6
  <2>2. 1 \in DOMAIN list
    BY <2>1
  <2> QED BY <2>2
<1>7. steps' \in Seq(StepRecords) /\ Joins(steps', steps, list)
  BY <1>1, <1>2, <1>6, Joined DEF list
<1>8. steps' # <<>>
  <2>1. PICK k \in DOMAIN list : TRUE
    BY <1>61
  <2>2. DOMAIN steps' # {}
    BY <1>7, <2>1, Zenon DEF Joins
  <2> QED BY <1>7, <2>2
<1>9. ASSUME "case" \notin astray' PROVE Stepped(steps', cases, n)
  <2>1. "case" \notin astray /\ \A k \in DOMAIN list : list[k].case = cases[n].id
    <3>1. "case" \notin astray /\ ~NamesCase(answer)
      BY <1>1, <1>9 DEF Marks
    <3> QED BY <1>4, <3>1 DEF AreSteps
  <2>2. Stepped(steps, cases, turn)
    BY <1>2, <2>1 DEF StepInv
  <2>3. /\ \A i \in 1 .. turn : i \in 1 .. n
        /\ n \in 1 .. n
        /\ \A i \in 1 .. n : i \in 1 .. turn \/ i = n
    BY <1>0
  <2>7. ASSUME NEW k \in DOMAIN steps' PROVE \E i \in 1 .. n : steps'[k].case = cases[i].id
    <3>1. CASE \E j \in DOMAIN steps : steps'[k] = steps[j]
      <4>1. PICK j \in DOMAIN steps : steps'[k] = steps[j]
        BY <3>1
      <4>2. PICK i \in 1 .. turn : steps[j].case = cases[i].id
        BY <2>2, Zenon DEF Stepped
      <4>3. i \in 1 .. n
        BY <2>3, Zenon
      <4> QED BY <4>1, <4>2, <4>3, Zenon
    <3>2. CASE \E j \in DOMAIN list : steps'[k] = list[j]
      <4>1. PICK j \in DOMAIN list : steps'[k] = list[j]
        BY <3>2
      <4>2. list[j].case = cases[n].id
        BY <2>1, Zenon
      <4> QED BY <2>3, <4>1, <4>2, Zenon
    <3> QED BY <1>7, <3>1, <3>2, Zenon DEF Joins
  <2>8. ASSUME NEW i \in 1 .. n PROVE \E k \in DOMAIN steps' : steps'[k].case = cases[i].id
    <3>1. CASE i \in 1 .. turn
      <4>1. PICK j \in DOMAIN steps : steps[j].case = cases[i].id
        BY <2>2, <3>1, Zenon DEF Stepped
      <4>2. PICK k \in DOMAIN steps' : steps'[k] = steps[j]
        BY <1>7, Zenon DEF Joins
      <4> QED BY <4>1, <4>2, Zenon
    <3>2. CASE i = n
      <4>1. PICK j \in DOMAIN list : TRUE
        BY <1>61
      <4>2. PICK k \in DOMAIN steps' : steps'[k] = list[j]
        BY <1>7, Zenon DEF Joins
      <4>3. list[j].case = cases[i].id
        BY <2>1, <3>2, Zenon
      <4> QED BY <4>2, <4>3, Zenon
    <3> QED BY <2>3, <3>1, <3>2, Zenon
  <2> QED BY <2>7, <2>8, Zenon DEF Stepped
<1>91. ASSUME astray' = {} PROVE DifferentSteps(steps')
  <2>1. astray = {} /\ ~NamesCase(answer) /\ ~NumbersClash(answer, cases[n])
    BY <1>1, <1>91 DEF Marks
  <2>2. DifferentSteps(list) /\ \A k \in DOMAIN list : list[k].case = cases[n].id
    BY <1>4, <2>1 DEF AreSteps
  <2>3. DifferentSteps(steps) /\ Stepped(steps, cases, turn) /\ DifferentIds(cases)
    BY <1>2, <2>1 DEF StepInv, IdInv
  <2>4. \A i \in 1 .. turn : i \in DOMAIN cases /\ i # n
    <3>1. \A i \in 1 .. turn : i \in 1 .. Len(cases) /\ i # n
      BY <1>0
    <3> QED BY <1>2, <3>1
  <2>5. ASSUME NEW k \in DOMAIN steps, NEW j \in DOMAIN list PROVE steps[k] # list[j]
    <3>1. PICK i \in 1 .. turn : steps[k].case = cases[i].id
      BY <2>3, Zenon DEF Stepped
    <3>2. cases[i].id # cases[n].id
      BY <1>3, <2>3, <2>4, Zenon DEF DifferentIds
    <3>3. list[j].case = cases[n].id
      BY <2>2, Zenon
    <3> QED BY <3>1, <3>2, <3>3, Zenon
  <2> QED BY <1>1, <1>2, <1>6, <2>2, <2>3, <2>5, DifferentStepsJoined DEF list
<1>10. n \in Nat \ {0}
  BY <1>2
<1> HIDE DEF n
<1>11. TsTypes'
  <2>0. heard' \in Nat
    <3>1. heard \in Nat /\ heard + 1 \in Nat
      BY DEF TsTypes
    <3> QED BY <1>1, <3>1
  <2>1. heard' \in Nat /\ astray' \in SUBSET AstrayKinds
    <3>1. astray \in SUBSET AstrayKinds
      BY DEF TsTypes
    <3> QED BY <1>1, <2>0, <3>1 DEF Marks, AstrayKinds
  <2> QED BY <1>2, <1>7, <1>10, <2>1 DEF TsTypes, TsStages, CasesMade
<1>12. StageInv'
  BY <1>2, <1>5, <1>8 DEF StageInv, CaseLoops, CasesMade, StepsMade
<1>13. TraceInv' /\ VerdictInv' /\ CaseInv'
  BY <1>2 DEF TraceInv, Traced, VerdictInv, CaseInv, CasesMade
<1>14. StepInv'
  <2>1. tsStage' = "steps" => turn' = n
    BY <1>2
  <2>2. tsStage' \in StepsMade => n = Len(cases')
    BY <1>2 DEF StepsMade, CasesMade
  <2>3. /\ astray' = {} => DifferentSteps(steps')
        /\ "case" \notin astray' => Stepped(steps', cases', n)
    BY <1>2, <1>9, <1>91
  <2> QED BY <2>1, <2>2, <2>3 DEF StepInv
<1>15. IdInv'
  <2>1. tsStage' \notin {"answers", "coverage", "fallback", "refine", "cases"}
    BY <1>2
  <2>2. "id" \notin astray' => DifferentIds(answered') /\ DifferentIds(cases')
    BY <1>1, <1>2 DEF IdInv
  <2> QED BY <2>1, <2>2 DEF IdInv
<1> QED BY <1>11, <1>12, <1>13, <1>14, <1>15

\* Rewriting a step leaves the list as long as it was, its cases unless a model named one,
\* and the list itself unless a model wrote anything.
IsRewriting(old, new, strayed) ==
  /\ new \in Seq(StepRecords) /\ DOMAIN new = DOMAIN old /\ new # <<>>
  /\ "case" \notin strayed => \A k \in DOMAIN old : new[k].case = old[k].case
  /\ strayed = {} => new = old

LEMMA RewriteStepHas ==
  ASSUME RewriteStep, TsTypes, cases # <<>>
  PROVE  /\ IsRewriting(steps, steps', astray') /\ heard' \in Nat
         /\ astray \subseteq astray' /\ astray' \in SUBSET AstrayKinds
         /\ "id" \in astray' => "id" \in astray
<1>1. PICK i \in DOMAIN steps : \E case \in CasesNamed(i), no \in {steps[i].no, i} \cup 1 .. 2 :
        /\ steps' = [steps EXCEPT ![i] = [case |-> case, no |-> no]]
        /\ astray' = astray \cup Marks(case # steps[i].case, "case")
                             \cup Marks(no # steps[i].no, "no")
  BY DEF RewriteStep
<1>2. PICK case \in CasesNamed(i), no \in {steps[i].no, i} \cup 1 .. 2 :
        /\ steps' = [steps EXCEPT ![i] = [case |-> case, no |-> no]]
        /\ astray' = astray \cup Marks(case # steps[i].case, "case")
                             \cup Marks(no # steps[i].no, "no")
  BY <1>1
<1>3. /\ steps \in Seq(StepRecords) /\ steps[i] \in StepRecords /\ i \in Nat
      /\ cases[1] \in CaseRecords
  BY DEF TsTypes
<1> DEFINE new == [case |-> case, no |-> no]
<1>4. new \in StepRecords
  <2>1. steps[i].case \in CaseIds /\ steps[i].no \in Nat /\ cases[1].id \in CaseIds
    BY <1>3 DEF StepRecords, CaseRecords
  <2>2. AgentsId(i) \in CaseIds
    BY <1>3 DEF AgentsId, CaseIds
  <2>3. case \in CaseIds
    BY <2>1, <2>2 DEF CasesNamed
  <2>4. no \in Nat
    BY <1>3, <2>1
  <2> QED BY <2>3, <2>4 DEF StepRecords
<1>5. ASSUME case = steps[i].case, no = steps[i].no PROVE new = steps[i]
  BY <1>3, <1>5 DEF StepRecords
<1>6. new.case = case
  OBVIOUS
<1> HIDE DEF new
<1>7. steps' = [steps EXCEPT ![i] = new]
  BY <1>2 DEF new
<1>8. /\ steps' \in Seq(StepRecords) /\ DOMAIN steps' = DOMAIN steps
      /\ steps'[i] = new /\ \A k \in DOMAIN steps : k # i => steps'[k] = steps[k]
  BY <1>3, <1>4, <1>7
<1>9. steps' # <<>>
  BY <1>3, <1>8
<1>10. ASSUME "case" \notin astray', NEW k \in DOMAIN steps PROVE steps'[k].case = steps[k].case
  <2>1. case = steps[i].case
    BY <1>2, <1>10 DEF Marks
  <2> QED BY <1>6, <1>8, <2>1, Zenon
<1>11. ASSUME astray' = {} PROVE steps' = steps
  <2>1. case = steps[i].case /\ no = steps[i].no
    BY <1>2, <1>11 DEF Marks
  <2>2. new = steps[i]
    BY <1>5, <2>1
  <2> QED BY <1>3, <1>7, <2>2
<1>12. IsRewriting(steps, steps', astray')
  BY <1>8, <1>9, <1>10, <1>11, Zenon DEF IsRewriting
<1>13. heard' \in Nat
  BY DEF RewriteStep, TsTypes
<1>14. /\ astray \subseteq astray' /\ astray' \in SUBSET AstrayKinds
       /\ "id" \in astray' => "id" \in astray
  <2>1. astray \in SUBSET AstrayKinds
    BY DEF TsTypes
  <2> QED BY <1>2, <2>1 DEF Marks, AstrayKinds
<1> QED BY <1>12, <1>13, <1>14

\* Nothing but the steps and what was heard and went astray changes, and the stage does not.
LEMMA RewritingKeeps ==
  ASSUME TsInv, RewriteStep, tsStage \in {"details", "steps"}, tsMode = "Y" \/ tsStage = "details",
         UNCHANGED <<tsStage, tsMode, scenarios, answered, cases, turn>>
  PROVE  TsInv'
<1> USE DEF TsInv
<1>1. cases # <<>>
  BY DEF StageInv, CasesMade
<1>2. /\ IsRewriting(steps, steps', astray') /\ heard' \in Nat
      /\ astray \subseteq astray' /\ astray' \in SUBSET AstrayKinds
      /\ "id" \in astray' => "id" \in astray
  BY <1>1, RewriteStepHas
<1>3. steps' \in Seq(StepRecords) /\ steps' # <<>> /\ DOMAIN steps' = DOMAIN steps
  BY <1>2 DEF IsRewriting
<1>4. TsTypes' /\ StageInv'
  <2>1. TsTypes'
    BY <1>2, <1>3 DEF TsTypes
  <2>2. StageInv'
    BY <1>3 DEF StageInv, CaseLoops, CasesMade, StepsMade
  <2> QED BY <2>1, <2>2
<1>5. TraceInv' /\ VerdictInv' /\ CaseInv'
  BY DEF TraceInv, Traced, VerdictInv, CaseInv
<1>6. ASSUME "case" \notin astray', NEW n, Stepped(steps, cases, n)
      PROVE  Stepped(steps', cases', n)
  <2>1. \A k \in DOMAIN steps : steps'[k].case = steps[k].case
    BY <1>2, <1>6 DEF IsRewriting
  <2> QED BY <1>3, <1>6, <2>1, Zenon DEF Stepped
<1>7. StepInv'
  <2>1. astray' = {} => DifferentSteps(steps')
    BY <1>2 DEF IsRewriting, StepInv
  <2>2. ASSUME "case" \notin astray', tsMode = "N"
        PROVE  tsStage # "steps" /\ (tsStage \in StepsMade => Stepped(steps', cases', Len(cases')))
    <3>1. "case" \notin astray /\ tsStage # "steps"
      BY <1>2, <2>2
    <3> QED BY <1>6, <2>2, <3>1 DEF StepInv
  <2> QED BY <2>1, <2>2 DEF StepInv
<1>8. IdInv'
  BY <1>2 DEF IdInv
<1> QED BY <1>4, <1>5, <1>7, <1>8

LEMMA DetailStepsKeeps ==
  ASSUME TsInv, DetailSteps
  PROVE  TsInv'
<1> USE DEF TsInv
<1>1. CASE RewriteStep /\ UNCHANGED tsStage
  BY <1>1, RewritingKeeps DEF DetailSteps
<1>2. CASE tsStage' = "check" /\ UNCHANGED <<steps, heard, astray>>
  <2>1. /\ tsStage = "details" /\ tsStage' = "check" /\ tsMode = "N"
        /\ UNCHANGED <<tsMode, scenarios, answered, cases, steps, turn, heard, astray>>
    BY <1>2 DEF DetailSteps, StageInv
  <2>2. TsTypes' /\ StageInv'
    BY <2>1 DEF TsTypes, TsStages, StageInv, CaseLoops, CasesMade, StepsMade
  <2>3. TraceInv' /\ VerdictInv' /\ CaseInv'
    BY <2>1 DEF TraceInv, Traced, VerdictInv, CaseInv, CasesMade
  <2>4. StepInv' /\ IdInv'
    BY <2>1 DEF StepInv, IdInv, CasesMade, StepsMade
  <2> QED BY <2>2, <2>3, <2>4
<1> QED BY <1>1, <1>2 DEF DetailSteps

LEMMA ApplyRulesKeeps ==
  ASSUME TsInv, ApplyRules
  PROVE  TsInv'
<1> USE DEF TsInv
<1>1. PICK doc \in OldDocuments \cup Rewritten :
        /\ scenarios' = IF doc.scenarios = <<>> THEN <<{1}>> ELSE doc.scenarios
        /\ cases' = doc.cases /\ steps' = doc.steps
        /\ astray' = Marks(~DifferentIds(doc.cases), "id")
                        \cup Marks(~DifferentSteps(doc.steps), "no")
  BY DEF ApplyRules
<1>2. /\ tsStage = "update" /\ tsStage' = "refine" /\ tsMode = "Y"
      /\ UNCHANGED <<tsMode, answered, turn, heard>> /\ turn = 0 /\ answered = <<>>
  BY DEF ApplyRules, StageInv
<1>3. /\ doc.scenarios \in Seq(SUBSET Nat) /\ doc.cases \in Seq(CaseRecords)
      /\ doc.steps \in Seq(StepRecords)
      /\ \A i \in DOMAIN doc.cases : Plain(doc.cases[i].id)
  BY TsAssumption
<1>4. scenarios' \in Seq(SUBSET Nat) /\ scenarios' # <<>>
  <2>1. <<{1}>> \in Seq(SUBSET Nat) /\ <<{1}>> # <<>>
    OBVIOUS
  <2> QED BY <1>1, <1>3, <2>1
<1>5. TsTypes'
  <2>1. astray' \in SUBSET AstrayKinds
    BY <1>1 DEF Marks, AstrayKinds
  <2> QED BY <1>1, <1>2, <1>3, <1>4, <2>1 DEF TsTypes, TsStages
<1>6. StageInv'
  BY <1>2, <1>4 DEF StageInv, CaseLoops, CasesMade, StepsMade
<1>7. TraceInv' /\ VerdictInv' /\ CaseInv'
  BY <1>2 DEF TraceInv, VerdictInv, CaseInv, CasesMade
<1>8. /\ "id" \notin astray' => DifferentIds(cases')
      /\ astray' = {} => DifferentSteps(steps')
  BY <1>1 DEF Marks
<1>9. StepInv'
  BY <1>2, <1>8 DEF StepInv, StepsMade, CasesMade
<1>10. IdInv'
  BY <1>1, <1>2, <1>3, <1>8, NoneTested DEF IdInv
<1> QED BY <1>5, <1>6, <1>7, <1>9, <1>10

LEMMA RefineScenariosKeeps ==
  ASSUME TsInv, RefineScenarios
  PROVE  TsInv'
<1> USE DEF TsInv
<1>1. /\ tsStage = "refine" /\ tsStage' = "cases" /\ tsMode = "Y" /\ scenarios # <<>>
      /\ UNCHANGED <<tsMode, answered, cases, steps, turn, heard, astray>>
  BY DEF RefineScenarios, StageInv
<1>2. scenarios' \in Seq(SUBSET Nat) /\ scenarios' # <<>>
  <2>1. CASE UNCHANGED scenarios
    BY <1>1, <2>1 DEF TsTypes
  <2>2. CASE \E i \in DOMAIN scenarios, trace \in Traces :
               scenarios' = [scenarios EXCEPT ![i] = trace]
    <3>1. PICK i \in DOMAIN scenarios, trace \in Traces :
            scenarios' = [scenarios EXCEPT ![i] = trace]
      BY <2>2
    <3>2. trace \in SUBSET Nat /\ scenarios \in Seq(SUBSET Nat)
      BY TsAssumption DEF TsTypes
    <3>3. scenarios' \in Seq(SUBSET Nat) /\ DOMAIN scenarios' = DOMAIN scenarios
      BY <3>1, <3>2
    <3> QED BY <3>1, <3>3
  <2> QED BY <2>1, <2>2 DEF RefineScenarios
<1>3. TsTypes'
  BY <1>1, <1>2 DEF TsTypes, TsStages
<1>4. StageInv'
  BY <1>1, <1>2 DEF StageInv, CaseLoops, CasesMade, StepsMade
<1>5. TraceInv' /\ VerdictInv' /\ CaseInv'
  BY <1>1 DEF TraceInv, VerdictInv, CaseInv, CasesMade
<1>6. StepInv' /\ IdInv'
  BY <1>1 DEF StepInv, IdInv
<1> QED BY <1>3, <1>4, <1>5, <1>6

\* What an answer to refine a case says.
LEMMA RepliesHave ==
  ASSUME cases \in Seq(CaseRecords), NEW reply \in CaseReplies \cup {Own(cases[i]) : i \in DOMAIN cases}
  PROVE  /\ reply.scenario \in Nat /\ reply.type \in TypeNames /\ reply.procedures \in Nat
         /\ reply.number \in Nat \cup {Echo}
<1>1. ASSUME NEW c \in Drawings PROVE c \in CaseAnswerRecords
  <2>1. PICK answer \in CaseAnswers : \E k \in DOMAIN answer : c = answer[k]
    BY DEF Drawings
  <2>2. answer \in Seq(CaseAnswerRecords)
    BY TsAssumption
  <2> QED BY <2>1, <2>2
<1>2. CASE reply \in Drawings
  BY <1>1, <1>2 DEF CaseAnswerRecords
<1>3. CASE \E c \in Drawings : reply = [c EXCEPT !.number = Echo]
  <2>1. PICK c \in Drawings : reply = [c EXCEPT !.number = Echo]
    BY <1>3
  <2>2. c \in CaseAnswerRecords
    BY <1>1
  <2> QED BY <2>1, <2>2 DEF CaseAnswerRecords
<1>4. CASE \E i \in DOMAIN cases : reply = Own(cases[i])
  <2>1. PICK i \in DOMAIN cases : reply = Own(cases[i])
    BY <1>4
  <2>2. cases[i] \in CaseRecords
    OBVIOUS
  <2> QED BY <2>1, <2>2 DEF Own, CaseRecords
<1> QED BY <1>2, <1>3, <1>4 DEF CaseReplies

\* A refined case has the id it had, or the number the answer has, or its place.
RefinedRaw(id, place, number) ==
  IF number = Echo THEN Whole(id) ELSE <<NumberOr(number, place)>>

LEMMA RefinedCaseHas ==
  ASSUME NEW case \in CaseRecords, NEW place \in Nat, NEW reply,
         reply.scenario \in Nat, reply.type \in TypeNames, reply.procedures \in Nat,
         reply.number \in Nat \cup {Echo}
  PROVE  /\ RefinedCase(case, place, reply) \in CaseRecords
         /\ RefinedCase(case, place, reply).id.raw = RefinedRaw(case.id, place, reply.number)
<1>1. CASE reply.number = Echo
  <2> DEFINE id == [prefix |-> 1, raw |-> Whole(case.id)]
  <2>1. RefinedCase(case, place, reply) = Filled(reply, id, 1)
    BY <1>1 DEF RefinedCase, Prefixed
  <2>2. case.id.prefix \in Nat /\ case.id.raw \in Seq(Nat)
    BY DEF CaseRecords, CaseIds
  <2>3. Whole(case.id) \in Seq(Nat)
    BY <2>2 DEF Whole
  <2>4. id \in CaseIds /\ id.raw = Whole(case.id)
    BY <2>3 DEF CaseIds
  <2> HIDE DEF id
  <2>5. IsFilled(RefinedCase(case, place, reply), id)
    BY <2>1, <2>4, FilledHas
  <2> QED BY <1>1, <2>4, <2>5 DEF IsFilled, RefinedRaw
<1>2. CASE reply.number # Echo
  <2>1. RefinedCase(case, place, reply) = NormalCase(reply, place, 1) /\ reply.number \in Nat
    BY <1>2 DEF RefinedCase
  <2>2. IsNormal(RefinedCase(case, place, reply), reply, place, 1)
    BY <2>1, NormalCaseHas
  <2> QED BY <1>2, <2>2 DEF IsNormal, RefinedRaw
<1> QED BY <1>1, <1>2

\* Unless the numbers that answers gave, kept or left to the agent may clash, refined cases
\* have different ids if the cases had.
LEMMA RefinedDiffer ==
  ASSUME NEW a \in CaseIds, NEW b \in CaseIds, a # b, Plain(a), Plain(b),
         NEW given, NEW i \in DOMAIN given, NEW k \in DOMAIN given, i # k,
         i \in Nat, k \in Nat, given[i] \in Nat \cup {Echo}, given[k] \in Nat \cup {Echo},
         ~MayClash(given)
  PROVE  RefinedRaw(a, i, given[i]) # RefinedRaw(b, k, given[k])
<1>1. /\ ~(given[i] > given[k] /\ given[k] <= 0)
      /\ ~(given[k] > given[i] /\ given[i] <= 0)
  BY DEF MayClash
<1>2. CASE given[i] = Echo
  <2>1. given[k] = Echo
    BY <1>1, <1>2 DEF Echo
  <2> QED BY <1>2, <2>1, WholeOnce DEF RefinedRaw
<1>3. CASE given[i] # Echo
  <2>1. given[i] \in Nat /\ given[k] \in Nat /\ given[k] # Echo
    BY <1>1, <1>3 DEF Echo
  <2>2. NumberOr(given[i], i) # NumberOr(given[k], k)
    BY <2>1, NumbersDiffer
  <2>3. <<NumberOr(given[i], i)>> # <<NumberOr(given[k], k)>>
    BY <2>2
  <2> QED BY <1>3, <2>1, <2>3 DEF RefinedRaw
<1> QED BY <1>2, <1>3

LEMMA RefineCasesKeeps ==
  ASSUME TsInv, RefineCases
  PROVE  TsInv'
<1> USE DEF TsInv
<1>1. PICK replies \in [DOMAIN cases -> CaseReplies \cup {Own(cases[i]) : i \in DOMAIN cases}] :
        /\ cases' = [i \in DOMAIN cases |-> RefinedCase(cases[i], i, replies[i])]
        /\ astray' = astray \cup
             Marks(MayClash([i \in DOMAIN cases |-> replies[i].number]), "id")
  BY DEF RefineCases
<1>2. /\ tsStage = "cases" /\ tsStage' = "steps" /\ cases # <<>>
      /\ UNCHANGED <<tsMode, scenarios, answered, steps, turn, heard>>
  BY DEF RefineCases
<1>3. /\ tsMode = "Y" /\ turn = 0 /\ answered = <<>> /\ scenarios # <<>>
      /\ cases \in Seq(CaseRecords)
  BY <1>2 DEF StageInv, TsTypes
<1> DEFINE given == [i \in DOMAIN cases |-> replies[i].number]
           Reworked(i) == RefinedCase(cases[i], i, replies[i])
<1>4. cases' = [i \in DOMAIN cases |-> Reworked(i)]
  BY <1>1
<1>5. ASSUME NEW i \in DOMAIN cases
      PROVE  /\ Reworked(i) \in CaseRecords /\ cases[i].id \in CaseIds /\ i \in Nat
             /\ Reworked(i).id.raw = RefinedRaw(cases[i].id, i, given[i])
             /\ i \in DOMAIN given /\ given[i] \in Nat \cup {Echo}
  <2>1. cases[i] \in CaseRecords /\ i \in Nat
    BY <1>3
  <2>2. replies[i] \in CaseReplies \cup {Own(cases[j]) : j \in DOMAIN cases}
    BY <1>1, Zenon
  <2>3. /\ replies[i].scenario \in Nat /\ replies[i].type \in TypeNames
        /\ replies[i].procedures \in Nat /\ replies[i].number \in Nat \cup {Echo}
    BY <1>3, <2>2, RepliesHave
  <2>4. /\ Reworked(i) \in CaseRecords
        /\ Reworked(i).id.raw = RefinedRaw(cases[i].id, i, replies[i].number)
    BY <2>1, <2>3, RefinedCaseHas
  <2>5. i \in DOMAIN given /\ given[i] = replies[i].number
    OBVIOUS
  <2>6. cases[i].id \in CaseIds
    BY <2>1 DEF CaseRecords
  <2> HIDE DEF Reworked, given
  <2> QED BY <2>1, <2>3, <2>4, <2>5, <2>6
<1> HIDE DEF Reworked
<1>6. Len(cases) \in Nat /\ Len(cases) # 0 /\ DOMAIN cases = 1 .. Len(cases)
  BY <1>2, <1>3
<1>7. cases' \in [1 .. Len(cases) -> CaseRecords] /\ DOMAIN cases' = DOMAIN cases
  BY <1>4, <1>5, <1>6
<1>8. cases' \in Seq(CaseRecords) /\ Len(cases') = Len(cases) /\ cases' # <<>>
  <2>1. cases' \in Seq(CaseRecords) /\ Len(cases') = Len(cases)
    BY <1>6, <1>7, SeqOfFunction
  <2> QED BY <1>6, <2>1
<1>81. "id" \in astray' \/ ("id" \notin astray /\ ~MayClash(given))
  BY <1>1 DEF Marks
<1>82. astray' \in SUBSET AstrayKinds /\ astray \subseteq astray'
  BY <1>1 DEF Marks, AstrayKinds, TsTypes
<1> HIDE DEF given
<1>9. "id" \notin astray' => DifferentIds(cases')
  <2>1. SUFFICES ASSUME "id" \notin astray', NEW i \in DOMAIN cases, NEW k \in DOMAIN cases, i # k
                 PROVE  cases'[i].id # cases'[k].id
    BY <1>7, Zenon DEF DifferentIds
  <2>2. cases[i].id # cases[k].id /\ ~MayClash(given)
    BY <1>81, <2>1 DEF IdInv, DifferentIds
  <2>3. Plain(cases[i].id) /\ Plain(cases[k].id)
    BY <1>2, <1>3 DEF IdInv
  <2>4. RefinedRaw(cases[i].id, i, given[i]) # RefinedRaw(cases[k].id, k, given[k])
    BY <1>5, <2>1, <2>2, <2>3, RefinedDiffer
  <2>5. cases'[i] = Reworked(i) /\ cases'[k] = Reworked(k)
    BY <1>4
  <2> QED BY <1>5, <2>4, <2>5, Zenon
<1>10. TsTypes'
  BY <1>2, <1>8, <1>82 DEF TsTypes, TsStages, CasesMade
<1>11. StageInv'
  <2>1. turn' < Len(cases')
    BY <1>2, <1>3, <1>6, <1>8
  <2> QED BY <1>2, <1>3, <1>8, <2>1 DEF StageInv, CaseLoops, CasesMade, StepsMade
<1>12. TraceInv' /\ VerdictInv' /\ CaseInv'
  BY <1>2, <1>3 DEF TraceInv, VerdictInv, CaseInv, CasesMade
<1>13. StepInv'
  <2>1. astray' = {} => DifferentSteps(steps')
    BY <1>2, <1>82 DEF StepInv
  <2> QED BY <1>2, <1>3, <2>1 DEF StepInv
<1>14. IdInv'
  BY <1>2, <1>3, <1>9, NoneTested DEF IdInv
<1> QED BY <1>10, <1>11, <1>12, <1>13, <1>14

LEMMA RefineStepsKeeps ==
  ASSUME TsInv, RefineSteps
  PROVE  TsInv'
<1> USE DEF TsInv
<1>1. CASE RewriteStep /\ UNCHANGED tsStage
  BY <1>1, RewritingKeeps DEF RefineSteps
<1>2. CASE /\ steps' = IF steps = <<>> THEN StepForEach ELSE steps
           /\ tsStage' = "types" /\ UNCHANGED <<heard, astray>>
  <2>1. /\ tsStage = "steps" /\ tsStage' = "types" /\ tsMode = "Y"
        /\ UNCHANGED <<tsMode, scenarios, answered, cases, turn, heard, astray>>
        /\ cases \in Seq(CaseRecords) /\ cases # <<>>
    BY <1>2 DEF RefineSteps, StageInv, TsTypes, CasesMade
  <2>2. /\ steps' \in Seq(StepRecords) /\ steps' # <<>>
        /\ DifferentSteps(steps) => DifferentSteps(steps')
    BY <1>2, <2>1, StepForEachHas DEF TsTypes
  <2>3. TsTypes' /\ StageInv'
    BY <2>1, <2>2 DEF TsTypes, TsStages, StageInv, CaseLoops, CasesMade, StepsMade
  <2>4. TraceInv' /\ VerdictInv' /\ CaseInv'
    BY <2>1 DEF TraceInv, VerdictInv, CaseInv
  <2>5. StepInv' /\ IdInv'
    BY <2>1, <2>2 DEF StepInv, IdInv
  <2> QED BY <2>3, <2>4, <2>5
<1> QED BY <1>1, <1>2 DEF RefineSteps

LEMMA GuessTypesKeeps ==
  ASSUME TsInv, GuessTypes
  PROVE  TsInv'
<1> USE DEF TsInv
<1>1. PICK types \in [DOMAIN cases -> {"NORMAL", "EXCEPTION", "OTHER"}] :
        cases' = [i \in DOMAIN cases |-> [cases[i] EXCEPT !.type = types[i]]]
  BY DEF GuessTypes
<1>2. /\ tsStage = "types" /\ tsStage' = "check" /\ tsMode = "Y"
      /\ UNCHANGED <<tsMode, scenarios, answered, steps, turn, heard, astray>>
      /\ cases \in Seq(CaseRecords) /\ cases # <<>>
  BY DEF GuessTypes, StageInv, TsTypes, CasesMade
<1> DEFINE Recast(i) == [cases[i] EXCEPT !.type = types[i]]
<1>3. ASSUME NEW i \in DOMAIN cases PROVE Recast(i) \in CaseRecords /\ Recast(i).id = cases[i].id
  <2>1. types[i] \in TypeNames
    <3>1. types[i] \in {"NORMAL", "EXCEPTION", "OTHER"}
      BY <1>1, Zenon
    <3> QED BY <3>1 DEF TypeNames
  <2>2. cases[i] \in CaseRecords
    BY <1>2
  <2> QED BY <2>1, <2>2 DEF CaseRecords
<1>4. cases' = [i \in DOMAIN cases |-> Recast(i)]
  BY <1>1
<1> HIDE DEF Recast
<1>5. Len(cases) \in Nat /\ Len(cases) # 0 /\ DOMAIN cases = 1 .. Len(cases)
  BY <1>2
<1>6. cases' \in [1 .. Len(cases) -> CaseRecords] /\ DOMAIN cases' = DOMAIN cases
  BY <1>3, <1>4, <1>5
<1>7. cases' \in Seq(CaseRecords) /\ cases' # <<>>
  <2>1. cases' \in Seq(CaseRecords) /\ Len(cases') = Len(cases)
    BY <1>5, <1>6, SeqOfFunction
  <2> QED BY <1>5, <2>1
<1>8. \A i \in DOMAIN cases : cases'[i].id = cases[i].id
  BY <1>3, <1>4
<1>9. DifferentIds(cases) => DifferentIds(cases')
  BY <1>6, <1>8, Zenon DEF DifferentIds
<1>10. TsTypes' /\ StageInv'
  BY <1>2, <1>7 DEF TsTypes, TsStages, StageInv, CaseLoops, CasesMade, StepsMade
<1>11. TraceInv' /\ VerdictInv' /\ CaseInv'
  BY <1>2 DEF TraceInv, VerdictInv, CaseInv
<1>12. StepInv' /\ IdInv'
  BY <1>2, <1>9 DEF StepInv, IdInv
<1> QED BY <1>10, <1>11, <1>12

LEMMA CheckTsKeeps ==
  ASSUME TsInv, CheckTs
  PROVE  TsInv'
<1> USE DEF TsInv
<1>1. /\ tsStage = "check" /\ tsStage' = IF TsPasses THEN "validated" ELSE "rejected"
      /\ UNCHANGED <<tsMode, scenarios, answered, cases, steps, turn, heard, astray>>
  BY DEF CheckTs
<1>2. TsTypes' /\ StageInv'
  BY <1>1 DEF TsTypes, TsStages, StageInv, CaseLoops, CasesMade, StepsMade
<1>3. TraceInv' /\ CaseInv'
  BY <1>1 DEF TraceInv, CaseInv, CasesMade
<1>4. StepInv' /\ IdInv'
  BY <1>1 DEF StepInv, IdInv, CasesMade, StepsMade
<1>5. ASSUME tsMode = "N" PROVE {"NORMAL", "EXCEPTION"} \subseteq TypesOf(cases)
  <2>1. Tested(cases, Len(scenarios)) /\ scenarios # <<>> /\ scenarios \in Seq(SUBSET Nat)
    BY <1>1, <1>5 DEF CaseInv, CasesMade, StageInv, TsTypes
  <2>2. 1 \in 1 .. Len(scenarios)
    BY <2>1
  <2>3. \A c \in DOMAIN CaseTypes : \E i \in DOMAIN cases : cases[i].type = CaseTypes[c]
    BY <2>1, <2>2, Zenon DEF Tested
  <2> QED BY <2>3, TsConstants DEF TypesOf
<1>6. VerdictInv'
  <2>1. SUFFICES ASSUME ~TsPasses, astray = {}
                 PROVE  tsMode = "Y" /\ ~({"NORMAL", "EXCEPTION"} \subseteq TypesOf(cases))
    BY <1>1 DEF VerdictInv, TypesOf
  <2>2. scenarios # <<>> /\ cases # <<>> /\ steps # <<>>
    BY <1>1 DEF StageInv, CasesMade, StepsMade
  <2>3. DifferentIds(cases) /\ DifferentSteps(steps)
    BY <2>1 DEF IdInv, StepInv
  <2>4. tsMode = "N" => 1 .. TsReqs \subseteq Traced(scenarios)
    BY <1>1 DEF TraceInv
  <2>5. ~({"NORMAL", "EXCEPTION"} \subseteq TypesOf(cases))
    BY <2>1, <2>2, <2>3, <2>4, Zenon DEF TsPasses
  <2>6. tsMode # "N"
    BY <1>5, <2>5
  <2> QED BY <2>5, <2>6 DEF TsTypes
<1> QED BY <1>2, <1>3, <1>4, <1>6

LEMMA StutteringKeepsTs ==
  ASSUME TsInv, UNCHANGED tsVars
  PROVE  TsInv'
<1>1. TsTypes' /\ StageInv'
  BY DEF TsInv, tsVars, TsTypes, StageInv
<1>2. TraceInv' /\ CaseInv' /\ VerdictInv'
  BY DEF TsInv, tsVars, TraceInv, CaseInv, VerdictInv, Traced, TypesOf
<1>3. IdInv' /\ StepInv'
  BY DEF TsInv, tsVars, IdInv, StepInv
<1> QED BY <1>1, <1>2, <1>3 DEF TsInv

-----------------------------------------------------------------------------
(* The theorems about the test document *)

\* What the agent for test scenarios has made is, in every state, what its stage says:
\* cases for each scenario it has come to, of every type; different ids unless what models
\* wrote and left to the agent may clash; and a step for each case it has come to unless a
\* model named another case.
THEOREM TestsInvariant == TsSpec => []TsInv
<1>1. TsBegun => TsInv
  BY TsInitially
<1>2. TsInv /\ [TsNext]_tsVars => TsInv'
  <2>1. SUFFICES ASSUME TsInv, [TsNext]_tsVars PROVE TsInv'
    OBVIOUS
  <2>2. CASE TsNext
    BY <2>1, <2>2, GenerateScenariosKeeps, AskForCasesKeeps, FallbackCasesKeeps,
       NormalizeCasesKeeps, CoverTypesKeeps, FallbackStepsKeeps, GenerateStepsKeeps,
       DetailStepsKeeps, ApplyRulesKeeps, RefineScenariosKeeps, RefineCasesKeeps,
       RefineStepsKeeps, GuessTypesKeeps, CheckTsKeeps DEF TsNext
  <2>3. CASE UNCHANGED tsVars
    BY <2>1, <2>3, StutteringKeepsTs
  <2> QED BY <2>1, <2>2, <2>3
<1> QED BY <1>1, <1>2, PTL DEF TsSpec

\* Whatever scenarios, cases, steps, ids and numbers the models write, and however often
\* they fail: a new document tests every requirement; ids of cases clash only where a model
\* wrote one twice, or where some were written or kept and others left to the agent; and
\* nothing is refused but for such a clash, a case a model named, or an update's guesses.
THEOREM EverythingIsTestedAlways == TsSpec => []EverythingIsTested
<1>1. TsInv => EverythingIsTested
  <2>1. SUFFICES ASSUME TsInv PROVE EverythingIsTested
    OBVIOUS
  <2> USE DEF TsInv
  <2>2. ASSUME tsMode = "N", tsStage \in {"check", "validated", "rejected"}
        PROVE  /\ 1 .. TsReqs \subseteq Traced(scenarios)
               /\ Tested(cases, Len(scenarios))
               /\ "case" \notin astray => Stepped(steps, cases, Len(cases))
               /\ DOMAIN scenarios = 1 .. Len(scenarios) /\ DOMAIN cases = 1 .. Len(cases)
    <3>1. tsStage \in CasesMade /\ tsStage \in StepsMade /\ tsStage # "scenarios"
      BY <2>2 DEF CasesMade, StepsMade
    <3>2. DOMAIN scenarios = 1 .. Len(scenarios) /\ DOMAIN cases = 1 .. Len(cases)
      BY <2>1 DEF TsTypes
    <3> QED BY <2>1, <2>2, <3>1, <3>2 DEF TraceInv, CaseInv, StepInv
  <2>3. ASSUME tsMode = "N", tsStage \in {"check", "validated", "rejected"}
        PROVE  /\ 1 .. TsReqs \subseteq Traced(scenarios)
               /\ \A i \in DOMAIN cases : cases[i].scenario \in DOMAIN scenarios
               /\ \A s \in DOMAIN scenarios : \A t \in DOMAIN CaseTypes :
                    \E i \in DOMAIN cases : cases[i].scenario = s /\ cases[i].type = CaseTypes[t]
               /\ "case" \notin astray =>
                    \A i \in DOMAIN cases : \E k \in DOMAIN steps : steps[k].case = cases[i].id
    BY <2>2, <2>3, Zenon DEF Tested, Stepped
  <2>4. tsStage = "rejected" =>
          \/ astray # {}
          \/ tsMode = "Y" /\ ~({"NORMAL", "EXCEPTION"} \subseteq TypesOf(cases))
    BY <2>1 DEF VerdictInv
  <2>5. "id" \notin astray => DifferentIds(cases)
    BY <2>1 DEF IdInv
  <2> QED BY <2>3, <2>4, <2>5, Zenon DEF EverythingIsTested
<1> QED BY <1>1, TestsInvariant, PTL

=============================================================================
