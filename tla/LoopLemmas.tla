----------------------------- MODULE LoopLemmas -----------------------------
(***************************************************************************)
(* Induction over a loop, once for all: what its turns keep, it keeps.     *)
(* The provers cannot instantiate a theorem that takes an operator, but    *)
(* they can cite a lemma of an instance of this module, where Turn and     *)
(* Keeps are the operators of the loop in question.                        *)
(***************************************************************************)
EXTENDS Loops, NaturalLemmas

\* Keeps(a, n, x): what is to hold of x after n turns.
CONSTANT Keeps(_, _, _)

\* g[k] is what there is after k turns, for the first n of them.
Goes(g, first, s, n) ==
  /\ DOMAIN g = 0 .. n
  /\ g[0] = first
  /\ \A k \in 1 .. n : g[k] = Turn(g[k - 1], s[k])

\* A run of n turns goes on for one more.
LEMMA GoesOn ==
  ASSUME NEW first, NEW s, NEW n \in Nat, NEW g, Goes(g, first, s, n)
  PROVE  \E h : Goes(h, first, s, n + 1)
<1> DEFINE h == [k \in 0 .. n + 1 |-> IF k \in 0 .. n THEN g[k] ELSE Turn(g[n], s[n + 1])]
<1>1. DOMAIN h = 0 .. n + 1 /\ (\A k \in 0 .. n : h[k] = g[k]) /\ h[n + 1] = Turn(g[n], s[n + 1])
  <2>1. n + 1 \in 0 .. n + 1 /\ n + 1 \notin 0 .. n /\ \A k \in 0 .. n : k \in 0 .. n + 1
    OBVIOUS
  <2> QED
    BY <2>1
<1> HIDE DEF h
<1>2. 0 \in 0 .. n /\ n \in 0 .. n
  OBVIOUS
<1>3. ASSUME NEW k \in 1 .. n + 1
      PROVE  h[k] = Turn(h[k - 1], s[k])
  <2>1. CASE k \in 1 .. n
    <3>1. k \in 0 .. n /\ k - 1 \in 0 .. n
      BY <2>1
    <3> QED
      BY <1>1, <2>1, <3>1 DEF Goes
  <2>2. CASE k = n + 1
    <3>1. k - 1 = n
      BY <2>2
    <3> QED
      BY <1>1, <1>2, <2>2, <3>1
  <2> QED
    BY <2>1, <2>2
<1>4. h[0] = first
  BY <1>1, <1>2 DEF Goes
<1> QED
  BY <1>1, <1>3, <1>4 DEF Goes

\* There is a run of any number of turns.
LEMMA GoesSomehow ==
  ASSUME NEW first, NEW s, NEW n \in Nat
  PROVE  \E g : Goes(g, first, s, n)
<1> DEFINE T == {m \in Nat : ~\E g : Goes(g, first, s, m)}
<1> SUFFICES T = {}
  OBVIOUS
<1> SUFFICES ASSUME T # {} PROVE FALSE
  OBVIOUS
<1>1. PICK m \in T : \A k \in T : m <= k
  <2>1. T \in SUBSET Nat
    OBVIOUS
  <2> HIDE DEF T
  <2> QED
    BY <2>1, LeastNatural
<1>2. m # 0
  <2> DEFINE g == [k \in 0 .. 0 |-> first]
  <2>1. DOMAIN g = 0 .. 0 /\ g[0] = first /\ \A k \in 1 .. 0 : FALSE
    OBVIOUS
  <2> HIDE DEF g
  <2>2. Goes(g, first, s, 0)
    BY <2>1 DEF Goes
  <2> QED
    BY <2>2
<1>3. m \in Nat /\ m - 1 \in Nat /\ m - 1 + 1 = m /\ ~(m <= m - 1)
  BY <1>2
<1>4. m - 1 \notin T
  BY <1>1, <1>3
<1>5. PICK g : Goes(g, first, s, m - 1)
  BY <1>3, <1>4
<1>6. \E h : Goes(h, first, s, m - 1 + 1)
  BY <1>3, <1>5, GoesOn
<1> QED
  BY <1>3, <1>6

\* Two runs agree as far as both go.
LEMMA GoesOneWay ==
  ASSUME NEW first, NEW s, NEW n \in Nat, NEW m \in Nat, NEW g, NEW h,
         Goes(g, first, s, n), Goes(h, first, s, m), NEW k \in 0 .. n, k \in 0 .. m
  PROVE  g[k] = h[k]
<1> DEFINE T == {i \in Nat : i \in 0 .. n /\ i \in 0 .. m /\ g[i] # h[i]}
<1> SUFFICES ASSUME T # {} PROVE FALSE
  OBVIOUS
<1>1. PICK i \in T : \A j \in T : i <= j
  <2>1. T \in SUBSET Nat
    OBVIOUS
  <2> HIDE DEF T
  <2> QED
    BY <2>1, LeastNatural
<1>2. i # 0
  BY DEF Goes
<1>3. i \in 1 .. n /\ i \in 1 .. m /\ i - 1 \in 0 .. n /\ i - 1 \in 0 .. m /\ i - 1 \in Nat /\ ~(i <= i - 1)
  BY <1>2
<1>4. g[i - 1] = h[i - 1]
  BY <1>1, <1>3
<1>5. g[i] = Turn(g[i - 1], s[i]) /\ h[i] = Turn(h[i - 1], s[i])
  BY <1>3 DEF Goes
<1> QED
  BY <1>4, <1>5

\* A run of n turns.
Walk(first, s, n) == CHOOSE g : Goes(g, first, s, n)

\* The recursion of Turns has a solution, so that Turns is one.
LEMMA TurnsAre ==
  ASSUME NEW first, NEW s
  PROVE  /\ Turns(first, s)[0] = first
         /\ \A n \in Nat \ {0} : Turns(first, s)[n] = Turn(Turns(first, s)[n - 1], s[n])
<1> DEFINE Def(f) == [n \in Nat |-> IF n = 0 THEN first ELSE Turn(f[n - 1], s[n])]
           t == [n \in Nat |-> Walk(first, s, n)[n]]
<1>1. ASSUME NEW n \in Nat PROVE Goes(Walk(first, s, n), first, s, n)
  BY GoesSomehow DEF Walk
<1>2. t[0] = first
  BY <1>1 DEF Goes
<1>3. ASSUME NEW n \in Nat \ {0} PROVE t[n] = Turn(t[n - 1], s[n])
  <2>1. n \in Nat /\ n - 1 \in Nat /\ n \in 1 .. n /\ n - 1 \in 0 .. n /\ n - 1 \in 0 .. n - 1
    OBVIOUS
  <2>2. Walk(first, s, n)[n - 1] = Walk(first, s, n - 1)[n - 1]
    BY <1>1, <2>1, GoesOneWay
  <2>3. Walk(first, s, n)[n] = Turn(Walk(first, s, n)[n - 1], s[n])
    BY <1>1, <2>1 DEF Goes
  <2> QED
    BY <2>1, <2>2, <2>3
<1>4. DOMAIN t = Nat /\ t = [n \in Nat |-> t[n]]
  OBVIOUS
<1> HIDE DEF t
<1>5. t = Def(t)
  BY <1>2, <1>3, <1>4
<1>6. Turns(first, s) = CHOOSE f : f = Def(f)
  BY DEF Turns
<1> DEFINE u == Turns(first, s)
<1>7. u = Def(u)
  BY <1>5, <1>6
<1> HIDE DEF u
<1>8. u[0] = first /\ \A n \in Nat \ {0} : u[n] = Turn(u[n - 1], s[n])
  BY <1>7
<1> QED
  BY <1>8 DEF u

\* What holds of the first and is kept by every turn holds at the end.  a is whatever else it is
\* about: a parameter, so that one instance serves every value of it.
LEMMA LoopKeeps ==
  ASSUME NEW a, NEW first, NEW s, Len(s) \in Nat, Keeps(a, 0, first),
         \A n, x : n \in 1 .. Len(s) /\ Keeps(a, n - 1, x) => Keeps(a, n, Turn(x, s[n]))
  PROVE  Keeps(a, Len(s), Loop(first, s))
<1> DEFINE u == Turns(first, s)
           T == {n \in Nat : n <= Len(s) /\ ~Keeps(a, n, u[n])}
<1>1. u[0] = first /\ \A n \in Nat \ {0} : u[n] = Turn(u[n - 1], s[n])
  BY TurnsAre
<1> HIDE DEF u
<1>2. T = {}
  <2> SUFFICES ASSUME T # {} PROVE FALSE
    OBVIOUS
  <2>1. PICK m \in T : \A k \in T : m <= k
    <3>1. T \in SUBSET Nat
      OBVIOUS
    <3> HIDE DEF T
    <3> QED
      BY <3>1, LeastNatural
  <2>2. m # 0
    BY <1>1
  <2>3. m \in Nat \ {0} /\ m - 1 \in Nat /\ m - 1 <= Len(s) /\ ~(m <= m - 1) /\ m \in 1 .. Len(s)
    BY <2>2
  <2>4. Keeps(a, m - 1, u[m - 1])
    BY <2>1, <2>3
  <2>5. Keeps(a, m, Turn(u[m - 1], s[m]))
    BY <2>3, <2>4
  <2> QED
    BY <1>1, <2>3, <2>5
<1> QED
  BY <1>2 DEF Loop, u

=============================================================================
