---------------------------- MODULE Evidence_proofs ----------------------------
(***************************************************************************)
(* Proofs about a version's way from its evidence to the answer of the     *)
(* gate, and about the gates that let a model act, for any evidence.  What *)
(* the properties say of an answer follows from Scored: the evidence is    *)
(* readable, and the answer is the one to it.  What they say of a gate     *)
(* follows from GInv: it decides on evidence of its kind.  The rest is     *)
(* about the operators: sums over signals and metrics, transforms, caps,   *)
(* where a signal comes from, the plan, partial scores, weights and        *)
(* thresholds of the use cases, and the chains of a cluster of alerts.     *)
(***************************************************************************)
EXTENDS Evidence, Gates, TLAPS, FiniteSetTheorems, WellFoundedInduction

Pick(s) == CHOOSE x \in s : TRUE

(* Induction over the naturals and over the subsets of a finite set, for a *)
(* set of those that have what is to be shown.                             *)
LEMMA NatInd ==
    ASSUME NEW G, 0 \in G, \A n \in Nat : n \in G => n + 1 \in G
    PROVE  Nat \subseteq G
<1> DEFINE T == Nat \ G
<1> SUFFICES ASSUME T # {} PROVE FALSE
  OBVIOUS
<1>1. PICK x \in T : \A y \in T : ~ (<<y, x>> \in OpToRel(<, Nat))
  <2>1. T \subseteq Nat
    OBVIOUS
  <2> HIDE DEF T
  <2> QED
    BY <2>1, WFMin, NatLessThanWellFounded
<1>2. x # 0 /\ x \in Nat
  OBVIOUS
<1>3. x - 1 \in Nat /\ x - 1 < x
  BY <1>2
<1>4. <<x - 1, x>> \in OpToRel(<, Nat)
  BY <1>2, <1>3 DEF OpToRel
<1>5. x - 1 \in G
  BY <1>1, <1>3, <1>4
<1>6. (x - 1) + 1 \in G
  BY <1>3, <1>5
<1>7. (x - 1) + 1 = x
  BY <1>2
<1> QED
  BY <1>6, <1>7

LEMMA SubsetInd ==
    ASSUME NEW S, IsFiniteSet(S), NEW G, {} \in G,
           \A s \in SUBSET S : s # {} /\ s \ {Pick(s)} \in G => s \in G
    PROVE  SUBSET S \subseteq G
<1> DEFINE H == {n \in Nat : \A s \in SUBSET S : Cardinality(s) = n => s \in G}
<1>1. \A s \in SUBSET S : IsFiniteSet(s) /\ Cardinality(s) \in Nat
  BY FS_Subset, FS_CardinalityType
<1>2. 0 \in H
  BY <1>1, FS_EmptySet
<1>3. ASSUME NEW n \in Nat, n \in H PROVE n + 1 \in H
  <2> SUFFICES ASSUME NEW s \in SUBSET S, Cardinality(s) = n + 1 PROVE s \in G
    BY <1>3
  <2>1. s # {}
    <3> SUFFICES ASSUME s = {} PROVE FALSE
      OBVIOUS
    <3>1. n + 1 = 0
      BY FS_EmptySet
    <3> QED
      BY <3>1
  <2>2. Pick(s) \in s
    BY <2>1 DEF Pick
  <2>3. Cardinality(s \ {Pick(s)}) = n
    BY <1>1, <2>2, FS_RemoveElement
  <2>4. s \ {Pick(s)} \in G
    BY <1>3, <2>3
  <2> QED
    BY <2>1, <2>4
<1>4. Nat \subseteq H
  <2> HIDE DEF H
  <2> QED
    BY <1>2, <1>3, NatInd
<1> QED
  BY <1>1, <1>4

-----------------------------------------------------------------------------
(* Sums.  SumFunction takes the elements of the domain in the order in     *)
(* which CHOOSE names them.                                                *)

Numeric(f, S) == \A x \in S : f[x] \in Int

(* g[s] is the sum of f over the subset s of S.                            *)
AddsUp(f, S, g) ==
    g = [s \in SUBSET S |-> IF s = {} THEN 0 ELSE f[Pick(s)] + g[s \ {Pick(s)}]]

Small(S, n) == {s \in SUBSET S : Cardinality(s) <= n}

LEMMA Picked == ASSUME NEW s, s # {} PROVE Pick(s) \in s
BY DEF Pick

LEMMA SmallerWithout ==
    ASSUME NEW S, IsFiniteSet(S), NEW n \in Nat, NEW s \in Small(S, n + 1), s # {}
    PROVE  s \ {Pick(s)} \in Small(S, n)
<1>1. IsFiniteSet(s) /\ Cardinality(s) \in Nat /\ s \in SUBSET S /\ Cardinality(s) <= n + 1
  BY FS_Subset, FS_CardinalityType DEF Small
<1>2. Cardinality(s \ {Pick(s)}) = Cardinality(s) - 1
  BY <1>1, Picked, FS_RemoveElement
<1> QED
  BY <1>1, <1>2 DEF Small

LEMMA SumExists ==
    ASSUME NEW f, NEW S, IsFiniteSet(S), Numeric(f, S)
    PROVE  \E g \in [SUBSET S -> Int] : AddsUp(f, S, g)
<1> DEFINE Good(n, h) ==
               \A s \in Small(S, n) :
                   h[s] = IF s = {} THEN 0 ELSE f[Pick(s)] + h[s \ {Pick(s)}]
           H == {n \in Nat : \E h \in [Small(S, n) -> Int] : Good(n, h)}
<1>1. 0 \in H
  <2>1. \A s \in Small(S, 0) : s = {}
    BY FS_Subset, FS_CardinalityType, FS_EmptySet DEF Small
  <2>2. [s \in Small(S, 0) |-> 0] \in [Small(S, 0) -> Int]
    OBVIOUS
  <2>3. Good(0, [s \in Small(S, 0) |-> 0])
    BY <2>1
  <2> QED
    BY <2>2, <2>3
<1>2. ASSUME NEW n \in Nat, n \in H PROVE n + 1 \in H
  <2>1. PICK h \in [Small(S, n) -> Int] : Good(n, h)
    BY <1>2
  <2> DEFINE Next1(s) == IF s = {} THEN 0 ELSE f[Pick(s)] + h[s \ {Pick(s)}]
             k == [s \in Small(S, n + 1) |-> Next1(s)]
  <2>2. ASSUME NEW s \in Small(S, n + 1), s # {}
        PROVE  /\ s \ {Pick(s)} \in Small(S, n) /\ h[s \ {Pick(s)}] \in Int
               /\ f[Pick(s)] \in Int
    <3>1. s \ {Pick(s)} \in Small(S, n)
      BY <2>2, SmallerWithout
    <3>2. Pick(s) \in S
      BY <2>2, Picked DEF Small
    <3> QED
      BY <3>1, <3>2 DEF Numeric
  <2>3. k \in [Small(S, n + 1) -> Int]
    BY <2>2
  <2>4. \A s \in Small(S, n) : s \in Small(S, n + 1) /\ k[s] = h[s]
    <3> SUFFICES ASSUME NEW s \in Small(S, n) PROVE s \in Small(S, n + 1) /\ k[s] = h[s]
      OBVIOUS
    <3>1. s \in Small(S, n + 1)
      BY FS_Subset, FS_CardinalityType DEF Small
    <3> QED
      BY <2>1, <3>1
  <2>5. Good(n + 1, k)
    <3> SUFFICES ASSUME NEW s \in Small(S, n + 1)
                 PROVE  k[s] = IF s = {} THEN 0 ELSE f[Pick(s)] + k[s \ {Pick(s)}]
      OBVIOUS
    <3>1. CASE s = {}
      BY <3>1
    <3>2. CASE s # {}
      <4>1. k[s \ {Pick(s)}] = h[s \ {Pick(s)}]
        BY <2>2, <2>4, <3>2
      <4>2. k[s] = f[Pick(s)] + h[s \ {Pick(s)}]
        BY <3>2
      <4> QED
        BY <3>2, <4>1, <4>2
    <3> QED
      BY <3>1, <3>2
  <2> HIDE DEF k, Good
  <2>6. \E m \in [Small(S, n + 1) -> Int] : Good(n + 1, m)
    BY <2>3, <2>5
  <2>7. n + 1 \in Nat
    OBVIOUS
  <2> QED
    BY <2>6, <2>7
<1>3. Nat \subseteq H
  <2> HIDE DEF H
  <2> QED
    BY <1>1, <1>2, NatInd
<1>4. Cardinality(S) \in H
  BY <1>3, FS_CardinalityType
<1>5. PICK h \in [Small(S, Cardinality(S)) -> Int] : Good(Cardinality(S), h)
  BY <1>4
<1>6. Small(S, Cardinality(S)) = SUBSET S
  BY FS_Subset DEF Small
<1>7. h = [s \in SUBSET S |-> IF s = {} THEN 0 ELSE f[Pick(s)] + h[s \ {Pick(s)}]]
  BY <1>5, <1>6
<1> QED
  BY <1>5, <1>6, <1>7 DEF AddsUp

LEMMA SumsAgree ==
    ASSUME NEW S, IsFiniteSet(S), NEW U, S \subseteq U, NEW f, NEW h, \A x \in S : f[x] = h[x],
           NEW g, AddsUp(f, S, g), NEW k, AddsUp(h, U, k)
    PROVE  \A s \in SUBSET S : g[s] = k[s]
<1> DEFINE G == {s \in SUBSET S : g[s] = k[s]}
<1>1. /\ \A s \in SUBSET S : g[s] = IF s = {} THEN 0 ELSE f[Pick(s)] + g[s \ {Pick(s)}]
      /\ \A s \in SUBSET U : k[s] = IF s = {} THEN 0 ELSE h[Pick(s)] + k[s \ {Pick(s)}]
  <2>1. \A s \in SUBSET S : g[s] = IF s = {} THEN 0 ELSE f[Pick(s)] + g[s \ {Pick(s)}]
    BY Zenon DEF AddsUp
  <2>2. \A s \in SUBSET U : k[s] = IF s = {} THEN 0 ELSE h[Pick(s)] + k[s \ {Pick(s)}]
    BY Zenon DEF AddsUp
  <2> QED
    BY <2>1, <2>2
<1>2. {} \in G
  BY <1>1
<1>3. ASSUME NEW s \in SUBSET S, s # {}, s \ {Pick(s)} \in G PROVE s \in G
  <2>1. Pick(s) \in s /\ s \in SUBSET U
    BY <1>3, Picked
  <2>2. g[s] = f[Pick(s)] + g[s \ {Pick(s)}] /\ k[s] = h[Pick(s)] + k[s \ {Pick(s)}]
    BY <1>1, <1>3, <2>1
  <2>3. f[Pick(s)] = h[Pick(s)] /\ g[s \ {Pick(s)}] = k[s \ {Pick(s)}]
    BY <1>3, <2>1
  <2> QED
    BY <2>2, <2>3
<1>4. SUBSET S \subseteq G
  <2> HIDE DEF G
  <2> QED
    BY <1>2, <1>3, SubsetInd
<1> QED
  BY <1>4

LEMMA SumIs ==
    ASSUME NEW f, NEW S, IsFiniteSet(S), Numeric(f, S)
    PROVE  \E g \in [SUBSET S -> Int] : AddsUp(f, S, g) /\ SumFunctionOnSet(f, S) = g[S]
<1> DEFINE g == CHOOSE x : x = [s \in SUBSET S |-> IF s = {} THEN 0
                                                     ELSE f[Pick(s)] + x[s \ {Pick(s)}]]
<1>1. PICK k \in [SUBSET S -> Int] : AddsUp(f, S, k)
  BY SumExists
<1>2. g = [s \in SUBSET S |-> IF s = {} THEN 0 ELSE f[Pick(s)] + g[s \ {Pick(s)}]]
  BY <1>1, Zenon DEF AddsUp
<1>3. SumFunctionOnSet(f, S) = g[S]
  BY DEF SumFunctionOnSet, FoldFunctionOnSet, MapThenFoldSet, Pick
<1> HIDE DEF g
<1>4. AddsUp(f, S, g)
  BY <1>2, Zenon DEF AddsUp
<1>5. \A s \in SUBSET S : g[s] = k[s]
  BY <1>1, <1>4, SumsAgree
<1>6. g \in [SUBSET S -> Int]
  BY <1>1, <1>2, <1>5
<1> QED
  BY <1>3, <1>4, <1>6

LEMMA SumEmpty == ASSUME NEW f PROVE SumFunctionOnSet(f, {}) = 0
<1>1. Numeric(f, {}) /\ IsFiniteSet({})
  BY FS_EmptySet DEF Numeric
<1>2. PICK g \in [SUBSET {} -> Int] : AddsUp(f, {}, g) /\ SumFunctionOnSet(f, {}) = g[{}]
  BY <1>1, SumIs
<1>3. g[{}] = 0
  BY <1>2 DEF AddsUp
<1> QED
  BY <1>2, <1>3

LEMMA SumStep ==
    ASSUME NEW f, NEW S, IsFiniteSet(S), Numeric(f, S), S # {}
    PROVE  /\ Pick(S) \in S /\ IsFiniteSet(S \ {Pick(S)}) /\ Numeric(f, S \ {Pick(S)})
           /\ SumFunctionOnSet(f, S) = f[Pick(S)] + SumFunctionOnSet(f, S \ {Pick(S)})
<1> DEFINE R == S \ {Pick(S)}
<1>1. Pick(S) \in S /\ IsFiniteSet(R) /\ R \subseteq S
  BY Picked, FS_RemoveElement
<1>2. Numeric(f, R)
  BY DEF Numeric
<1>3. PICK g \in [SUBSET S -> Int] : AddsUp(f, S, g) /\ SumFunctionOnSet(f, S) = g[S]
  BY SumIs
<1>4. PICK k \in [SUBSET R -> Int] : AddsUp(f, R, k) /\ SumFunctionOnSet(f, R) = k[R]
  <2> HIDE DEF R
  <2> QED
    BY <1>1, <1>2, SumIs
<1>5. k[R] = g[R]
  <2> HIDE DEF R
  <2>1. \A s \in SUBSET R : k[s] = g[s]
    BY <1>1, <1>3, <1>4, SumsAgree
  <2> QED
    BY <2>1
<1>6. g[S] = f[Pick(S)] + g[R]
  <2>1. \A s \in SUBSET S : g[s] = IF s = {} THEN 0 ELSE f[Pick(s)] + g[s \ {Pick(s)}]
    BY <1>3, Zenon DEF AddsUp
  <2> QED
    BY <2>1
<1> QED
  BY <1>1, <1>2, <1>3, <1>4, <1>5, <1>6

LEMMA SumType ==
    ASSUME NEW f, NEW S, IsFiniteSet(S), Numeric(f, S)
    PROVE  SumFunctionOnSet(f, S) \in Int
<1>1. PICK g \in [SUBSET S -> Int] : AddsUp(f, S, g) /\ SumFunctionOnSet(f, S) = g[S]
  BY SumIs
<1>2. S \in SUBSET S
  OBVIOUS
<1> QED
  BY <1>1, <1>2

(* Induction over the order of summation, for relations of three sums.     *)
LEMMA SumLinear ==
    ASSUME NEW S, IsFiniteSet(S), NEW f, NEW h, NEW d, Numeric(h, S), Numeric(d, S),
           \A x \in S : f[x] = h[x] + d[x]
    PROVE  SumFunctionOnSet(f, S) = SumFunctionOnSet(h, S) + SumFunctionOnSet(d, S)
<1> DEFINE T(g, s) == SumFunctionOnSet(g, s)
           G == {s \in SUBSET S : T(f, s) = T(h, s) + T(d, s)}
<1>1. {} \in G
  BY SumEmpty
<1>2. ASSUME NEW s \in SUBSET S, s # {}, s \ {Pick(s)} \in G PROVE s \in G
  <2>1. IsFiniteSet(s) /\ Numeric(f, s) /\ Numeric(h, s) /\ Numeric(d, s)
    BY FS_Subset DEF Numeric
  <2> DEFINE r == s \ {Pick(s)}
  <2>2. /\ T(f, s) = f[Pick(s)] + T(f, r)
        /\ T(h, s) = h[Pick(s)] + T(h, r)
        /\ T(d, s) = d[Pick(s)] + T(d, r)
        /\ Pick(s) \in S /\ IsFiniteSet(r) /\ Numeric(h, r) /\ Numeric(d, r)
    BY <1>2, <2>1, SumStep
  <2>3. T(h, r) \in Int /\ T(d, r) \in Int /\ h[Pick(s)] \in Int /\ d[Pick(s)] \in Int
    BY <2>2, SumType DEF Numeric
  <2>4. T(f, r) = T(h, r) + T(d, r) /\ f[Pick(s)] = h[Pick(s)] + d[Pick(s)]
    BY <1>2, <2>2
  <2> HIDE DEF T, r
  <2>5. T(f, s) = T(h, s) + T(d, s)
    BY <2>2, <2>3, <2>4
  <2> QED
    BY <2>5
<1>3. SUBSET S \subseteq G
  <2> HIDE DEF G
  <2> QED
    BY <1>1, <1>2, SubsetInd
<1> QED
  BY <1>3

LEMMA SumMonotone ==
    ASSUME NEW S, IsFiniteSet(S), NEW f, NEW h, Numeric(f, S), Numeric(h, S),
           \A x \in S : f[x] <= h[x]
    PROVE  SumFunctionOnSet(f, S) <= SumFunctionOnSet(h, S)
<1> DEFINE T(g, s) == SumFunctionOnSet(g, s)
           G == {s \in SUBSET S : T(f, s) <= T(h, s)}
<1>1. {} \in G
  BY SumEmpty
<1>2. ASSUME NEW s \in SUBSET S, s # {}, s \ {Pick(s)} \in G PROVE s \in G
  <2>1. IsFiniteSet(s) /\ Numeric(f, s) /\ Numeric(h, s)
    BY FS_Subset DEF Numeric
  <2> DEFINE r == s \ {Pick(s)}
  <2>2. /\ T(f, s) = f[Pick(s)] + T(f, r)
        /\ T(h, s) = h[Pick(s)] + T(h, r)
        /\ Pick(s) \in S /\ IsFiniteSet(r) /\ Numeric(f, r) /\ Numeric(h, r)
    BY <1>2, <2>1, SumStep
  <2>3. T(f, r) \in Int /\ T(h, r) \in Int /\ f[Pick(s)] \in Int /\ h[Pick(s)] \in Int
    BY <2>2, SumType DEF Numeric
  <2>4. T(f, r) <= T(h, r) /\ f[Pick(s)] <= h[Pick(s)]
    BY <1>2, <2>2
  <2> HIDE DEF T, r
  <2>5. T(f, s) <= T(h, s)
    BY <2>2, <2>3, <2>4
  <2> QED
    BY <2>5
<1>3. SUBSET S \subseteq G
  <2> HIDE DEF G
  <2> QED
    BY <1>1, <1>2, SubsetInd
<1> QED
  BY <1>3

(* A sum of which at most one term is not 0.                               *)
LEMMA SumSingle ==
    ASSUME NEW S, IsFiniteSet(S), NEW d, NEW c, d[c] \in Int,
           \A x \in S : x # c => d[x] = 0
    PROVE  SumFunctionOnSet(d, S) = IF c \in S THEN d[c] ELSE 0
<1> DEFINE T(s) == SumFunctionOnSet(d, s)
           G == {s \in SUBSET S : T(s) = IF c \in s THEN d[c] ELSE 0}
<1>1. {} \in G
  BY SumEmpty
<1>2. ASSUME NEW s \in SUBSET S, s # {}, s \ {Pick(s)} \in G PROVE s \in G
  <2>1. IsFiniteSet(s) /\ Numeric(d, s)
    BY FS_Subset DEF Numeric
  <2> DEFINE r == s \ {Pick(s)}
  <2>2. Pick(s) \in s /\ T(s) = d[Pick(s)] + T(r)
    BY <1>2, <2>1, SumStep
  <2>3. T(r) = IF c \in r THEN d[c] ELSE 0
    BY <1>2
  <2> HIDE DEF T
  <2>4. CASE Pick(s) = c
    <3>1. c \notin r /\ c \in s
      BY <2>2, <2>4
    <3> QED
      BY <2>2, <2>3, <2>4, <3>1
  <2>5. CASE Pick(s) # c
    <3>1. d[Pick(s)] = 0 /\ (c \in r <=> c \in s)
      BY <2>2, <2>5
    <3> QED
      BY <2>2, <2>3, <3>1
  <2> QED
    BY <2>4, <2>5
<1>3. SUBSET S \subseteq G
  <2> HIDE DEF G
  <2> QED
    BY <1>1, <1>2, SubsetInd
<1> QED
  BY <1>3

-----------------------------------------------------------------------------
(* What is observed is readable, and the answer is the one to it.          *)

Typed(e) ==
    /\ DOMAIN e = Sections
    /\ \A section \in Sections : \A key \in DOMAIN e[section] :
            IsReading(section, key, e[section][key])

Scored == Typed(evidence) /\ outcome = score_from_evidence(evidence)

LEMMA SectionReplaced ==
    ASSUME NEW e, Typed(e), NEW section \in Sections, NEW items,
           \A key \in DOMAIN items : IsReading(section, key, items[key])
    PROVE  Typed([e EXCEPT ![section] = items])
<1> DEFINE new == [e EXCEPT ![section] = items]
<1>1. DOMAIN new = Sections /\ new[section] = items
  BY DEF Typed
<1>2. \A other \in Sections : other # section => new[other] = e[other]
  BY DEF Typed
<1> HIDE DEF new
<1>3. ASSUME NEW other \in Sections, NEW key \in DOMAIN new[other]
      PROVE  IsReading(other, key, new[other][key])
  <2>1. CASE other = section
    BY <1>1, <1>3, <2>1
  <2>2. CASE other # section
    BY <1>2, <1>3, <2>2 DEF Typed
  <2> QED
    BY <2>1, <2>2
<1>4. Typed(new)
  BY <1>1, <1>3 DEF Typed
<1> QED
  BY <1>4 DEF new

LEMMA ScoredInit == Init => Scored
BY EvidenceAssumption DEF EvidenceAssumption, Init, Scored, Typed

LEMMA ScoredNext == Scored /\ [Next]_vars => Scored'
<1> SUFFICES ASSUME Scored, [Next]_vars PROVE Scored'
  OBVIOUS
<1>1. Typed(evidence)
  BY DEF Scored
<1>2. ASSUME NEW section \in DOMAIN Readings, NEW key \in DOMAIN Readings[section],
             Observe(section, key)
      PROVE  Scored'
  <2>1. PICK value \in Readings[section][key] :
            Change([evidence EXCEPT ![section] =
                       [k \in DOMAIN @ \cup {key} |-> IF k = key THEN value ELSE @[k]]])
    BY <1>2 DEF Observe
  <2> DEFINE old == evidence[section]
             items == [k \in DOMAIN old \cup {key} |-> IF k = key THEN value ELSE old[k]]
             new == [evidence EXCEPT ![section] = items]
  <2>2. section \in Sections /\ IsReading(section, key, value)
    BY EvidenceAssumption DEF EvidenceAssumption
  <2>3. \A k \in DOMAIN items : IsReading(section, k, items[k])
    BY <1>1, <2>2 DEF Typed
  <2>4. Change(new)
    BY <2>1
  <2>5. evidence' = new /\ outcome' = score_from_evidence(new)
    BY <2>4 DEF Change
  <2>6. Typed(new)
    <3> HIDE DEF items
    <3> QED
      BY <1>1, <2>2, <2>3, SectionReplaced
  <2> HIDE DEF new
  <2> QED
    BY <2>5, <2>6 DEF Scored
<1>3. ASSUME NEW section \in DOMAIN Readings, NEW key, Lose(section, key)
      PROVE  Scored'
  <2> DEFINE old == evidence[section]
             items == [k \in DOMAIN old \ {key} |-> old[k]]
             new == [evidence EXCEPT ![section] = items]
  <2>1. section \in Sections
    BY EvidenceAssumption DEF EvidenceAssumption
  <2>2. \A k \in DOMAIN items : IsReading(section, k, items[k])
    BY <1>1, <2>1 DEF Typed
  <2>3. Change(new)
    BY <1>3 DEF Lose
  <2>4. evidence' = new /\ outcome' = score_from_evidence(new)
    BY <2>3 DEF Change
  <2>5. Typed(new)
    <3> HIDE DEF items
    <3> QED
      BY <1>1, <2>1, <2>2, SectionReplaced
  <2> HIDE DEF new
  <2> QED
    BY <2>4, <2>5 DEF Scored
<1>4. CASE Quiet \/ UNCHANGED vars
  BY <1>4 DEF Quiet, vars, Scored
<1> QED
  BY <1>2, <1>3, <1>4 DEF Next

LEMMA AlwaysScored == Spec => []Scored
BY ScoredInit, ScoredNext, PTL DEF Spec

-----------------------------------------------------------------------------
(* Arithmetic: division, rounding and the transforms move the same way as  *)
(* what they are applied to.                                               *)

LEMMA Times ==
    ASSUME NEW a \in Int, NEW b \in Int, NEW n \in Nat, a <= b
    PROVE  a * n \in Int /\ b * n \in Int /\ a * n <= b * n
<1>1. (b - a) * n >= 0
  BY Z3
<1>2. (b - a) * n = b * n - a * n
  BY Z3
<1> QED
  BY <1>1, <1>2

LEMMA Division ==
    ASSUME NEW n \in Int, NEW d \in Nat \ {0}
    PROVE  /\ n \div d \in Int /\ n % d \in 0..d - 1
           /\ n = d * (n \div d) + (n % d)
OBVIOUS

LEMMA DivisionMonotone ==
    ASSUME NEW m \in Int, NEW n \in Int, NEW d \in Nat \ {0}, m <= n
    PROVE  m \div d <= n \div d
<1> DEFINE p == m \div d
           q == n \div d
<1>1. p \in Int /\ q \in Int /\ m = d * p + (m % d) /\ n = d * q + (n % d)
      /\ m % d \in 0..d - 1 /\ n % d \in 0..d - 1
  BY Division
<1> HIDE DEF p, q
<1>2. SUFFICES ASSUME q + 1 <= p PROVE FALSE
  BY <1>1 DEF p, q
<1>3. (q + 1) * d <= p * d
  BY <1>1, <1>2, Times
<1>4. (q + 1) * d = d * q + d /\ p * d = d * p
  BY <1>1, Z3
<1> DEFINE dq == d * q
           dp == d * p
<1>5. dq \in Int /\ dp \in Int /\ m = dp + (m % d) /\ n = dq + (n % d) /\ dq + d <= dp
  BY <1>1, <1>3, <1>4
<1> HIDE DEF dq, dp
<1> QED
  BY <1>1, <1>5

LEMMA RoundBounds ==
    ASSUME NEW n \in Int, NEW d \in Nat \ {0}
    PROVE  Round(n, d) \in {n \div d, (n \div d) + 1} /\ Round(n, d) \in Int
BY Division DEF Round

LEMMA RoundMonotone ==
    ASSUME NEW m \in Int, NEW n \in Int, NEW d \in Nat \ {0}, m <= n
    PROVE  Round(m, d) <= Round(n, d)
<1> DEFINE p == m \div d
           q == n \div d
           t == m % d
           r == n % d
<1>1. p \in Int /\ q \in Int /\ m = d * p + t /\ n = d * q + r
      /\ t \in 0..d - 1 /\ r \in 0..d - 1 /\ p <= q
  BY Division, DivisionMonotone
<1>2. CASE p < q
  <2>1. Round(m, d) \in {p, p + 1} /\ Round(n, d) \in {q, q + 1}
    BY RoundBounds
  <2> HIDE DEF p, q
  <2> QED
    BY <1>1, <1>2, <2>1
<1>3. CASE p = q
  <2>1. /\ Round(m, d) = IF 2 * t > d \/ (2 * t = d /\ p % 2 = 1) THEN p + 1 ELSE p
        /\ Round(n, d) = IF 2 * r > d \/ (2 * r = d /\ q % 2 = 1) THEN q + 1 ELSE q
    BY DEF Round
  <2>2. d * p \in Int /\ d * p = d * q
    BY <1>1, <1>3
  <2> HIDE DEF p, q, t, r
  <2>3. t <= r
    BY <1>1, <1>3, <2>2
  <2> QED
    BY <1>1, <1>3, <2>1, <2>3
<1> QED
  BY <1>1, <1>2, <1>3

LEMMA RoundNat ==
    ASSUME NEW n \in Nat, NEW d \in Nat \ {0}
    PROVE  Round(n, d) \in Nat
<1>1. n \div d \in Nat
  <2>1. 0 \div d <= n \div d
    BY DivisionMonotone
  <2>2. 0 \div d = 0
    OBVIOUS
  <2> QED
    BY <2>1, <2>2, Division
<1> DEFINE q == n \div d
<1>2. q \in Nat
  BY <1>1
<1>3. Round(n, d) \in {q, q + 1}
  BY RoundBounds
<1> HIDE DEF q
<1> QED
  BY <1>2, <1>3

LEMMA Clamped ==
    ASSUME NEW x \in Int, NEW y \in Int, x <= y
    PROVE  Clamp01(x) \in 0..One /\ Clamp01(x) <= Clamp01(y)
BY DEF Clamp01, One

LEMMA LowerBetterMonotone ==
    ASSUME NEW v \in Int, NEW w \in Int, NEW full \in Int, NEW zero \in Int, full < zero, v <= w
    PROVE  /\ LowerBetter(v, full, zero) \in 0..One
           /\ LowerBetter(w, full, zero) <= LowerBetter(v, full, zero)
<1> DEFINE d == zero - full
           part(x) == ((x - full) * One) \div d
<1>1. d \in Nat \ {0}
  OBVIOUS
<1>2. (v - full) * One \in Int /\ (w - full) * One \in Int
      /\ (v - full) * One <= (w - full) * One
  BY DEF One
<1>3. part(v) \in Int /\ part(w) \in Int /\ part(v) <= part(w)
  <2> HIDE DEF d
  <2> QED
    BY <1>1, <1>2, Division, DivisionMonotone
<1>4. \A x \in Int : LowerBetter(x, full, zero) =
            IF x <= full THEN One ELSE IF x >= zero THEN 0 ELSE Clamp01(One - part(x))
  BY DEF LowerBetter
<1> HIDE DEF part, d
<1>5. One - part(v) \in Int /\ One - part(w) \in Int /\ One - part(w) <= One - part(v)
  BY <1>3 DEF One
<1>6. /\ Clamp01(One - part(v)) \in 0..One
      /\ Clamp01(One - part(w)) \in 0..One
      /\ Clamp01(One - part(w)) <= Clamp01(One - part(v))
  BY <1>5, Clamped
<1>7. LowerBetter(v, full, zero) =
          IF v <= full THEN One ELSE IF v >= zero THEN 0 ELSE Clamp01(One - part(v))
  BY <1>4
<1>8. LowerBetter(w, full, zero) =
          IF w <= full THEN One ELSE IF w >= zero THEN 0 ELSE Clamp01(One - part(w))
  BY <1>4
<1>9. One \in Nat
  BY DEF One
<1> QED
  BY <1>6, <1>7, <1>8, <1>9

LEMMA HigherBetterMonotone ==
    ASSUME NEW v \in Int, NEW w \in Int, NEW full \in Int, NEW zero \in Int, zero < full, w <= v
    PROVE  /\ HigherBetter(v, zero, full) \in 0..One
           /\ HigherBetter(w, zero, full) <= HigherBetter(v, zero, full)
<1> DEFINE d == full - zero
           part(x) == ((x - zero) * One) \div d
<1>1. d \in Nat \ {0}
  OBVIOUS
<1>2. (v - zero) * One \in Int /\ (w - zero) * One \in Int
      /\ (w - zero) * One <= (v - zero) * One
  BY DEF One
<1>3. part(v) \in Int /\ part(w) \in Int /\ part(w) <= part(v)
  <2> HIDE DEF d
  <2> QED
    BY <1>1, <1>2, Division, DivisionMonotone
<1>4. \A x \in Int : HigherBetter(x, zero, full) =
            IF x >= full THEN One ELSE IF x <= zero THEN 0 ELSE Clamp01(part(x))
  BY DEF HigherBetter
<1> HIDE DEF part, d
<1>5. /\ Clamp01(part(v)) \in 0..One
      /\ Clamp01(part(w)) \in 0..One
      /\ Clamp01(part(w)) <= Clamp01(part(v))
  BY <1>3, Clamped
<1>6. HigherBetter(v, zero, full) =
          IF v >= full THEN One ELSE IF v <= zero THEN 0 ELSE Clamp01(part(v))
  BY <1>4
<1>7. HigherBetter(w, zero, full) =
          IF w >= full THEN One ELSE IF w <= zero THEN 0 ELSE Clamp01(part(w))
  BY <1>4
<1>8. One \in Nat
  BY DEF One
<1> QED
  BY <1>5, <1>6, <1>7, <1>8

-----------------------------------------------------------------------------
(* The health that a value of a signal is.                                 *)

FlagSignals == Signals.governance \cup {"image_signed"}
AllSignals == UNION {Signals[p] : p \in DOMAIN Signals}
Higher == {"accuracy", "f1_score", "roc_auc", "error_budget_remaining", "availability_30d"}
            \cup FlagSignals

WellObserved(s) ==
    /\ DOMAIN s \subseteq AllSignals
    /\ \A k \in DOMAIN s : s[k] \in Int /\ (k \in FlagSignals => s[k] \in {0, 1})

LEMMA SignalNames ==
    /\ FlagSignals = {"shap_logged", "model_card_present", "lineage_recorded",
                      "eu_ai_act_compliant", "human_oversight_defined", "image_signed"}
    /\ AllSignals = {"psi_score", "ks_statistic", "drifted_feature_count", "accuracy",
                     "f1_score", "roc_auc", "estimated_performance_drop",
                     "error_budget_remaining", "p99_latency_ms", "availability_30d",
                     "cost_per_1k_predictions_usd", "idle_capacity_ratio", "critical_cves",
                     "high_cves", "policy_violations", "image_signed", "shap_logged",
                     "model_card_present", "lineage_recorded", "eu_ai_act_compliant",
                     "human_oversight_defined"}
<1>1. DOMAIN Signals = {"drift", "performance", "reliability", "cost", "security", "governance"}
  BY DEF Signals
<1>2. AllSignals = Signals.drift \cup Signals.performance \cup Signals.reliability
                     \cup Signals.cost \cup Signals.security \cup Signals.governance
  BY <1>1 DEF AllSignals
<1> QED
  BY <1>2 DEF FlagSignals, Signals

(* Where the health of a signal is full, where it is none, and what one    *)
(* more finding costs.                                                     *)
LowerLimits ==
    [psi_score |-> [full |-> 1000, zero |-> 5000],
     ks_statistic |-> [full |-> 1000, zero |-> 4000],
     drifted_feature_count |-> [full |-> 0, zero |-> 5],
     estimated_performance_drop |-> [full |-> 200, zero |-> 2000],
     p99_latency_ms |-> [full |-> 500, zero |-> 1000],
     cost_per_1k_predictions_usd |-> [full |-> 500, zero |-> 1500],
     idle_capacity_ratio |-> [full |-> 2000, zero |-> 7000]]

HigherLimits ==
    [accuracy |-> [full |-> 8000, zero |-> 5500], f1_score |-> [full |-> 8000, zero |-> 5500],
     roc_auc |-> [full |-> 8000, zero |-> 5500],
     error_budget_remaining |-> [full |-> 5000, zero |-> 0],
     availability_30d |-> [full |-> 9990, zero |-> 9900]]

Penalty == [critical_cves |-> 4000, high_cves |-> 1000, policy_violations |-> 2500]

(* v is as good as w.                                                      *)
AtLeastAsGood(k, v, w) == IF k \in Higher THEN w <= v ELSE v <= w

LEMMA ContributionMonotone ==
    ASSUME NEW k \in AllSignals, NEW v \in Int, NEW w \in Int, AtLeastAsGood(k, v, w),
           k \in FlagSignals => v \in {0, 1} /\ w \in {0, 1}
    PROVE  /\ Contribution(k, v) \in 0..One
           /\ Contribution(k, w) <= Contribution(k, v)
<1>1. CASE k \in DOMAIN LowerLimits
  <2> DEFINE full == LowerLimits[k].full
             zero == LowerLimits[k].zero
  <2>1. k \notin Higher
    BY <1>1, SignalNames DEF Higher, LowerLimits
  <2>2. full \in Int /\ zero \in Int /\ full < zero
    BY <1>1 DEF LowerLimits
  <2>3. \A x : Contribution(k, x) = LowerBetter(x, full, zero)
    BY <1>1 DEF LowerLimits, Contribution, Signals, latency_slo_ms, cost_budget_per_1k_usd
  <2> HIDE DEF full, zero
  <2> QED
    BY <2>1, <2>2, <2>3, LowerBetterMonotone DEF AtLeastAsGood
<1>2. CASE k \in DOMAIN HigherLimits
  <2> DEFINE full == HigherLimits[k].full
             zero == HigherLimits[k].zero
  <2>1. k \in Higher
    BY <1>2 DEF Higher, HigherLimits
  <2>2. full \in Int /\ zero \in Int /\ zero < full
    BY <1>2 DEF HigherLimits
  <2>3. \A x : Contribution(k, x) = HigherBetter(x, zero, full)
    BY <1>2 DEF HigherLimits, Contribution, Signals, performance_baseline
  <2> HIDE DEF full, zero
  <2> QED
    BY <2>1, <2>2, <2>3, HigherBetterMonotone DEF AtLeastAsGood
<1>3. CASE k \in DOMAIN Penalty
  <2>1. k \notin Higher
    BY <1>3, SignalNames DEF Higher, Penalty
  <2>2. \A x : Contribution(k, x) = Clamp01(One - Penalty[k] * x)
    BY <1>3 DEF Penalty, Contribution, Signals
  <2>3. One - Penalty[k] * v \in Int /\ One - Penalty[k] * w \in Int
        /\ One - Penalty[k] * w <= One - Penalty[k] * v
    BY <1>3, <2>1 DEF Penalty, One, AtLeastAsGood
  <2> QED
    BY <2>2, <2>3, Clamped
<1>4. CASE k \in FlagSignals
  <2>1. k \in Higher
    BY <1>4 DEF Higher
  <2>2. \A x : Contribution(k, x) = x * One
    BY <1>4, SignalNames DEF Contribution, FlagSignals
  <2> QED
    BY <1>4, <2>1, <2>2 DEF AtLeastAsGood, One
<1> QED
  BY <1>1, <1>2, <1>3, <1>4, SignalNames DEF LowerLimits, HigherLimits, Penalty

-----------------------------------------------------------------------------
(* The points of a pillar.                                                 *)

LEMMA SumOverDomain ==
    ASSUME NEW f, NEW S, DOMAIN f = S
    PROVE  SumFunction(f) = SumFunctionOnSet(f, S)
BY DEF SumFunction, SumFunctionOnSet, FoldFunction

LEMMA AtMostFive ==
    ASSUME NEW a, NEW b, NEW c, NEW d, NEW e
    PROVE  IsFiniteSet({a, b, c, d, e}) /\ Cardinality({a, b, c, d, e}) <= 5
<1>1. IsFiniteSet({a}) /\ Cardinality({a}) = 1
  BY FS_Singleton
<1>2. IsFiniteSet({a} \cup {b}) /\ Cardinality({a} \cup {b}) \in 1..2
  BY <1>1, FS_AddElement
<1> DEFINE S == {a} \cup {b}
<1>3. IsFiniteSet(S \cup {c}) /\ Cardinality(S \cup {c}) \in 1..3
  <2> HIDE DEF S
  <2> QED
    BY <1>2, FS_AddElement DEF S
<1> DEFINE T == S \cup {c}
<1>4. IsFiniteSet(T \cup {d}) /\ Cardinality(T \cup {d}) \in 1..4
  <2>1. IsFiniteSet(T) /\ Cardinality(T) \in 1..3
    BY <1>3
  <2> HIDE DEF T
  <2> QED
    BY <2>1, FS_AddElement
<1> DEFINE U == T \cup {d}
<1>5. IsFiniteSet(U \cup {e}) /\ Cardinality(U \cup {e}) \in 1..5
  <2>1. IsFiniteSet(U) /\ Cardinality(U) \in 1..4
    BY <1>4
  <2> HIDE DEF U
  <2> QED
    BY <2>1, FS_AddElement
<1>6. U \cup {e} = {a, b, c, d, e}
  OBVIOUS
<1> QED
  BY <1>5, <1>6

LEMMA Pillars ==
    /\ DOMAIN Signals = {"drift", "performance", "reliability", "cost", "security", "governance"}
    /\ IsFiniteSet(DOMAIN Signals)
    /\ DOMAIN PILLAR_WEIGHTS = DOMAIN Signals
    /\ \A p \in DOMAIN Signals : PILLAR_WEIGHTS[p] \in 1..25
<1>1. DOMAIN Signals = {"drift", "performance", "reliability", "cost", "security", "governance"}
  BY DEF Signals
<1> DEFINE five == {"drift", "performance", "reliability", "cost", "security"}
<1>2. DOMAIN Signals = five \cup {"governance"}
  BY <1>1
<1>3. IsFiniteSet(DOMAIN Signals)
  <2>1. IsFiniteSet(five)
    BY AtMostFive
  <2> HIDE DEF five
  <2> QED
    BY <1>2, <2>1, FS_AddElement
<1> QED
  BY <1>1, <1>3 DEF PILLAR_WEIGHTS

LEMMA PillarSize ==
    ASSUME NEW p \in DOMAIN Signals
    PROVE  /\ IsFiniteSet(Signals[p]) /\ Cardinality(Signals[p]) <= 5
           /\ Signals[p] \subseteq AllSignals
<1>1. CASE p = "drift"
  <2> DEFINE S == {"psi_score", "ks_statistic", "drifted_feature_count",
                   "drifted_feature_count", "drifted_feature_count"}
  <2>1. Signals[p] = S
    BY <1>1 DEF Signals
  <2>2. IsFiniteSet(S) /\ Cardinality(S) <= 5
    BY AtMostFive
  <2> HIDE DEF S
  <2> QED
    BY <2>1, <2>2 DEF AllSignals
<1>2. CASE p = "performance"
  <2> DEFINE S == {"accuracy", "f1_score", "roc_auc", "estimated_performance_drop",
                   "estimated_performance_drop"}
  <2>1. Signals[p] = S
    BY <1>2 DEF Signals
  <2>2. IsFiniteSet(S) /\ Cardinality(S) <= 5
    BY AtMostFive
  <2> HIDE DEF S
  <2> QED
    BY <2>1, <2>2 DEF AllSignals
<1>3. CASE p = "reliability"
  <2> DEFINE S == {"error_budget_remaining", "p99_latency_ms", "availability_30d",
                   "availability_30d", "availability_30d"}
  <2>1. Signals[p] = S
    BY <1>3 DEF Signals
  <2>2. IsFiniteSet(S) /\ Cardinality(S) <= 5
    BY AtMostFive
  <2> HIDE DEF S
  <2> QED
    BY <2>1, <2>2 DEF AllSignals
<1>4. CASE p = "cost"
  <2> DEFINE S == {"cost_per_1k_predictions_usd", "idle_capacity_ratio", "idle_capacity_ratio",
                   "idle_capacity_ratio", "idle_capacity_ratio"}
  <2>1. Signals[p] = S
    BY <1>4 DEF Signals
  <2>2. IsFiniteSet(S) /\ Cardinality(S) <= 5
    BY AtMostFive
  <2> HIDE DEF S
  <2> QED
    BY <2>1, <2>2 DEF AllSignals
<1>5. CASE p = "security"
  <2> DEFINE S == {"critical_cves", "high_cves", "policy_violations", "image_signed",
                   "image_signed"}
  <2>1. Signals[p] = S
    BY <1>5 DEF Signals
  <2>2. IsFiniteSet(S) /\ Cardinality(S) <= 5
    BY AtMostFive
  <2> HIDE DEF S
  <2> QED
    BY <2>1, <2>2 DEF AllSignals
<1>6. CASE p = "governance"
  <2> DEFINE S == {"shap_logged", "model_card_present", "lineage_recorded",
                   "eu_ai_act_compliant", "human_oversight_defined"}
  <2>1. Signals[p] = S
    BY <1>6 DEF Signals
  <2>2. IsFiniteSet(S) /\ Cardinality(S) <= 5
    BY AtMostFive
  <2> HIDE DEF S
  <2> QED
    BY <2>1, <2>2 DEF AllSignals
<1> QED
  BY <1>1, <1>2, <1>3, <1>4, <1>5, <1>6, Pillars

(* Terms of at most one unit each.                                         *)
LEMMA SumWithin ==
    ASSUME NEW S, IsFiniteSet(S), NEW f, NEW u \in Nat, \A x \in S : f[x] \in 0..u
    PROVE  SumFunctionOnSet(f, S) \in 0..u * Cardinality(S)
<1> DEFINE T(s) == SumFunctionOnSet(f, s)
           G == {s \in SUBSET S : T(s) \in 0..u * Cardinality(s)}
<1>1. {} \in G
  BY SumEmpty, FS_EmptySet
<1>2. ASSUME NEW s \in SUBSET S, s # {}, s \ {Pick(s)} \in G PROVE s \in G
  <2>1. IsFiniteSet(s) /\ Numeric(f, s)
    BY FS_Subset DEF Numeric
  <2> DEFINE r == s \ {Pick(s)}
  <2>2. T(s) = f[Pick(s)] + T(r) /\ Pick(s) \in s /\ IsFiniteSet(r)
    BY <1>2, <2>1, SumStep
  <2>3. Cardinality(s) = Cardinality(r) + 1 /\ Cardinality(r) \in Nat
    BY <2>1, <2>2, FS_RemoveElement, FS_CardinalityType
  <2>4. T(r) \in 0..u * Cardinality(r) /\ f[Pick(s)] \in 0..u
    BY <1>2, <2>2
  <2> DEFINE n == Cardinality(r)
  <2>5. u * (n + 1) = u * n + u /\ u * n \in Nat
    BY <2>3, Z3
  <2> DEFINE m == u * n
  <2> HIDE DEF T, r, m
  <2>6. T(s) \in 0..m + u
    BY <2>2, <2>4, <2>5 DEF m
  <2>7. T(s) \in 0..u * Cardinality(s)
    BY <2>3, <2>5, <2>6 DEF m
  <2> QED
    BY <2>7
<1>3. SUBSET S \subseteq G
  <2> HIDE DEF G
  <2> QED
    BY <1>1, <1>2, SubsetInd
<1> QED
  BY <1>3

LEMMA Share ==
    ASSUME NEW c \in 1..5
    PROVE  60 \div c \in Nat /\ c * (60 \div c) = 60
<1>1. c \in {1, 2, 3, 4, 5}
  OBVIOUS
<1> QED
  BY <1>1, Z3

LEMMA EarnedWithin ==
    ASSUME NEW s, WellObserved(s), NEW p \in DOMAIN Signals
    PROVE  /\ Available(p) \in Nat
           /\ Earned(p, s) \in 0..Available(p) * Part
<1> DEFINE observed == Signals[p] \cap DOMAIN s
           f == [k \in observed |-> Contribution(k, s[k])]
           c == Cardinality(observed)
<1>1. Available(p) \in Nat
  BY Pillars DEF Available
<1> DEFINE a == Available(p)
<1>2. CASE observed = {}
  <2>1. Earned(p, s) = a * UNOBSERVED_HEALTH * 60
    BY <1>2 DEF Earned
  <2> HIDE DEF a
  <2> QED
    BY <1>1, <2>1 DEF a, UNOBSERVED_HEALTH, Part, One
<1>3. CASE observed # {}
  <2>1. IsFiniteSet(observed) /\ c \in 1..5
    <3>1. IsFiniteSet(Signals[p]) /\ Cardinality(Signals[p]) <= 5
          /\ observed \in SUBSET Signals[p]
      BY PillarSize
    <3> HIDE DEF observed
    <3>2. IsFiniteSet(observed) /\ c \in Nat /\ Cardinality(Signals[p]) \in Nat
          /\ c <= Cardinality(Signals[p])
      BY <3>1, FS_Subset, FS_CardinalityType
    <3>3. c # 0
      BY <1>3, <3>2, FS_EmptySet
    <3> HIDE DEF c
    <3> QED
      BY <3>1, <3>2, <3>3
  <2>2. \A k \in observed : f[k] \in 0..One
    BY PillarSize, ContributionMonotone DEF WellObserved, AtLeastAsGood
  <2> DEFINE t == SumFunction(f)
             q == 60 \div c
  <2>3. t \in 0..One * c
    <3>1. t = SumFunctionOnSet(f, observed)
      BY SumOverDomain
    <3> HIDE DEF f, observed, t
    <3>2. One \in Nat
      BY DEF One
    <3> QED
      BY <2>1, <2>2, <3>1, <3>2, SumWithin
  <2>4. Earned(p, s) = t * a * q
    BY <1>3 DEF Earned
  <2>5. q \in Nat /\ c * q = 60
    BY <2>1, Share
  <2> HIDE DEF t, a, c, q, observed, f
  <2>6. t * q <= (One * c) * q /\ 0 * q <= t * q /\ t * q \in Int
    BY <2>1, <2>3, <2>5, Times DEF One
  <2>7. (One * c) * q = Part /\ 0 * q = 0
    <3>1. (One * c) * q = One * (c * q)
      BY <2>1, <2>5, Z3 DEF One
    <3> QED
      BY <2>5, <3>1 DEF Part, One
  <2> DEFINE tq == t * q
  <2>8. t * a * q = tq * a
    <3>1. t \in Int /\ a \in Int /\ q \in Int
      BY <1>1, <2>1, <2>3, <2>5 DEF a, One
    <3>2. t * a * q = (t * q) * a
      BY <3>1, Z3
    <3> QED
      BY <3>2
  <2>9. tq \in Int /\ 0 <= tq /\ tq <= Part
    BY <2>6, <2>7
  <2> HIDE DEF tq
  <2>10. 0 * a <= tq * a /\ tq * a <= Part * a /\ tq * a \in Int
    <3>1. a \in Nat /\ 0 \in Int /\ Part \in Int
      BY <1>1 DEF a, Part, One
    <3> QED
      BY <2>9, <3>1, Times
  <2>11. Part * a = a * Part /\ 0 * a = 0 /\ a * Part \in Int
    BY <1>1 DEF a, Part, One
  <2>12. tq * a \in 0..a * Part
    BY <2>10, <2>11
  <2>13. Earned(p, s) \in 0..a * Part
    BY <2>4, <2>8, <2>12
  <2> QED
    BY <1>1, <2>13 DEF a
<1> QED
  BY <1>1, <1>2, <1>3

(* The same signals are observed, each at least as good in s as in t.      *)
LEMMA NoBetterIs ==
    ASSUME NEW t, NEW s
    PROVE  NoBetter(t, s) <=>
             DOMAIN t = DOMAIN s /\ \A k \in DOMAIN s : AtLeastAsGood(k, s[k], t[k])
<1>1. {"accuracy", "f1_score", "roc_auc", "error_budget_remaining", "availability_30d",
       "image_signed"} \cup Signals.governance = Higher
  BY DEF Higher, FlagSignals
<1> QED
  BY <1>1 DEF NoBetter, AtLeastAsGood

LEMMA EarnedMonotone ==
    ASSUME NEW s, NEW t, WellObserved(s), WellObserved(t), NoBetter(t, s),
           NEW p \in DOMAIN Signals
    PROVE  Earned(p, t) <= Earned(p, s)
<1> DEFINE observed == Signals[p] \cap DOMAIN s
           f(e) == [k \in observed |-> Contribution(k, e[k])]
           a == Available(p)
           q == 60 \div Cardinality(observed)
<1>1. DOMAIN t = DOMAIN s /\ \A k \in DOMAIN s : AtLeastAsGood(k, s[k], t[k])
  BY NoBetterIs
<1>2. a \in Nat
  BY EarnedWithin
<1>3. CASE observed = {}
  <2>1. Signals[p] \cap DOMAIN t = {}
    BY <1>1, <1>3
  <2>2. Earned(p, t) = Earned(p, s)
    BY <1>3, <2>1 DEF Earned
  <2>3. Earned(p, s) \in Int
    BY <1>2, EarnedWithin DEF Part, One
  <2> QED
    BY <2>2, <2>3
<1>4. CASE observed # {}
  <2>1. IsFiniteSet(observed) /\ q \in Nat
    <3>1. IsFiniteSet(Signals[p]) /\ Cardinality(Signals[p]) <= 5
          /\ observed \in SUBSET Signals[p]
      BY PillarSize
    <3> DEFINE c == Cardinality(observed)
    <3> HIDE DEF observed
    <3>2. IsFiniteSet(observed) /\ c \in Nat /\ Cardinality(Signals[p]) \in Nat
          /\ c <= Cardinality(Signals[p])
      BY <3>1, FS_Subset, FS_CardinalityType
    <3>3. c # 0
      BY <1>4, <3>2, FS_EmptySet
    <3>4. c \in 1..5
      <4> HIDE DEF c
      <4> QED
        BY <3>1, <3>2, <3>3
    <3> QED
      BY <3>2, <3>4, Share
  <2>2. \A k \in observed : /\ f(s)[k] \in Int /\ f(t)[k] \in Int
                            /\ f(t)[k] <= f(s)[k]
    <3> SUFFICES ASSUME NEW k \in observed
                 PROVE  /\ Contribution(k, s[k]) \in Int /\ Contribution(k, t[k]) \in Int
                        /\ Contribution(k, t[k]) <= Contribution(k, s[k])
      OBVIOUS
    <3>1. /\ k \in AllSignals /\ s[k] \in Int /\ t[k] \in Int
          /\ AtLeastAsGood(k, s[k], t[k])
          /\ k \in FlagSignals => s[k] \in {0, 1} /\ t[k] \in {0, 1}
      BY <1>1, PillarSize DEF WellObserved
    <3>2. AtLeastAsGood(k, t[k], t[k])
      BY <3>1 DEF AtLeastAsGood
    <3>3. Contribution(k, s[k]) \in 0..One /\ Contribution(k, t[k]) \in 0..One
      BY <3>1, <3>2, ContributionMonotone
    <3>4. Contribution(k, t[k]) <= Contribution(k, s[k])
      BY <3>1, ContributionMonotone
    <3>5. Contribution(k, s[k]) \in Int /\ Contribution(k, t[k]) \in Int
      <4> HIDE DEF f, observed, a, q
      <4>1. \A x \in 0..One : x \in Int
        BY DEF One
      <4> QED
        BY <3>3, <4>1
    <3> QED
      BY <3>4, <3>5
  <2> DEFINE total(e) == SumFunction(f(e))
  <2>3. total(s) \in Int /\ total(t) \in Int /\ total(t) <= total(s)
    <3> DEFINE fs == f(s)
               ft == f(t)
    <3>1. total(s) = SumFunctionOnSet(fs, observed) /\ total(t) = SumFunctionOnSet(ft, observed)
      BY SumOverDomain
    <3>2. Numeric(fs, observed) /\ Numeric(ft, observed)
      BY <2>2 DEF Numeric
    <3> HIDE DEF fs, ft, observed
    <3>3. SumFunctionOnSet(fs, observed) \in Int /\ SumFunctionOnSet(ft, observed) \in Int
      BY <2>1, <3>2, SumType
    <3>4. SumFunctionOnSet(ft, observed) <= SumFunctionOnSet(fs, observed)
      BY <2>1, <2>2, <3>2, SumMonotone DEF fs, ft
    <3> QED
      BY <3>1, <3>3, <3>4 DEF fs, ft
  <2>4. Earned(p, s) = total(s) * a * q
    BY <1>4 DEF Earned
  <2>5. Earned(p, t) = total(t) * a * q
    <3>1. Signals[p] \cap DOMAIN t = observed
      BY <1>1
    <3> QED
      BY <1>4, <3>1 DEF Earned
  <2> HIDE DEF total, a, q
  <2>6. total(t) * a \in Int /\ total(s) * a \in Int /\ total(t) * a <= total(s) * a
    BY <1>2, <2>3, Times
  <2> DEFINE x == total(t) * a
             y == total(s) * a
  <2>7. x * q <= y * q
    <3>1. x \in Int /\ y \in Int /\ x <= y
      BY <2>6
    <3> HIDE DEF x, y
    <3> QED
      BY <2>1, <3>1, Times
  <2> QED
    BY <2>4, <2>5, <2>7
<1> QED
  BY <1>3, <1>4

LEMMA UncappedMonotone ==
    ASSUME NEW s, NEW t, WellObserved(s), WellObserved(t), NoBetter(t, s)
    PROVE  Uncapped(s) \in Int /\ Uncapped(t) \in Int /\ Uncapped(t) <= Uncapped(s)
<1> DEFINE P == DOMAIN Signals
           es == [p \in P |-> Earned(p, s)]
           et == [p \in P |-> Earned(p, t)]
           ts == SumFunction(es)
           tt == SumFunction(et)
<1>1. \A p \in P : es[p] \in Int /\ et[p] \in Int /\ et[p] <= es[p]
  BY EarnedWithin, EarnedMonotone DEF Part, One
<1>2. IsFiniteSet(P) /\ Numeric(es, P) /\ Numeric(et, P)
  BY <1>1, Pillars DEF Numeric
<1>3. ts = SumFunctionOnSet(es, P) /\ tt = SumFunctionOnSet(et, P)
  BY SumOverDomain
<1>4. ts \in Int /\ tt \in Int /\ tt <= ts
  <2> HIDE DEF es, et, P, ts, tt
  <2> QED
    BY <1>1, <1>2, <1>3, SumType, SumMonotone
<1>5. Uncapped(s) = SCORE_FLOOR + Round(ts, Part) /\ Uncapped(t) = SCORE_FLOOR + Round(tt, Part)
  BY DEF Uncapped
<1> HIDE DEF ts, tt
<1>6. Part \in Nat \ {0}
  BY DEF Part, One
<1>7. Round(ts, Part) \in Int /\ Round(tt, Part) \in Int /\ Round(tt, Part) <= Round(ts, Part)
  BY <1>4, <1>6, RoundMonotone, RoundBounds
<1> QED
  BY <1>5, <1>7 DEF SCORE_FLOOR

-----------------------------------------------------------------------------
(* The lowest of a number and the caps.                                    *)

LEMMA MinIs ==
    ASSUME NEW S, IsFiniteSet(S), S # {}, S \subseteq Int
    PROVE  Min(S) \in S /\ \A y \in S : Min(S) <= y
<1> DEFINE G == {s \in SUBSET S : s = {} \/ \E x \in s : \A y \in s : x <= y}
<1>1. {} \in G
  OBVIOUS
<1>2. ASSUME NEW s \in SUBSET S, s # {}, s \ {Pick(s)} \in G PROVE s \in G
  <2> DEFINE r == s \ {Pick(s)}
  <2>1. Pick(s) \in s
    BY <1>2, Picked
  <2>2. CASE r = {}
    <3>1. s = {Pick(s)} /\ Pick(s) \in Int
      BY <2>1, <2>2
    <3>2. \A y \in s : Pick(s) <= y
      BY <3>1
    <3> QED
      BY <2>1, <3>2
  <2>3. CASE r # {}
    <3>1. PICK x \in r : \A y \in r : x <= y
      BY <1>2, <2>3
    <3>2. x \in Int /\ Pick(s) \in Int /\ \A y \in r : y \in Int
      BY <2>1
    <3>3. CASE x <= Pick(s)
      <4>1. \A y \in s : x <= y
        BY <3>1, <3>3
      <4> QED
        BY <4>1
    <3>4. CASE ~ (x <= Pick(s))
      <4>1. \A y \in s : Pick(s) <= y
        BY <3>1, <3>2, <3>4
      <4> QED
        BY <2>1, <4>1
    <3> QED
      BY <3>3, <3>4
  <2> QED
    BY <2>2, <2>3
<1>3. SUBSET S \subseteq G
  <2> HIDE DEF G
  <2> QED
    BY <1>1, <1>2, SubsetInd
<1>4. \E x \in S : \A y \in S : x <= y
  BY <1>3
<1> QED
  BY <1>4 DEF Min

(* The seven knockout rules: the cap of each, the action that lifts it and *)
(* when it is active.                                                      *)
AllCaps ==
    {Cap("critical_cves>=3", "FAIR", Rebuild), Cap("critical_cves>=1", "GOOD", Rebuild),
     Cap("image_unsigned", "PRIME", Rebuild), Cap("policy_violations>=1", "GOOD", FixPolicy),
     Cap("performance_drop>=0.20", "FAIR", PromoteWinner),
     Cap("error_budget_exhausted", "GOOD", Hedge),
     Cap("eu_ai_act_non_compliant", "PRIME", PublishCard)}

Active(s, rule) ==
    CASE rule = "critical_cves>=3" -> AtLeast(s, "critical_cves", 3)
      [] rule = "critical_cves>=1" ->
            AtLeast(s, "critical_cves", 1) /\ ~AtLeast(s, "critical_cves", 3)
      [] rule = "image_unsigned" -> AtMost(s, "image_signed", 0)
      [] rule = "policy_violations>=1" -> AtLeast(s, "policy_violations", 1)
      [] rule = "performance_drop>=0.20" -> AtLeast(s, "estimated_performance_drop", 2000)
      [] rule = "error_budget_exhausted" -> AtMost(s, "error_budget_remaining", 0)
      [] rule = "eu_ai_act_non_compliant" -> AtMost(s, "eu_ai_act_compliant", 0)

LEMMA ActiveCapsAre ==
    ASSUME NEW s
    PROVE  ActiveCaps(s) = {c \in AllCaps : Active(s, c.rule)}
BY DEF ActiveCaps, AllCaps, Active

LEMMA CapFields ==
    ASSUME NEW rule, NEW band, NEW action
    PROVE  /\ Cap(rule, band, action).rule = rule
           /\ Cap(rule, band, action).cap = BANDS[band] - 1
           /\ Cap(rule, band, action).lifting_action = action
BY DEF Cap

LEMMA Bands == BANDS.PRIME = 850 /\ BANDS.GOOD = 700 /\ BANDS.FAIR = 600 /\ BANDS.SUBPRIME = 300
BY DEF BANDS

LEMMA AllCapsFinite == IsFiniteSet(AllCaps) /\ \A c \in AllCaps : c.cap \in {599, 699, 849}
<1> DEFINE five == {Cap("critical_cves>=3", "FAIR", Rebuild),
                    Cap("critical_cves>=1", "GOOD", Rebuild),
                    Cap("image_unsigned", "PRIME", Rebuild),
                    Cap("policy_violations>=1", "GOOD", FixPolicy),
                    Cap("performance_drop>=0.20", "FAIR", PromoteWinner)}
           hedge == Cap("error_budget_exhausted", "GOOD", Hedge)
           publish == Cap("eu_ai_act_non_compliant", "PRIME", PublishCard)
<1>1. AllCaps = (five \cup {hedge}) \cup {publish}
  BY DEF AllCaps
<1>2. IsFiniteSet(five)
  BY AtMostFive
<1>3. IsFiniteSet(AllCaps)
  <2> HIDE DEF five, hedge, publish
  <2>1. IsFiniteSet(five \cup {hedge})
    BY <1>2, FS_AddElement
  <2> DEFINE six == five \cup {hedge}
  <2> HIDE DEF six
  <2>2. IsFiniteSet(six \cup {publish})
    BY <2>1, FS_AddElement DEF six
  <2> QED
    BY <1>1, <2>2 DEF six
<1>4. \A c \in AllCaps : c.cap \in {599, 699, 849}
  BY CapFields, Bands DEF AllCaps
<1> QED
  BY <1>3, <1>4

(* Lowest is below the number and each cap, and is one of them.            *)
LEMMA LowestIs ==
    ASSUME NEW n \in Int, NEW caps \in SUBSET AllCaps
    PROVE  /\ Lowest(n, caps) \in Int
           /\ Lowest(n, caps) <= n /\ \A c \in caps : Lowest(n, caps) <= c.cap
           /\ Lowest(n, caps) = n \/ \E c \in caps : Lowest(n, caps) = c.cap
<1> DEFINE values == {n} \cup {c.cap : c \in caps}
<1>1. {c.cap : c \in caps} \subseteq 599..849
  BY AllCapsFinite
<1>2. IsFiniteSet({c.cap : c \in caps})
  <2> DEFINE held == {c.cap : c \in caps}
  <2>1. \A a, b \in Int : IsFiniteSet(a..b)
    BY FS_Interval
  <2>2. IsFiniteSet(599..849)
    <3> DEFINE low == 599
               high == 849
    <3>1. low \in Int /\ high \in Int
      OBVIOUS
    <3> HIDE DEF low, high
    <3>2. IsFiniteSet(low..high)
      BY <2>1, <3>1
    <3> QED
      BY <3>2 DEF low, high
  <2>3. held \in SUBSET (599..849)
    BY <1>1
  <2> HIDE DEF held
  <2> DEFINE range == 599..849
  <2>4. IsFiniteSet(range) /\ held \in SUBSET range
    BY <2>2, <2>3
  <2> HIDE DEF range
  <2>5. IsFiniteSet(held)
    BY <2>4, FS_Subset
  <2> QED
    BY <2>5 DEF held
<1>3. IsFiniteSet(values)
  BY <1>2, FS_Singleton, FS_Union
<1>4. values # {} /\ values \subseteq Int
  BY <1>1
<1>5. Lowest(n, caps) = Min(values)
  BY DEF Lowest
<1>6. Min(values) \in values /\ \A y \in values : Min(values) <= y
  <2> HIDE DEF values
  <2> QED
    BY <1>3, <1>4, MinIs
<1> QED
  BY <1>4, <1>5, <1>6

-----------------------------------------------------------------------------
(* The assembled signals.                                                  *)

WellSignal(k, v) ==
    /\ v \in Int \/ v = Unreadable
    /\ k \in FlagSignals => v \in {0, 1, Unreadable}

WellSignals(f) == \A k \in DOMAIN f : k \in AllSignals => WellSignal(k, f[k])

LEMMA Joined ==
    ASSUME NEW f, NEW g
    PROVE  /\ DOMAIN (f ++ g) = DOMAIN f \cup DOMAIN g
           /\ \A k \in DOMAIN f \cup DOMAIN g :
                  (f ++ g)[k] = IF k \in DOMAIN f THEN f[k] ELSE g[k]
BY DEF ++

LEMMA JoinedWell ==
    ASSUME NEW f, NEW g, WellSignals(f), WellSignals(g)
    PROVE  WellSignals(f ++ g)
<1> DEFINE h == f ++ g
<1>1. /\ DOMAIN h = DOMAIN f \cup DOMAIN g
      /\ \A k \in DOMAIN f \cup DOMAIN g : h[k] = IF k \in DOMAIN f THEN f[k] ELSE g[k]
  BY DEF ++
<1> HIDE DEF h
<1>2. WellSignals(h)
  BY <1>1 DEF WellSignals
<1> QED
  BY <1>2 DEF h

LEMMA NoneWell == DOMAIN None = {} /\ WellSignals(None)
BY DEF None, WellSignals

(* The first of the keys that are there.                                   *)
LEMMA FirstPlace ==
    ASSUME NEW places, places # {}, places \subseteq 1..3
    PROVE  Min(places) \in places /\ \A i \in places : Min(places) <= i
<1> DEFINE range == 1..3
<1>1. IsFiniteSet(range)
  <2>1. \A a, b \in Int : IsFiniteSet(a..b)
    BY FS_Interval
  <2>2. 1 \in Int /\ 3 \in Int
    OBVIOUS
  <2> QED
    BY ONLY <2>1, <2>2, Zenon
<1>2. places \in SUBSET range /\ places \subseteq Int
  OBVIOUS
<1> HIDE DEF range
<1>3. IsFiniteSet(places)
  BY <1>1, <1>2, FS_Subset
<1> QED
  BY <1>2, <1>3, MinIs

LEMMA Aliases ==
    /\ DOMAIN METRIC_ALIASES \subseteq AllSignals \ FlagSignals
    /\ \A s \in DOMAIN METRIC_ALIASES :
           /\ DOMAIN METRIC_ALIASES[s] \subseteq 1..3
           /\ \A i \in DOMAIN METRIC_ALIASES[s] : METRIC_ALIASES[s][i] \in MetricNames
<1>1. DOMAIN METRIC_ALIASES \subseteq AllSignals \ FlagSignals
  BY SignalNames DEF METRIC_ALIASES
<1>2. ASSUME NEW s \in DOMAIN METRIC_ALIASES PROVE DOMAIN METRIC_ALIASES[s] \subseteq 1..3
  BY DEF METRIC_ALIASES
<1> QED
  BY <1>1, <1>2 DEF MetricNames

LEMMA FlagIs == ASSUME NEW token PROVE Flag(token) \in {0, 1}
BY DEF Flag

LEMMA ExplicitFlagWell ==
    ASSUME NEW section, NEW signal, NEW keys
    PROVE  /\ WellSignals(ExplicitFlag(section, signal, keys))
           /\ DOMAIN ExplicitFlag(section, signal, keys) \subseteq {signal}
BY FlagIs DEF ExplicitFlag, WellSignals, WellSignal

LEMMA FromMetricsWell ==
    ASSUME NEW e, Typed(e)
    PROVE  WellSignals(FromMetrics(e.metrics, e.tags))
<1> DEFINE m(s) == Numbers(e.metrics, METRIC_ALIASES[s])
           t(s) == Numbers(e.tags, METRIC_ALIASES[s])
           f == FromMetrics(e.metrics, e.tags)
<1> SUFFICES ASSUME NEW s \in DOMAIN f PROVE WellSignal(s, f[s])
  BY DEF WellSignals
<1>1. /\ s \in DOMAIN METRIC_ALIASES /\ m(s) \cup t(s) # {}
      /\ f[s] = IF m(s) # {} THEN First(e.metrics, METRIC_ALIASES[s], m(s))
                ELSE First(e.tags, METRIC_ALIASES[s], t(s))
  BY DEF FromMetrics
<1>2. "metrics" \in Sections /\ "tags" \in Sections
  BY DEF Sections
<1>3. ASSUME m(s) # {} PROVE First(e.metrics, METRIC_ALIASES[s], m(s)) \in Int
  <2>1. Min(m(s)) \in m(s)
    BY <1>1, <1>3, Aliases, FirstPlace DEF Numbers
  <2> DEFINE key == METRIC_ALIASES[s][Min(m(s))]
  <2>2. key \in DOMAIN e.metrics /\ e.metrics[key] # Unreadable
    BY <2>1 DEF Numbers
  <2>3. IsReading("metrics", key, e.metrics[key])
    BY <1>2, <2>2 DEF Typed
  <2> QED
    BY <2>2, <2>3 DEF IsReading, First
<1>4. ASSUME t(s) # {} PROVE First(e.tags, METRIC_ALIASES[s], t(s)) \in Int
  <2>1. Min(t(s)) \in t(s)
    BY <1>1, <1>4, Aliases, FirstPlace DEF Numbers
  <2> DEFINE key == METRIC_ALIASES[s][Min(t(s))]
  <2>2. key \in DOMAIN e.tags /\ e.tags[key] # Unreadable /\ key \in MetricNames
    BY <1>1, <2>1, Aliases DEF Numbers
  <2>3. IsReading("tags", key, e.tags[key])
    BY <1>2, <2>2 DEF Typed
  <2> QED
    BY <2>2, <2>3 DEF IsReading, First
<1>5. f[s] \in Int /\ s \notin FlagSignals
  BY <1>1, <1>3, <1>4, Aliases
<1> QED
  BY <1>5 DEF WellSignal

LEMMA FromTagsWell ==
    ASSUME NEW metrics, NEW tags
    PROVE  WellSignals(ShapLogged(metrics, tags)) /\ WellSignals(FromTags(tags))
<1>1. WellSignals([shap_logged |-> 1]) /\ WellSignals([lineage_recorded |-> 1])
  BY DEF WellSignals, WellSignal
<1>2. WellSignals(Lineage(tags))
  BY <1>1, NoneWell DEF Lineage
<1>3. WellSignals(ShapLogged(metrics, tags))
  BY <1>1, NoneWell, ExplicitFlagWell, JoinedWell DEF ShapLogged
<1> QED
  BY <1>2, <1>3, ExplicitFlagWell, JoinedWell DEF FromTags

LEMMA FromSecurityWell ==
    ASSUME NEW e, Typed(e)
    PROVE  WellSignals(FromSecurity(e.security))
<1>1. "security" \in Sections
  BY DEF Sections
<1>2. ASSUME NEW doc, NEW results, IsFiniteSet(DOMAIN doc) PROVE Count(doc, results) \in Int
  <2>1. {i \in DOMAIN doc : doc[i] \in results} \in SUBSET DOMAIN doc
    OBVIOUS
  <2>2. IsFiniteSet({i \in DOMAIN doc : doc[i] \in results})
    BY <1>2, <2>1, FS_Subset
  <2> QED
    BY <2>2, FS_CardinalityType DEF Count
<1>3. SecurityNumbers \cap FlagSignals = {}
  BY SignalNames DEF SecurityNumbers
<1>4. WellSignals(Restricted(e.security, SecurityNumbers))
  <2> SUFFICES ASSUME NEW k \in DOMAIN e.security \cap SecurityNumbers
               PROVE  WellSignal(k, e.security[k])
    BY DEF WellSignals, Restricted
  <2>1. IsReading("security", k, e.security[k])
    BY <1>1 DEF Typed
  <2> QED
    BY <1>3, <2>1 DEF IsReading, WellSignal
<1>5. "trivy" \in DOMAIN e.security => WellSignals(CountTrivy(e.security.trivy))
  <2> SUFFICES ASSUME "trivy" \in DOMAIN e.security
               PROVE  WellSignals(CountTrivy(e.security.trivy))
    OBVIOUS
  <2>1. IsReading("security", "trivy", e.security.trivy)
    BY <1>1 DEF Typed
  <2>2. IsFiniteSet(DOMAIN e.security.trivy)
    BY <2>1 DEF IsReading
  <2> QED
    BY <1>2, <1>3, <2>2 DEF CountTrivy, WellSignals, WellSignal, SecurityNumbers
<1>6. "kyverno" \in DOMAIN e.security => WellSignals(CountKyvernoFailures(e.security.kyverno))
  <2> SUFFICES ASSUME "kyverno" \in DOMAIN e.security
               PROVE  WellSignals(CountKyvernoFailures(e.security.kyverno))
    OBVIOUS
  <2>1. IsReading("security", "kyverno", e.security.kyverno)
    BY <1>1 DEF Typed
  <2>2. IsFiniteSet(DOMAIN e.security.kyverno)
    BY <2>1 DEF IsReading
  <2> QED
    BY <1>2, <1>3, <2>2 DEF CountKyvernoFailures, WellSignals, WellSignal, SecurityNumbers
<1> QED
  BY <1>4, <1>5, <1>6, NoneWell, ExplicitFlagWell, JoinedWell DEF FromSecurity

LEMMA FromComplianceWell ==
    ASSUME NEW compliance
    PROVE  WellSignals(FromCompliance(compliance))
<1> DEFINE checks == IF "checks" \in DOMAIN compliance THEN compliance.checks ELSE None
           known == DOMAIN checks \cap DOMAIN CHECK_TO_SIGNAL
           f == [s \in {CHECK_TO_SIGNAL[c] : c \in known} |->
                    Flag(checks[CHOOSE c \in known : CHECK_TO_SIGNAL[c] = s])]
<1>1. WellSignals(f)
  BY FlagIs DEF WellSignals, WellSignal
<1>2. FromCompliance(compliance)
          = f ++ ExplicitFlag(compliance, "eu_ai_act_compliant", <<"is_compliant">>)
  BY DEF FromCompliance
<1> HIDE DEF f
<1> QED
  BY <1>1, <1>2, ExplicitFlagWell, JoinedWell

LEMMA AssembledWell ==
    ASSUME NEW e, Typed(e)
    PROVE  WellSignals(assemble_signals(Bundle(e)))
<1>1. WellSignals(e.signals)
  <2>1. "signals" \in Sections
    BY DEF Sections
  <2> QED
    BY <2>1 DEF Typed, IsReading, WellSignals, WellSignal, FlagSignals
<1>2. WellSignals(FromTopLevelFlags(e.top))
  BY ExplicitFlagWell DEF FromTopLevelFlags
<1>3. WellSignals(FromMetricsAndTags(e.metrics, e.tags))
  BY FromMetricsWell, FromTagsWell, JoinedWell DEF FromMetricsAndTags
<1> DEFINE b == Bundle(e)
<1>4. /\ b.signals = e.signals /\ b.top = e.top /\ b.security = e.security
      /\ b.metrics = e.metrics /\ b.tags = e.tags /\ b.compliance = Compliance(e)
  BY DEF Bundle
<1>5. WellSignals(FromCompliance(Compliance(e))) /\ WellSignals(FromSecurity(e.security))
  BY FromComplianceWell, FromSecurityWell
<1>6. assemble_signals(b) = e.signals ++ FromTopLevelFlags(e.top) ++ FromCompliance(Compliance(e))
          ++ FromSecurity(e.security) ++ FromMetricsAndTags(e.metrics, e.tags)
  BY <1>4 DEF assemble_signals
<1> QED
  BY <1>1, <1>2, <1>3, <1>5, <1>6, JoinedWell

LEMMA ObservedIs ==
    ASSUME NEW f, WellSignals(f)
    PROVE  /\ DOMAIN Observed(f) =
                 {k \in DOMAIN f \cap AllSignals : f[k] # Unreadable \/ k \in FlagSignals}
           /\ \A k \in DOMAIN Observed(f) :
                 Observed(f)[k] = IF f[k] = Unreadable THEN 0 ELSE f[k]
           /\ WellObserved(Observed(f))
<1> DEFINE known == DOMAIN f \cap AllSignals
<1>1. Observed(f) = [k \in {k \in known : f[k] # Unreadable \/ k \in FlagSignals} |->
                        IF f[k] = Unreadable THEN 0 ELSE f[k]]
  BY DEF Observed, FlagSignals, AllSignals
<1>2. /\ DOMAIN Observed(f) = {k \in known : f[k] # Unreadable \/ k \in FlagSignals}
      /\ \A k \in DOMAIN Observed(f) :
             Observed(f)[k] = IF f[k] = Unreadable THEN 0 ELSE f[k]
  BY <1>1
<1>3. WellObserved(Observed(f))
  BY <1>2 DEF WellObserved, WellSignals, WellSignal
<1> QED
  BY <1>2, <1>3

-----------------------------------------------------------------------------
(* A version about which worse is observed.                                *)

LEMMA ActiveIs ==
    ASSUME NEW s
    PROVE  /\ Active(s, "critical_cves>=3") <=> AtLeast(s, "critical_cves", 3)
           /\ Active(s, "critical_cves>=1") <=>
                 AtLeast(s, "critical_cves", 1) /\ ~AtLeast(s, "critical_cves", 3)
           /\ Active(s, "image_unsigned") <=> AtMost(s, "image_signed", 0)
           /\ Active(s, "policy_violations>=1") <=> AtLeast(s, "policy_violations", 1)
           /\ Active(s, "performance_drop>=0.20") <=>
                 AtLeast(s, "estimated_performance_drop", 2000)
           /\ Active(s, "error_budget_exhausted") <=> AtMost(s, "error_budget_remaining", 0)
           /\ Active(s, "eu_ai_act_non_compliant") <=> AtMost(s, "eu_ai_act_compliant", 0)
BY DEF Active

(* A broken rule caps the score.                                           *)
LEMMA BrokenRuleCaps ==
    ASSUME NEW s, NEW rule, NEW band, NEW action, Cap(rule, band, action) \in AllCaps,
           Active(s, rule)
    PROVE  \E d \in ActiveCaps(s) : d.cap = BANDS[band] - 1
<1>1. Cap(rule, band, action) \in ActiveCaps(s)
  BY ActiveCapsAre, CapFields
<1> QED
  BY <1>1, CapFields

LEMMA WorseIsCapped ==
    ASSUME NEW s, NEW t, WellObserved(s), WellObserved(t), NoBetter(t, s),
           NEW c \in ActiveCaps(s)
    PROVE  \E d \in ActiveCaps(t) : d.cap <= c.cap
<1>1. DOMAIN t = DOMAIN s /\ \A k \in DOMAIN s : AtLeastAsGood(k, s[k], t[k])
  BY NoBetterIs
<1>2. \A k \in DOMAIN s : s[k] \in Int /\ t[k] \in Int
  BY <1>1 DEF WellObserved
<1>3. c \in AllCaps /\ Active(s, c.rule)
  BY ActiveCapsAre
<1>4. /\ \A k \in {"critical_cves", "policy_violations", "estimated_performance_drop"} :
             \A n \in Int : AtLeast(s, k, n) => AtLeast(t, k, n)
      /\ \A k \in {"image_signed", "error_budget_remaining", "eu_ai_act_compliant"} :
             \A n \in Int : AtMost(s, k, n) => AtMost(t, k, n)
  <2>1. /\ \A k \in {"critical_cves", "policy_violations", "estimated_performance_drop"} :
               k \notin Higher
        /\ \A k \in {"image_signed", "error_budget_remaining", "eu_ai_act_compliant"} :
               k \in Higher
    BY SignalNames DEF Higher
  <2> QED
    BY <1>1, <1>2, <2>1 DEF AtLeast, AtMost, AtLeastAsGood
<1> DEFINE Held(rule, band, action) ==
               c = Cap(rule, band, action) =>
                   /\ c.rule = rule /\ c.cap = BANDS[band] - 1
                   /\ c \in AllCaps
<1>5. c.cap \in Int
  BY <1>3, AllCapsFinite
<1>6. CASE c.rule = "critical_cves>=1"
  <2>1. AtLeast(t, "critical_cves", 1) /\ c.cap = 699
    <3>1. c.cap = 699
      BY <1>3, <1>6, CapFields, Bands DEF AllCaps
    <3> QED
      BY <1>3, <1>4, <1>6, <3>1, ActiveIs
  <2>2. CASE AtLeast(t, "critical_cves", 3)
    <3>1. \E d \in ActiveCaps(t) : d.cap = BANDS["FAIR"] - 1
      BY <2>2, ActiveIs, BrokenRuleCaps DEF AllCaps
    <3> QED
      BY <2>1, <3>1, Bands
  <2>3. CASE ~AtLeast(t, "critical_cves", 3)
    <3>1. Active(t, c.rule)
      BY <1>6, <2>1, <2>3, ActiveIs
    <3>2. c \in ActiveCaps(t)
      BY <1>3, <3>1, ActiveCapsAre
    <3> QED
      BY <1>5, <3>2
  <2> QED
    BY <2>2, <2>3
<1>7. CASE c.rule # "critical_cves>=1"
  <2>1. Active(t, c.rule)
    <3>1. c.rule \in {"critical_cves>=3", "image_unsigned", "policy_violations>=1",
                      "performance_drop>=0.20", "error_budget_exhausted",
                      "eu_ai_act_non_compliant"}
      BY <1>3, <1>7, CapFields DEF AllCaps
    <3> QED
      BY <1>3, <1>4, <3>1, ActiveIs
  <2>2. c \in ActiveCaps(t)
    BY <1>3, <2>1, ActiveCapsAre
  <2> QED
    BY <1>5, <2>2
<1> QED
  BY <1>6, <1>7

LEMMA WorseScore ==
    ASSUME NEW s, NEW t, WellObserved(s), WellObserved(t), NoBetter(t, s)
    PROVE  Lowest(Uncapped(t), ActiveCaps(t)) <= Lowest(Uncapped(s), ActiveCaps(s))
<1> DEFINE us == Uncapped(s)
           ut == Uncapped(t)
           cs == ActiveCaps(s)
           ct == ActiveCaps(t)
<1>1. us \in Int /\ ut \in Int /\ ut <= us
  BY UncappedMonotone
<1>2. cs \in SUBSET AllCaps /\ ct \in SUBSET AllCaps
  BY ActiveCapsAre
<1>3. \A c \in cs : \E d \in ct : d.cap <= c.cap
  BY WorseIsCapped
<1>4. \A c \in AllCaps : c.cap \in Int
  BY AllCapsFinite
<1> HIDE DEF us, ut, cs, ct
<1>5. /\ Lowest(ut, ct) \in Int /\ Lowest(ut, ct) <= ut
      /\ \A c \in ct : Lowest(ut, ct) <= c.cap
  BY <1>1, <1>2, LowestIs
<1>6. Lowest(us, cs) \in Int /\ (Lowest(us, cs) = us \/ \E c \in cs : Lowest(us, cs) = c.cap)
  BY <1>1, <1>2, LowestIs
<1>7. Lowest(ut, ct) <= Lowest(us, cs)
  <2>1. CASE Lowest(us, cs) = us
    BY <1>1, <1>5, <1>6, <2>1
  <2>2. CASE \E c \in cs : Lowest(us, cs) = c.cap
    <3>1. PICK c \in cs : Lowest(us, cs) = c.cap
      BY <2>2
    <3>2. PICK d \in ct : d.cap <= c.cap
      BY <1>3
    <3>3. d.cap \in Int /\ c.cap \in Int /\ Lowest(ut, ct) <= d.cap
      BY <1>2, <1>4, <1>5
    <3> QED
      BY <1>5, <1>6, <3>1, <3>2, <3>3
  <2> QED
    BY <1>6, <2>1, <2>2
<1> QED
  BY <1>7 DEF us, ut, cs, ct

(* What an answer of status 200 says of the evidence.                      *)
Assembled == assemble_signals(Bundle(evidence))

LEMMA AnswerIs ==
    ASSUME Scored, outcome.status = 200
    PROVE  /\ Typed(evidence)
           /\ ~CheckAborts(evidence) /\ ~EvidenceRefused(Bundle(evidence))
           /\ WellSignals(Assembled)
           /\ outcome.signals = Observed(Assembled)
           /\ WellObserved(outcome.signals)
           /\ outcome.report = compute_trust_score(Assembled)
           /\ outcome.allowed =
                 {env \in Environments : opa_allow(evidence, outcome.report.score, env)}
<1>1. Typed(evidence) /\ outcome = score_from_evidence(evidence)
  BY DEF Scored
<1>2. ~CheckAborts(evidence) /\ ~EvidenceRefused(Bundle(evidence))
  BY <1>1 DEF score_from_evidence
<1>3. WellSignals(Assembled)
  BY <1>1, AssembledWell DEF Assembled
<1>4. /\ outcome.signals = Observed(Assembled)
      /\ outcome.report = compute_trust_score(Assembled)
      /\ outcome.allowed =
            {env \in Environments : opa_allow(evidence, outcome.report.score, env)}
  BY <1>1, <1>2 DEF score_from_evidence, Assembled
<1>5. WellObserved(Observed(Assembled))
  BY <1>3, ObservedIs
<1>6. WellObserved(outcome.signals)
  BY <1>4, <1>5
<1> QED
  BY <1>1, <1>2, <1>3, <1>4, <1>6

LEMMA ReportScore ==
    ASSUME NEW x
    PROVE  compute_trust_score(x).score = Lowest(Uncapped(Observed(x)), ActiveCaps(Observed(x)))
BY DEF compute_trust_score

LEMMA ReportIs ==
    ASSUME NEW x, NEW s, s = Observed(x), NEW r, r = compute_trust_score(x)
    PROVE  /\ r.score = Lowest(Uncapped(s), ActiveCaps(s))
           /\ r.score_uncapped = Uncapped(s)
           /\ r.caps = ActiveCaps(s)
           /\ r.binding = {c \in ActiveCaps(s) : c.cap < Uncapped(s)}
           /\ r.lost = PointsLost(s)
           /\ r.recommendations = Advise(r.lost, r.score_uncapped, r.binding)
           /\ r.plan_to = [band \in DOMAIN BANDS |->
                          PlanToBand(10 * (BANDS[band] - r.score), r.recommendations)]
BY DEF compute_trust_score

(* Worse evidence never raises the score (trust_engine.py:270, "All are    *)
(* monotone"), from one request to the next: whatever the limits and the   *)
(* weights do, through the rounding and the caps.                          *)
THEOREM WorseScoresNoHigher == Spec => WorseNeverScoresHigher
<1> DEFINE Worse == outcome.status = 200 /\ outcome'.status = 200
                        /\ NoBetter(outcome'.signals, outcome.signals)
                    => outcome'.report.score <= outcome.report.score
<1>1. Scored /\ Scored' => Worse
  <2> SUFFICES ASSUME Scored, Scored', outcome.status = 200, outcome'.status = 200,
                      NoBetter(outcome'.signals, outcome.signals)
               PROVE  outcome'.report.score <= outcome.report.score
    OBVIOUS
  <2> DEFINE s == outcome.signals
             t == outcome'.signals
  <2>1. /\ WellObserved(s) /\ s = Observed(Assembled)
        /\ outcome.report = compute_trust_score(Assembled)
    BY AnswerIs
  <2>2. /\ WellObserved(t) /\ t = Observed(Assembled')
        /\ outcome'.report = compute_trust_score(Assembled')
    <3>1. (Scored /\ outcome.status = 200
             => /\ WellObserved(outcome.signals) /\ outcome.signals = Observed(Assembled)
                /\ outcome.report = compute_trust_score(Assembled))'
      BY AnswerIs, PTL
    <3> QED
      BY <3>1
  <2>3. outcome.report.score = Lowest(Uncapped(s), ActiveCaps(s))
    BY <2>1, ReportScore
  <2>4. outcome'.report.score = Lowest(Uncapped(t), ActiveCaps(t))
    BY <2>2, ReportScore
  <2> HIDE DEF s, t
  <2>5. NoBetter(t, s)
    BY DEF s, t
  <2>6. Lowest(Uncapped(t), ActiveCaps(t)) <= Lowest(Uncapped(s), ActiveCaps(s))
    BY <2>1, <2>2, <2>5, WorseScore
  <2> QED
    BY <2>3, <2>4, <2>6
<1> QED
  BY <1>1, AlwaysScored, PTL DEF WorseNeverScoresHigher

-----------------------------------------------------------------------------
(* Where a signal comes from.                                              *)

LEMMA JoinedAt ==
    ASSUME NEW f, NEW g, NEW k
    PROVE  /\ k \in DOMAIN f => k \in DOMAIN (f ++ g) /\ (f ++ g)[k] = f[k]
           /\ k \notin DOMAIN f /\ k \in DOMAIN g => k \in DOMAIN (f ++ g) /\ (f ++ g)[k] = g[k]
           /\ k \notin DOMAIN f /\ k \notin DOMAIN g => k \notin DOMAIN (f ++ g)
BY DEF ++

LEMMA ComplianceDomain ==
    ASSUME NEW compliance
    PROVE  DOMAIN FromCompliance(compliance)
             \subseteq {"shap_logged", "model_card_present", "lineage_recorded",
                        "human_oversight_defined", "eu_ai_act_compliant"}
<1> DEFINE checks == IF "checks" \in DOMAIN compliance THEN compliance.checks ELSE None
           known == DOMAIN checks \cap DOMAIN CHECK_TO_SIGNAL
           f == [s \in {CHECK_TO_SIGNAL[c] : c \in known} |->
                    Flag(checks[CHOOSE c \in known : CHECK_TO_SIGNAL[c] = s])]
           g == ExplicitFlag(compliance, "eu_ai_act_compliant", <<"is_compliant">>)
<1>1. FromCompliance(compliance) = f ++ g
  BY DEF FromCompliance
<1>2. DOMAIN f \subseteq {"shap_logged", "model_card_present", "lineage_recorded",
                          "human_oversight_defined"}
  BY DEF CHECK_TO_SIGNAL
<1>3. DOMAIN g \subseteq {"eu_ai_act_compliant"}
  BY ExplicitFlagWell
<1> HIDE DEF f, g
<1>4. \A k \in DOMAIN (f ++ g) : k \in DOMAIN f \/ k \in DOMAIN g
  BY JoinedAt
<1> QED
  BY <1>1, <1>2, <1>3, <1>4

LEMMA SecurityDomain ==
    ASSUME NEW security
    PROVE  DOMAIN FromSecurity(security) \subseteq SecurityNumbers \cup {"image_signed"}
<1> DEFINE f == ExplicitFlag(security, "image_signed", <<"image_signed", "cosign">>)
           g == Restricted(security, SecurityNumbers)
           k == IF "kyverno" \in DOMAIN security
                THEN CountKyvernoFailures(security.kyverno) ELSE None
           t == IF "trivy" \in DOMAIN security THEN CountTrivy(security.trivy) ELSE None
<1>1. FromSecurity(security) = f ++ g ++ k ++ t
  BY DEF FromSecurity
<1>2. DOMAIN f \subseteq {"image_signed"}
  BY ExplicitFlagWell
<1>3. DOMAIN g \subseteq SecurityNumbers
  BY DEF Restricted
<1>4. DOMAIN k \subseteq SecurityNumbers /\ DOMAIN t \subseteq SecurityNumbers
  BY NoneWell DEF CountKyvernoFailures, CountTrivy, SecurityNumbers
<1> HIDE DEF f, g, k, t
<1>5. \A x \in DOMAIN (f ++ g ++ k ++ t) :
          x \in DOMAIN f \/ x \in DOMAIN g \/ x \in DOMAIN k \/ x \in DOMAIN t
  BY JoinedAt
<1> QED
  BY <1>1, <1>2, <1>3, <1>4, <1>5

(* An explicit signal wins, then a flag beside the report, then the        *)
(* verdict, then the scanners, then metrics and tags.                      *)
LEMMA AssembledAt ==
    ASSUME NEW e, NEW k, k \notin DOMAIN e.signals, k \notin DOMAIN FromTopLevelFlags(e.top)
    PROVE  LET x == assemble_signals(Bundle(e))
               c == FromCompliance(Compliance(e))
               s == FromSecurity(e.security)
               m == FromMetricsAndTags(e.metrics, e.tags)
           IN  /\ k \in DOMAIN c => k \in DOMAIN x /\ x[k] = c[k]
               /\ k \notin DOMAIN c /\ k \in DOMAIN s => k \in DOMAIN x /\ x[k] = s[k]
               /\ k \notin DOMAIN c /\ k \notin DOMAIN s /\ k \in DOMAIN m
                     => k \in DOMAIN x /\ x[k] = m[k]
<1> DEFINE c == FromCompliance(Compliance(e))
           s == FromSecurity(e.security)
           m == FromMetricsAndTags(e.metrics, e.tags)
           two == e.signals ++ FromTopLevelFlags(e.top)
           b == Bundle(e)
<1>1. /\ b.signals = e.signals /\ b.top = e.top /\ b.security = e.security
      /\ b.metrics = e.metrics /\ b.tags = e.tags /\ b.compliance = Compliance(e)
  BY DEF Bundle
<1>2. assemble_signals(b) = two ++ c ++ s ++ m
  BY <1>1 DEF assemble_signals
<1>3. k \notin DOMAIN two
  BY JoinedAt
<1> HIDE DEF c, s, m, two
<1>4. k \in DOMAIN c => k \in DOMAIN (two ++ c) /\ (two ++ c)[k] = c[k]
  BY <1>3, JoinedAt
<1>5. k \notin DOMAIN c => k \notin DOMAIN (two ++ c)
  BY <1>3, JoinedAt
<1> DEFINE three == two ++ c
           four == three ++ s
           x == four ++ m
<1>6. /\ k \in DOMAIN c => k \in DOMAIN three /\ three[k] = c[k]
      /\ k \notin DOMAIN c => k \notin DOMAIN three
  BY <1>4, <1>5
<1> HIDE DEF three
<1>7. /\ k \in DOMAIN c => k \in DOMAIN four /\ four[k] = c[k]
      /\ k \notin DOMAIN c /\ k \in DOMAIN s => k \in DOMAIN four /\ four[k] = s[k]
      /\ k \notin DOMAIN c /\ k \notin DOMAIN s => k \notin DOMAIN four
  BY <1>6, JoinedAt
<1> HIDE DEF four
<1>8. /\ k \in DOMAIN c => k \in DOMAIN x /\ x[k] = c[k]
      /\ k \notin DOMAIN c /\ k \in DOMAIN s => k \in DOMAIN x /\ x[k] = s[k]
      /\ k \notin DOMAIN c /\ k \notin DOMAIN s /\ k \in DOMAIN m
            => k \in DOMAIN x /\ x[k] = m[k]
  BY <1>7, JoinedAt
<1>9. x = assemble_signals(b)
  BY <1>2 DEF three, four
<1> HIDE DEF x, b
<1> QED
  BY <1>8, <1>9 DEF b, c, s, m

LEMMA TopDomain ==
    ASSUME NEW top
    PROVE  DOMAIN FromTopLevelFlags(top) \subseteq {"model_card_present"}
BY ExplicitFlagWell DEF FromTopLevelFlags

(* A signal that is a metric, when one of its names is among the metrics.  *)
LEMMA MetricSignal ==
    ASSUME NEW e, NEW s \in DOMAIN METRIC_ALIASES, s \notin DOMAIN e.signals,
           Numbers(e.metrics, METRIC_ALIASES[s]) # {}
    PROVE  \E i \in Numbers(e.metrics, METRIC_ALIASES[s]) :
               /\ \A j \in Numbers(e.metrics, METRIC_ALIASES[s]) : i <= j
               /\ s \in DOMAIN assemble_signals(Bundle(e))
               /\ assemble_signals(Bundle(e))[s] = e.metrics[METRIC_ALIASES[s][i]]
<1> DEFINE places == Numbers(e.metrics, METRIC_ALIASES[s])
           i == Min(places)
           f == FromMetrics(e.metrics, e.tags)
           g == ShapLogged(e.metrics, e.tags)
           h == FromTags(e.tags)
           m == FromMetricsAndTags(e.metrics, e.tags)
           x == assemble_signals(Bundle(e))
<1>1. i \in places /\ \A j \in places : i <= j
  BY Aliases, FirstPlace DEF Numbers
<1>2. s \in DOMAIN f /\ f[s] = e.metrics[METRIC_ALIASES[s][i]]
  BY DEF FromMetrics, First
<1>3. m = f ++ g ++ h
  BY DEF FromMetricsAndTags
<1>4. s \in DOMAIN m /\ m[s] = f[s]
  <2> HIDE DEF f, g, h, m
  <2> QED
    BY <1>2, <1>3, JoinedAt
<1>5. /\ s \notin DOMAIN FromTopLevelFlags(e.top)
      /\ s \notin DOMAIN FromCompliance(Compliance(e))
      /\ s \notin DOMAIN FromSecurity(e.security)
  <2>1. s \notin {"shap_logged", "model_card_present", "lineage_recorded",
                  "human_oversight_defined", "eu_ai_act_compliant", "image_signed"}
        /\ s \notin SecurityNumbers
    BY DEF METRIC_ALIASES, SecurityNumbers
  <2> QED
    BY <2>1, TopDomain, ComplianceDomain, SecurityDomain
<1>6. s \in DOMAIN x /\ x[s] = m[s]
  <2> HIDE DEF f, i, places
  <2> QED
    BY <1>4, <1>5, AssembledAt
<1> QED
  BY <1>1, <1>2, <1>4, <1>6

(* A number of the scanners: the one that is given, else what the report   *)
(* counts.                                                                 *)
LEMMA SecuritySignal ==
    ASSUME NEW e, NEW k \in SecurityNumbers, k \notin DOMAIN e.signals
    PROVE  LET x == assemble_signals(Bundle(e))
           IN  /\ k \in DOMAIN e.security => k \in DOMAIN x /\ x[k] = e.security[k]
               /\ /\ k = "critical_cves" /\ k \notin DOMAIN e.security
                  /\ "trivy" \in DOMAIN e.security
                  => k \in DOMAIN x /\ x[k] = Count(e.security.trivy, {"CRITICAL"})
<1> DEFINE f == ExplicitFlag(e.security, "image_signed", <<"image_signed", "cosign">>)
           g == Restricted(e.security, SecurityNumbers)
           y == IF "kyverno" \in DOMAIN e.security
                THEN CountKyvernoFailures(e.security.kyverno) ELSE None
           t == IF "trivy" \in DOMAIN e.security THEN CountTrivy(e.security.trivy) ELSE None
           s == FromSecurity(e.security)
           x == assemble_signals(Bundle(e))
<1>1. s = f ++ g ++ y ++ t
  BY DEF FromSecurity
<1>2. k \notin DOMAIN f
  BY ExplicitFlagWell DEF SecurityNumbers
<1>3. /\ k \in DOMAIN e.security => k \in DOMAIN g /\ g[k] = e.security[k]
      /\ k \notin DOMAIN e.security => k \notin DOMAIN g
  BY DEF Restricted
<1>4. k = "critical_cves" => k \notin DOMAIN y
  BY NoneWell DEF CountKyvernoFailures
<1>5. k = "critical_cves" /\ "trivy" \in DOMAIN e.security
         => k \in DOMAIN t /\ t[k] = Count(e.security.trivy, {"CRITICAL"})
  BY DEF CountTrivy
<1>6. /\ k \in DOMAIN g => k \in DOMAIN s /\ s[k] = g[k]
      /\ k \notin DOMAIN g /\ k \notin DOMAIN y /\ k \in DOMAIN t
            => k \in DOMAIN s /\ s[k] = t[k]
  <2> HIDE DEF f, g, y, t, s
  <2>1. /\ k \in DOMAIN g => k \in DOMAIN (f ++ g) /\ (f ++ g)[k] = g[k]
        /\ k \notin DOMAIN g => k \notin DOMAIN (f ++ g)
    BY <1>2, JoinedAt
  <2> DEFINE two == f ++ g
             three == two ++ y
  <2>2. /\ k \in DOMAIN g => k \in DOMAIN two /\ two[k] = g[k]
        /\ k \notin DOMAIN g => k \notin DOMAIN two
    BY <2>1
  <2> HIDE DEF two
  <2>3. /\ k \in DOMAIN g => k \in DOMAIN three /\ three[k] = g[k]
        /\ k \notin DOMAIN g /\ k \notin DOMAIN y => k \notin DOMAIN three
    BY <2>2, JoinedAt
  <2>4. s = three ++ t
    BY <1>1 DEF two
  <2> HIDE DEF three
  <2> QED
    BY <2>3, <2>4, JoinedAt
<1>7. k \notin DOMAIN FromTopLevelFlags(e.top) /\ k \notin DOMAIN FromCompliance(Compliance(e))
  BY TopDomain, ComplianceDomain DEF SecurityNumbers
<1>8. k \in DOMAIN s => k \in DOMAIN x /\ x[k] = s[k]
  <2> HIDE DEF f, g, y, t
  <2> QED
    BY <1>7, AssembledAt
<1> HIDE DEF f, g, y, t, s, x
<1>9. k \in DOMAIN e.security => k \in DOMAIN x /\ x[k] = e.security[k]
  BY <1>3, <1>6, <1>8
<1>10. k = "critical_cves" /\ k \notin DOMAIN e.security /\ "trivy" \in DOMAIN e.security
          => k \in DOMAIN x /\ x[k] = Count(e.security.trivy, {"CRITICAL"})
  BY <1>3, <1>4, <1>5, <1>6, <1>8
<1> QED
  BY <1>9, <1>10 DEF x

-----------------------------------------------------------------------------
(* What the gate does with a low score, and where the caps put the score.  *)

LEMMA Refused ==
    ASSUME NEW e, NEW score \in Int, NEW env
    PROVE  /\ score < 600 => ~opa_allow(e, score, env)
           /\ score < 700 /\ env = "production" => ~opa_allow(e, score, env)
<1> DEFINE trust == [score |-> score, ledger_integrity_ok |-> TRUE]
           in == [accuracy |-> 10 * Get(e.metrics, "accuracy", 0),
                  drift_score |-> 10 * Get(e.metrics, "psi_score", 0),
                  test_dataset_size |-> 500,
                  shap_values_logged |-> Get(e.tags, "shap_values_logged", "") \in {"true", "True"},
                  requestor |-> "ci-rehearsal",
                  environment |-> env,
                  trust |-> trust]
<1>1. opa_allow(e, score, env) => allow(in)
  BY DEF opa_allow
<1>2. in.trust = trust /\ in.environment = env
  OBVIOUS
<1>3. trust # NoTrust /\ trust.score = score
  <2>1. trust \in [score : Int, ledger_integrity_ok : BOOLEAN]
    OBVIOUS
  <2> QED
    BY <2>1, EvidenceAssumption DEF EvidenceAssumption
<1> HIDE DEF in, trust
<1>4. score < 600 => "subprime" \in Fired(TrustRule(in))
  BY <1>2, <1>3 DEF Fired, TrustRule, subprime_trust_score
<1>5. score < 700 => "trust" \in Fired(ProductionRule(in))
  BY <1>2, <1>3 DEF Fired, ProductionRule, production_min_trust_score
<1> QED
  BY <1>1, <1>2, <1>4, <1>5 DEF allow, Denied

LEMMA Capped ==
    ASSUME Scored, outcome.status = 200,
           NEW rule, NEW band, NEW action, Cap(rule, band, action) \in AllCaps,
           Active(outcome.signals, rule)
    PROVE  outcome.report.score \in Int /\ outcome.report.score <= BANDS[band] - 1
<1> DEFINE s == outcome.signals
           u == Uncapped(s)
           caps == ActiveCaps(s)
           c == Cap(rule, band, action)
<1>1. WellObserved(s) /\ outcome.report.score = Lowest(u, caps)
  <2>1. WellObserved(s) /\ s = Observed(Assembled)
        /\ outcome.report = compute_trust_score(Assembled)
    BY AnswerIs
  <2> QED
    BY <2>1, ReportScore
<1>2. u \in Int
  <2>1. NoBetter(s, s)
    BY <1>1, NoBetterIs DEF AtLeastAsGood, WellObserved
  <2> HIDE DEF s
  <2> QED
    BY <1>1, <2>1, UncappedMonotone
<1>3. caps \in SUBSET AllCaps /\ c \in caps /\ c.cap = BANDS[band] - 1
  BY ActiveCapsAre, CapFields
<1> HIDE DEF u, caps, c
<1>4. Lowest(u, caps) \in Int /\ Lowest(u, caps) <= c.cap
  BY <1>2, <1>3, LowestIs
<1> QED
  BY <1>1, <1>3, <1>4

LEMMA NotForProduction ==
    ASSUME Scored, outcome.status = 200,
           NEW rule, NEW action, Cap(rule, "GOOD", action) \in AllCaps,
           Active(outcome.signals, rule)
    PROVE  "production" \notin outcome.allowed
<1>1. outcome.report.score \in Int /\ outcome.report.score < 700
  <2>1. outcome.report.score \in Int /\ outcome.report.score <= BANDS["GOOD"] - 1
    BY Capped
  <2> QED
    BY <2>1, Bands
<1>2. ~opa_allow(evidence, outcome.report.score, "production")
  BY <1>1, Refused
<1> QED
  BY <1>2, AnswerIs

LEMMA NowhereAllowed ==
    ASSUME Scored, outcome.status = 200,
           NEW rule, NEW action, Cap(rule, "FAIR", action) \in AllCaps,
           Active(outcome.signals, rule)
    PROVE  outcome.allowed = {}
<1>1. outcome.report.score \in Int /\ outcome.report.score < 600
  <2>1. outcome.report.score \in Int /\ outcome.report.score <= BANDS["FAIR"] - 1
    BY Capped
  <2> QED
    BY <2>1, Bands
<1>2. \A env \in Environments : ~opa_allow(evidence, outcome.report.score, env)
  BY <1>1, Refused
<1> QED
  BY <1>2, AnswerIs

(* A number that was assembled is observed.                                *)
LEMMA NumberObserved ==
    ASSUME Scored, outcome.status = 200, NEW k \in AllSignals, k \in DOMAIN Assembled,
           Assembled[k] # Unreadable
    PROVE  /\ k \in DOMAIN outcome.signals /\ outcome.signals[k] = Assembled[k]
           /\ Assembled[k] \in Int
<1>1. WellSignals(Assembled) /\ outcome.signals = Observed(Assembled)
  BY AnswerIs
<1>2. Assembled[k] \in Int
  BY <1>1 DEF WellSignals, WellSignal
<1> DEFINE x == Assembled
           o == Observed(x)
<1>3. /\ DOMAIN o = {j \in DOMAIN x \cap AllSignals : x[j] # Unreadable \/ j \in FlagSignals}
      /\ \A j \in DOMAIN o : o[j] = IF x[j] = Unreadable THEN 0 ELSE x[j]
  BY <1>1, ObservedIs
<1>4. k \in DOMAIN x /\ x[k] # Unreadable
  OBVIOUS
<1>5. outcome.signals = o
  BY <1>1
<1> HIDE DEF o
<1>6. k \in DOMAIN o /\ o[k] = x[k]
  BY <1>3, <1>4
<1> QED
  BY <1>2, <1>5, <1>6

LEMMA CvesSeen ==
    ASSUME Scored, outcome.status = 200, NEW n \in Int, CriticalCves(evidence, n),
           "critical_cves" \notin DOMAIN evidence.signals
    PROVE  AtLeast(outcome.signals, "critical_cves", n)
<1> DEFINE sec == evidence.security
<1>1. "critical_cves" \in SecurityNumbers /\ "critical_cves" \in AllSignals
  BY SignalNames DEF SecurityNumbers
<1>2. /\ "critical_cves" \in DOMAIN sec
            => /\ "critical_cves" \in DOMAIN Assembled
               /\ Assembled["critical_cves"] = sec["critical_cves"]
      /\ "critical_cves" \notin DOMAIN sec /\ "trivy" \in DOMAIN sec
            => "critical_cves" \in DOMAIN Assembled
                 /\ Assembled["critical_cves"] = Count(sec.trivy, {"CRITICAL"})
  BY <1>1, SecuritySignal DEF Assembled
<1>3. CASE "critical_cves" \in DOMAIN sec
  <2>1. sec["critical_cves"] # Unreadable
    <3>1. ~EvidenceRefused(Bundle(evidence))
      BY AnswerIs
    <3> QED
      BY <1>1, <1>3, <3>1 DEF EvidenceRefused, Bundle
  <2>2. sec["critical_cves"] >= n
    BY <1>3 DEF CriticalCves
  <2>3. /\ "critical_cves" \in DOMAIN outcome.signals
        /\ outcome.signals["critical_cves"] = sec["critical_cves"]
    BY <1>1, <1>2, <1>3, <2>1, NumberObserved
  <2> QED
    BY <2>2, <2>3 DEF AtLeast
<1>4. CASE "critical_cves" \notin DOMAIN sec
  <2>1. "trivy" \in DOMAIN sec /\ Count(sec.trivy, {"CRITICAL"}) >= n
    BY <1>4 DEF CriticalCves
  <2>2. Count(sec.trivy, {"CRITICAL"}) \in Int
    <3>1. "security" \in Sections /\ Typed(evidence)
      BY AnswerIs DEF Sections
    <3>2. IsReading("security", "trivy", sec.trivy)
      BY <2>1, <3>1 DEF Typed
    <3>3. IsFiniteSet(DOMAIN sec.trivy)
      BY <3>2 DEF IsReading
    <3> DEFINE doc == sec.trivy
               found == {i \in DOMAIN doc : doc[i] \in {"CRITICAL"}}
    <3>4. found \in SUBSET DOMAIN doc /\ Count(doc, {"CRITICAL"}) = Cardinality(found)
      BY DEF Count
    <3> HIDE DEF found
    <3> QED
      BY <3>3, <3>4, FS_Subset, FS_CardinalityType
  <2>3. Count(sec.trivy, {"CRITICAL"}) # Unreadable
    BY <2>2, EvidenceAssumption DEF EvidenceAssumption
  <2>4. /\ "critical_cves" \in DOMAIN outcome.signals
        /\ outcome.signals["critical_cves"] = Count(sec.trivy, {"CRITICAL"})
    BY <1>1, <1>2, <1>4, <2>1, <2>3, NumberObserved
  <2> QED
    BY <2>1, <2>4 DEF AtLeast
<1> QED
  BY <1>3, <1>4

LEMMA ViolationsSeen ==
    ASSUME Scored, outcome.status = 200, "policy_violations" \notin DOMAIN evidence.signals,
           AllSay(evidence.security, {"policy_violations"}, LAMBDA v : v >= 1)
    PROVE  AtLeast(outcome.signals, "policy_violations", 1)
<1> DEFINE sec == evidence.security
<1>1. "policy_violations" \in SecurityNumbers /\ "policy_violations" \in AllSignals
  BY SignalNames DEF SecurityNumbers
<1>2. /\ "policy_violations" \in DOMAIN sec /\ sec["policy_violations"] # Unreadable
      /\ sec["policy_violations"] >= 1
  BY DEF AllSay
<1>3. /\ "policy_violations" \in DOMAIN Assembled
      /\ Assembled["policy_violations"] = sec["policy_violations"]
  BY <1>1, <1>2, SecuritySignal DEF Assembled
<1>4. /\ "policy_violations" \in DOMAIN outcome.signals
      /\ outcome.signals["policy_violations"] = sec["policy_violations"]
  BY <1>1, <1>2, <1>3, NumberObserved
<1> QED
  BY <1>2, <1>4 DEF AtLeast

(* A metric of which some name is there and readable.                      *)
LEMMA MetricSeen ==
    ASSUME Scored, outcome.status = 200, NEW s \in DOMAIN METRIC_ALIASES,
           s \notin DOMAIN evidence.signals, NEW names,
           names = {METRIC_ALIASES[s][i] : i \in DOMAIN METRIC_ALIASES[s]},
           \E k \in names \cap DOMAIN evidence.metrics : evidence.metrics[k] # Unreadable
    PROVE  \E k \in names \cap DOMAIN evidence.metrics :
               /\ evidence.metrics[k] # Unreadable
               /\ s \in DOMAIN outcome.signals /\ outcome.signals[s] = evidence.metrics[k]
<1> DEFINE places == Numbers(evidence.metrics, METRIC_ALIASES[s])
<1>1. places # {}
  BY DEF Numbers
<1>2. PICK i \in places :
          s \in DOMAIN Assembled /\ Assembled[s] = evidence.metrics[METRIC_ALIASES[s][i]]
  BY <1>1, MetricSignal DEF Assembled
<1> DEFINE key == METRIC_ALIASES[s][i]
<1>3. key \in names \cap DOMAIN evidence.metrics /\ evidence.metrics[key] # Unreadable
  <2>1. \A j \in places : /\ METRIC_ALIASES[s][j] \in names \cap DOMAIN evidence.metrics
                           /\ evidence.metrics[METRIC_ALIASES[s][j]] # Unreadable
    BY DEF Numbers
  <2> HIDE DEF places
  <2> QED
    BY <1>2, <2>1
<1>4. s \in AllSignals
  BY Aliases
<1>5. Assembled[s] = evidence.metrics[key]
  BY <1>2
<1> HIDE DEF key
<1>6. s \in DOMAIN outcome.signals /\ outcome.signals[s] = evidence.metrics[key]
  BY <1>2, <1>3, <1>4, <1>5, NumberObserved
<1> QED
  BY <1>3, <1>6

LEMMA DropSeen ==
    ASSUME Scored, outcome.status = 200,
           "estimated_performance_drop" \notin DOMAIN evidence.signals,
           AllSay(evidence.metrics, {"estimated_performance_drop", "performance_drop"},
                  LAMBDA v : v >= 2000)
    PROVE  AtLeast(outcome.signals, "estimated_performance_drop", 2000)
<1> DEFINE s == "estimated_performance_drop"
           names == {"estimated_performance_drop", "performance_drop"}
<1>1. /\ s \in DOMAIN METRIC_ALIASES
      /\ names = {METRIC_ALIASES[s][i] : i \in DOMAIN METRIC_ALIASES[s]}
  <2>1. METRIC_ALIASES[s] = <<"estimated_performance_drop", "performance_drop">>
        /\ s \in DOMAIN METRIC_ALIASES
    BY DEF METRIC_ALIASES
  <2> QED
    BY <2>1
<1>2. /\ \E k \in names \cap DOMAIN evidence.metrics : evidence.metrics[k] # Unreadable
      /\ \A k \in names \cap DOMAIN evidence.metrics :
             evidence.metrics[k] # Unreadable => evidence.metrics[k] >= 2000
  BY DEF AllSay
<1> HIDE DEF names
<1>3. PICK k \in names \cap DOMAIN evidence.metrics :
          /\ evidence.metrics[k] # Unreadable
          /\ s \in DOMAIN outcome.signals /\ outcome.signals[s] = evidence.metrics[k]
  BY <1>1, <1>2, MetricSeen
<1> QED
  BY <1>2, <1>3 DEF AtLeast

LEMMA SpentSeen ==
    ASSUME Scored, outcome.status = 200,
           "error_budget_remaining" \notin DOMAIN evidence.signals,
           AllSay(evidence.metrics, {"error_budget_remaining", "error_budget_ratio"},
                  LAMBDA v : v <= 0)
    PROVE  AtMost(outcome.signals, "error_budget_remaining", 0)
<1> DEFINE s == "error_budget_remaining"
           names == {"error_budget_remaining", "error_budget_ratio"}
<1>1. /\ s \in DOMAIN METRIC_ALIASES
      /\ names = {METRIC_ALIASES[s][i] : i \in DOMAIN METRIC_ALIASES[s]}
  <2>1. METRIC_ALIASES[s] = <<"error_budget_remaining", "error_budget_ratio">>
        /\ s \in DOMAIN METRIC_ALIASES
    BY DEF METRIC_ALIASES
  <2> QED
    BY <2>1
<1>2. /\ \E k \in names \cap DOMAIN evidence.metrics : evidence.metrics[k] # Unreadable
      /\ \A k \in names \cap DOMAIN evidence.metrics :
             evidence.metrics[k] # Unreadable => evidence.metrics[k] <= 0
  BY DEF AllSay
<1> HIDE DEF names
<1>3. PICK k \in names \cap DOMAIN evidence.metrics :
          /\ evidence.metrics[k] # Unreadable
          /\ s \in DOMAIN outcome.signals /\ outcome.signals[s] = evidence.metrics[k]
  BY <1>1, <1>2, MetricSeen
<1> QED
  BY <1>2, <1>3 DEF AtMost

LEMMA ScoredBlocks == Scored => KnockoutsBlock
<1> SUFFICES ASSUME Scored, outcome.status = 200
             PROVE  LET e == evidence
                        Stands(signal) == signal \notin DOMAIN e.signals
                        Drop(v) == v >= 2000
                        Spent(v) == v <= 0
                    IN  /\ CriticalCves(e, 1) /\ Stands("critical_cves")
                             => "production" \notin outcome.allowed
                        /\ CriticalCves(e, 3) /\ Stands("critical_cves") => outcome.allowed = {}
                        /\ /\ AllSay(e.security, {"policy_violations"}, LAMBDA v : v >= 1)
                           /\ Stands("policy_violations")
                           => "production" \notin outcome.allowed
                        /\ /\ AllSay(e.metrics,
                                     {"estimated_performance_drop", "performance_drop"}, Drop)
                           /\ Stands("estimated_performance_drop")
                           => outcome.allowed = {}
                        /\ /\ AllSay(e.metrics,
                                     {"error_budget_remaining", "error_budget_ratio"}, Spent)
                           /\ Stands("error_budget_remaining")
                           => "production" \notin outcome.allowed
  BY DEF KnockoutsBlock
<1>1. ASSUME CriticalCves(evidence, 3), "critical_cves" \notin DOMAIN evidence.signals
      PROVE  outcome.allowed = {}
  <2>1. Active(outcome.signals, "critical_cves>=3")
    BY <1>1, CvesSeen, ActiveIs
  <2>2. Cap("critical_cves>=3", "FAIR", Rebuild) \in AllCaps
    BY DEF AllCaps
  <2> QED
    BY <2>1, <2>2, NowhereAllowed
<1>2. ASSUME CriticalCves(evidence, 1), "critical_cves" \notin DOMAIN evidence.signals
      PROVE  "production" \notin outcome.allowed
  <2>1. AtLeast(outcome.signals, "critical_cves", 1)
    BY <1>2, CvesSeen
  <2>2. /\ Cap("critical_cves>=3", "FAIR", Rebuild) \in AllCaps
        /\ Cap("critical_cves>=1", "GOOD", Rebuild) \in AllCaps
    BY DEF AllCaps
  <2>3. CASE AtLeast(outcome.signals, "critical_cves", 3)
    BY <2>2, <2>3, ActiveIs, NowhereAllowed
  <2>4. CASE ~AtLeast(outcome.signals, "critical_cves", 3)
    BY <2>1, <2>2, <2>4, ActiveIs, NotForProduction
  <2> QED
    BY <2>3, <2>4
<1>3. ASSUME AllSay(evidence.security, {"policy_violations"}, LAMBDA v : v >= 1),
             "policy_violations" \notin DOMAIN evidence.signals
      PROVE  "production" \notin outcome.allowed
  <2>1. Active(outcome.signals, "policy_violations>=1")
    BY <1>3, ViolationsSeen, ActiveIs
  <2>2. Cap("policy_violations>=1", "GOOD", FixPolicy) \in AllCaps
    BY DEF AllCaps
  <2> QED
    BY <2>1, <2>2, NotForProduction
<1>4. ASSUME AllSay(evidence.metrics, {"estimated_performance_drop", "performance_drop"},
                    LAMBDA v : v >= 2000),
             "estimated_performance_drop" \notin DOMAIN evidence.signals
      PROVE  outcome.allowed = {}
  <2>1. Active(outcome.signals, "performance_drop>=0.20")
    BY <1>4, DropSeen, ActiveIs
  <2>2. Cap("performance_drop>=0.20", "FAIR", PromoteWinner) \in AllCaps
    BY DEF AllCaps
  <2> QED
    BY <2>1, <2>2, NowhereAllowed
<1>5. ASSUME AllSay(evidence.metrics, {"error_budget_remaining", "error_budget_ratio"},
                    LAMBDA v : v <= 0),
             "error_budget_remaining" \notin DOMAIN evidence.signals
      PROVE  "production" \notin outcome.allowed
  <2>1. Active(outcome.signals, "error_budget_exhausted")
    BY <1>5, SpentSeen, ActiveIs
  <2>2. Cap("error_budget_exhausted", "GOOD", Hedge) \in AllCaps
    BY DEF AllCaps
  <2> QED
    BY <2>1, <2>2, NotForProduction
<1> QED
  BY <1>1, <1>2, <1>3, <1>4, <1>5

(* The caps of trust_engine.py keep a version out that the tools found     *)
(* unfit, through the assembly and the promotion policy's own limits.      *)
THEOREM KnockoutsHold == Spec => []KnockoutsBlock
BY AlwaysScored, ScoredBlocks, PTL

-----------------------------------------------------------------------------
(* The compliance checker's verdict.                                       *)

Checks(e) == check_eu_ai_act_compliance(e.tags, e.metrics, e.checker.card)

LEMMA ComplianceIs ==
    ASSUME NEW e, Compliance(e) # <<>>
    PROVE  e.checker.mounted /\ Compliance(e) = to_trust_evidence(Checks(e))
BY DEF Compliance, Checks

(* An explicit flag of one key.                                            *)
SaysFlag(section, signal, key) ==
    /\ key \in DOMAIN section /\ ReadableFlag(section[key])
          => /\ DOMAIN ExplicitFlag(section, signal, <<key>>) = {signal}
             /\ ExplicitFlag(section, signal, <<key>>)[signal] = Flag(section[key])
    /\ key \notin DOMAIN section => DOMAIN ExplicitFlag(section, signal, <<key>>) = {}

LEMMA OneKeyFlag ==
    ASSUME NEW section, NEW signal, NEW key PROVE SaysFlag(section, signal, key)
<1> DEFINE keys == <<key>>
           present == {i \in DOMAIN keys : keys[i] \in DOMAIN section}
           token == First(section, keys, present)
<1>1. DOMAIN keys = {1} /\ keys[1] = key
  OBVIOUS
<1>2. ExplicitFlag(section, signal, keys) =
          [k \in IF present # {} /\ ReadableFlag(token) THEN {signal} ELSE {} |-> Flag(token)]
  BY DEF ExplicitFlag
<1>3. CASE key \in DOMAIN section
  <2>1. present = {1}
    BY <1>1, <1>3
  <2>2. Min({1}) = 1
    BY DEF Min
  <2>3. token = section[key]
    BY <1>1, <2>1, <2>2 DEF First
  <2> HIDE DEF present, token, keys
  <2> QED
    BY <1>2, <1>3, <2>1, <2>3 DEF keys, SaysFlag
<1>4. CASE key \notin DOMAIN section
  <2>1. present = {}
    BY <1>1, <1>4
  <2> HIDE DEF present, token, keys
  <2> QED
    BY <1>2, <1>4, <2>1 DEF keys, SaysFlag
<1> QED
  BY <1>3, <1>4

LEMMA ErrorsPassed ==
    ASSUME NEW e, is_compliant(Checks(e))
    PROVE  /\ Checks(e).training_data_documented /\ Checks(e).explainability_logged
           /\ Checks(e).model_card_exists
           /\ accuracy(e.metrics) > 0
           /\ accuracy(e.metrics) >= MinimumAccuracy
<1>1. \A c \in Errors : Checks(e)[c]
  BY DEF is_compliant
<1>2. /\ Checks(e)["performance_metrics_logged"] /\ Checks(e)["minimum_accuracy_threshold"]
      /\ Checks(e)["training_data_documented"] /\ Checks(e)["explainability_logged"]
      /\ Checks(e)["model_card_exists"]
  BY <1>1 DEF Errors
<1>3. /\ Checks(e)["performance_metrics_logged"] = has_performance_metrics(e.metrics)
      /\ Checks(e)["minimum_accuracy_threshold"] = accuracy_sufficient(e.metrics)
  BY DEF Checks, check_eu_ai_act_compliance
<1>4. accuracy(e.metrics) > 0
  BY <1>2, <1>3 DEF has_performance_metrics
<1>5. accuracy(e.metrics) >= MinimumAccuracy
  BY <1>2, <1>3 DEF accuracy_sufficient
<1> QED
  BY <1>2, <1>4, <1>5

LEMMA VerdictSignals ==
    ASSUME NEW e, Compliance(e) # <<>>
    PROVE  LET c == FromCompliance(Compliance(e))
               f == Checks(e)
           IN  /\ {"shap_logged", "model_card_present", "lineage_recorded",
                   "eu_ai_act_compliant"} \subseteq DOMAIN c
               /\ c["shap_logged"] = IF f["explainability_logged"] THEN 1 ELSE 0
               /\ c["model_card_present"] = IF f["model_card_exists"] THEN 1 ELSE 0
               /\ c["lineage_recorded"] = IF f["training_data_documented"] THEN 1 ELSE 0
               /\ c["eu_ai_act_compliant"] = IF is_compliant(f) THEN 1 ELSE 0
<1> DEFINE f == Checks(e)
           Token(b) == IF b THEN "true" ELSE "false"
           report == Compliance(e)
           checks == IF "checks" \in DOMAIN report THEN report.checks ELSE None
           known == DOMAIN checks \cap DOMAIN CHECK_TO_SIGNAL
           From(s) == Flag(checks[CHOOSE x \in known : CHECK_TO_SIGNAL[x] = s])
           g == [s \in {CHECK_TO_SIGNAL[x] : x \in known} |-> From(s)]
           h == ExplicitFlag(report, "eu_ai_act_compliant", <<"is_compliant">>)
           c == FromCompliance(report)
<1>1. /\ DOMAIN report = {"is_compliant", "checks"}
      /\ report.is_compliant = Token(is_compliant(f))
      /\ report.checks = [x \in DOMAIN f |-> Token(f[x])]
  BY ComplianceIs DEF to_trust_evidence
<1>2. DOMAIN f = {"risk_assessment_documented", "training_data_documented",
                  "explainability_logged", "human_oversight_gate", "model_card_exists",
                  "performance_metrics_logged", "minimum_accuracy_threshold",
                  "bias_fairness_check"}
  BY DEF Checks, check_eu_ai_act_compliance
<1>3. checks = [x \in DOMAIN f |-> Token(f[x])]
  BY <1>1
<1>4. /\ known = {"explainability_logged", "model_card_exists", "training_data_documented",
                  "human_oversight_gate"}
      /\ CHECK_TO_SIGNAL["explainability_logged"] = "shap_logged"
      /\ CHECK_TO_SIGNAL["model_card_exists"] = "model_card_present"
      /\ CHECK_TO_SIGNAL["training_data_documented"] = "lineage_recorded"
      /\ CHECK_TO_SIGNAL["human_oversight_gate"] = "human_oversight_defined"
  BY <1>2, <1>3 DEF CHECK_TO_SIGNAL
<1>5. \A b \in BOOLEAN : Flag(Token(b)) = (IF b THEN 1 ELSE 0) /\ ReadableFlag(Token(b))
  BY DEF Flag, ReadableFlag, TrueTokens, FalseTokens
<1>6. c = g ++ h
  BY DEF FromCompliance
<1>7. ASSUME NEW x \in known
      PROVE  /\ CHECK_TO_SIGNAL[x] \in DOMAIN g
             /\ g[CHECK_TO_SIGNAL[x]] = Flag(checks[x])
  <2>1. (CHOOSE y \in known : CHECK_TO_SIGNAL[y] = CHECK_TO_SIGNAL[x]) = x
    <3>1. \A y \in known : CHECK_TO_SIGNAL[y] = CHECK_TO_SIGNAL[x] => y = x
      BY <1>4
    <3> HIDE DEF known
    <3> QED
      BY <3>1
  <2>2. CHECK_TO_SIGNAL[x] \in DOMAIN g
    OBVIOUS
  <2>3. g[CHECK_TO_SIGNAL[x]] = From(CHECK_TO_SIGNAL[x])
    BY <2>2
  <2> QED
    BY <2>1, <2>2, <2>3
<1>8. DOMAIN h = {"eu_ai_act_compliant"}
      /\ h["eu_ai_act_compliant"] = Flag(Token(is_compliant(f)))
  <2>1. is_compliant(f) \in BOOLEAN
    BY DEF is_compliant
  <2>2. ReadableFlag(report["is_compliant"]) /\ "is_compliant" \in DOMAIN report
    BY <1>1, <1>5, <2>1
  <2>3. report["is_compliant"] = Token(is_compliant(f))
    BY <1>1
  <2> HIDE DEF report, Token, f
  <2>4. /\ DOMAIN ExplicitFlag(report, "eu_ai_act_compliant", <<"is_compliant">>)
              = {"eu_ai_act_compliant"}
        /\ ExplicitFlag(report, "eu_ai_act_compliant", <<"is_compliant">>)["eu_ai_act_compliant"]
              = Flag(report["is_compliant"])
    <3>1. SaysFlag(report, "eu_ai_act_compliant", "is_compliant")
      BY OneKeyFlag
    <3> QED
      BY <2>2, <3>1 DEF SaysFlag
  <2> QED
    BY <2>3, <2>4
<1>9. "eu_ai_act_compliant" \notin DOMAIN g
  BY <1>4
<1>10. \A x \in known : f[x] \in BOOLEAN
  <2>1. /\ f["training_data_documented"] = has_data_lineage(e.tags)
        /\ f["explainability_logged"] = has_shap(e.tags, e.metrics)
        /\ f["human_oversight_gate"] = has_human_oversight(e.tags)
        /\ f["model_card_exists"] = (e.checker.card # "none")
    BY DEF Checks, check_eu_ai_act_compliance
  <2>2. has_data_lineage(e.tags) \in BOOLEAN
    BY DEF has_data_lineage, Documented
  <2>3. has_shap(e.tags, e.metrics) \in BOOLEAN
    BY DEF has_shap
  <2>4. has_human_oversight(e.tags) \in BOOLEAN
    BY DEF has_human_oversight
  <2>5. (e.checker.card # "none") \in BOOLEAN
    OBVIOUS
  <2> HIDE DEF f, known
  <2> QED
    BY <1>4, <2>1, <2>2, <2>3, <2>4, <2>5
<1>11. \A x \in known : Flag(checks[x]) = IF f[x] THEN 1 ELSE 0
  BY <1>2, <1>3, <1>4, <1>5, <1>10
<1> HIDE DEF g, h, known, checks, report, f
<1>12. \A x \in known : CHECK_TO_SIGNAL[x] \in DOMAIN (g ++ h)
             /\ (g ++ h)[CHECK_TO_SIGNAL[x]] = IF f[x] THEN 1 ELSE 0
  BY <1>7, <1>11, JoinedAt
<1>13. "eu_ai_act_compliant" \in DOMAIN (g ++ h)
       /\ (g ++ h)["eu_ai_act_compliant"] = IF is_compliant(f) THEN 1 ELSE 0
  <2>1. is_compliant(f) \in BOOLEAN
    BY DEF is_compliant
  <2> QED
    BY <1>5, <1>8, <1>9, <2>1, JoinedAt
<1>14. /\ {"shap_logged", "model_card_present", "lineage_recorded",
           "eu_ai_act_compliant"} \subseteq DOMAIN c
       /\ c["shap_logged"] = IF f["explainability_logged"] THEN 1 ELSE 0
       /\ c["model_card_present"] = IF f["model_card_exists"] THEN 1 ELSE 0
       /\ c["lineage_recorded"] = IF f["training_data_documented"] THEN 1 ELSE 0
       /\ c["eu_ai_act_compliant"] = IF is_compliant(f) THEN 1 ELSE 0
  BY <1>4, <1>6, <1>12, <1>13
<1> QED
  BY <1>14 DEF f, report

LEMMA ScoredDocumented == Scored => CompliantIsDocumented
<1> DEFINE s == outcome.signals
           e == evidence
           x == Assembled
           c == FromCompliance(Compliance(e))
<1> SUFFICES ASSUME Scored, outcome.status = 200, Compliance(e) # <<>>, e.top = <<>>,
                    e.signals = <<>>, s.eu_ai_act_compliant = 1
             PROVE  /\ s.shap_logged = 1 /\ s.lineage_recorded = 1 /\ s.model_card_present = 1
                    /\ s.accuracy >= MinimumAccuracy
  BY DEF CompliantIsDocumented
<1> DEFINE Verdicts == {"shap_logged", "model_card_present", "lineage_recorded",
                        "eu_ai_act_compliant"}
<1>1. \A k : k \notin DOMAIN e.signals
  OBVIOUS
<1>2. \A k : k \notin DOMAIN FromTopLevelFlags(e.top)
  <2> DEFINE top == e.top
  <2>1. "model_card_present" \notin DOMAIN top
    OBVIOUS
  <2> HIDE DEF top
  <2>2. DOMAIN ExplicitFlag(top, "model_card_present", <<"model_card_present">>) = {}
    <3>1. SaysFlag(top, "model_card_present", "model_card_present")
      BY OneKeyFlag
    <3> QED
      BY <2>1, <3>1 DEF SaysFlag
  <2>3. DOMAIN FromTopLevelFlags(top) = {}
    BY <2>2 DEF FromTopLevelFlags
  <2> QED
    BY <2>3 DEF top
<1>3. /\ Verdicts \subseteq DOMAIN c
      /\ c["shap_logged"] = IF Checks(e)["explainability_logged"] THEN 1 ELSE 0
      /\ c["model_card_present"] = IF Checks(e)["model_card_exists"] THEN 1 ELSE 0
      /\ c["lineage_recorded"] = IF Checks(e)["training_data_documented"] THEN 1 ELSE 0
      /\ c["eu_ai_act_compliant"] = IF is_compliant(Checks(e)) THEN 1 ELSE 0
  BY VerdictSignals
<1>4. Verdicts \subseteq AllSignals /\ "accuracy" \in AllSignals
  BY SignalNames
<1>5. \A k \in Verdicts : k \in DOMAIN x /\ x[k] = c[k]
  <2> SUFFICES ASSUME NEW k \in Verdicts PROVE k \in DOMAIN x /\ x[k] = c[k]
    OBVIOUS
  <2>1. k \in DOMAIN c /\ k \notin DOMAIN e.signals /\ k \notin DOMAIN FromTopLevelFlags(e.top)
    BY <1>1, <1>2, <1>3
  <2> QED
    BY <2>1, AssembledAt DEF Assembled
<1>6. \A k \in Verdicts : s[k] = c[k]
  <2> SUFFICES ASSUME NEW k \in Verdicts PROVE s[k] = c[k]
    OBVIOUS
  <2>1. c[k] \in {0, 1}
    BY <1>3
  <2>2. x[k] # Unreadable
    BY <1>5, <2>1, EvidenceAssumption DEF EvidenceAssumption
  <2> QED
    BY <1>4, <1>5, <2>2, NumberObserved
<1>7. is_compliant(Checks(e))
  <2>1. c["eu_ai_act_compliant"] = 1
    BY <1>6
  <2> HIDE DEF c
  <2> QED
    BY <1>3, <2>1
<1>8. s.shap_logged = 1 /\ s.lineage_recorded = 1 /\ s.model_card_present = 1
  <2>1. /\ Checks(e).training_data_documented /\ Checks(e).explainability_logged
        /\ Checks(e).model_card_exists
    BY <1>7, ErrorsPassed
  <2> HIDE DEF c, s
  <2> QED
    BY <1>3, <1>6, <2>1
<1>9. s.accuracy >= MinimumAccuracy
  <2> DEFINE m == e.metrics
             a == METRIC_ALIASES["accuracy"]
             there == Numbers(m, a)
  <2>1. accuracy(m) > 0 /\ accuracy(m) >= MinimumAccuracy /\ accuracy(m) # Unreadable
    <3>1. ~CheckRaises(m)
      BY AnswerIs, ComplianceIs DEF CheckAborts
    <3> QED
      BY <1>7, <3>1, ErrorsPassed DEF CheckRaises
  <2>2. a = <<"accuracy", "val_accuracy">> /\ "accuracy" \in DOMAIN METRIC_ALIASES
    BY DEF METRIC_ALIASES
  <2>3. DOMAIN a = {1, 2} /\ a[1] = "accuracy" /\ a[2] = "val_accuracy"
    BY <2>2
  <2>4. \/ 1 \in there /\ accuracy(m) = m[a[1]]
        \/ 1 \notin there /\ 2 \in there /\ accuracy(m) = m[a[2]]
    <3>1. CASE "accuracy" \in DOMAIN m
      <4>1. accuracy(m) = m["accuracy"]
        BY <3>1 DEF accuracy, Get
      <4> HIDE DEF a, m
      <4> QED
        BY <2>1, <2>3, <3>1, <4>1 DEF Numbers
    <3>2. CASE "accuracy" \notin DOMAIN m
      <4>1. "val_accuracy" \in DOMAIN m /\ accuracy(m) = m["val_accuracy"]
        BY <2>1, <3>2 DEF accuracy, Get
      <4> HIDE DEF a, m
      <4> QED
        BY <2>1, <2>3, <3>2, <4>1 DEF Numbers
    <3> QED
      BY <3>1, <3>2
  <2>5. PICK i \in there :
            /\ \A j \in there : i <= j
            /\ "accuracy" \in DOMAIN x /\ x["accuracy"] = m[a[i]]
    <3>1. there # {}
      BY <2>4
    <3>2. /\ "accuracy" \in DOMAIN METRIC_ALIASES /\ "accuracy" \notin DOMAIN evidence.signals
          /\ Numbers(evidence.metrics, METRIC_ALIASES["accuracy"]) # {}
      BY <1>1, <2>2, <3>1
    <3>3. \E i \in Numbers(evidence.metrics, METRIC_ALIASES["accuracy"]) :
              /\ \A j \in Numbers(evidence.metrics, METRIC_ALIASES["accuracy"]) : i <= j
              /\ "accuracy" \in DOMAIN assemble_signals(Bundle(evidence))
              /\ assemble_signals(Bundle(evidence))["accuracy"]
                    = evidence.metrics[METRIC_ALIASES["accuracy"][i]]
      BY ONLY <3>2, MetricSignal
    <3> QED
      BY <3>3 DEF Assembled
  <2>6. i \in {1, 2}
    <3>1. there \subseteq DOMAIN a
      BY DEF Numbers
    <3> HIDE DEF a, there
    <3> QED
      BY <2>3, <3>1
  <2>7. accuracy(m) = m[a[i]]
    <3> HIDE DEF a, there, m, x
    <3> QED
      BY <2>4, <2>5, <2>6
  <2>8. x["accuracy"] = accuracy(m)
    BY <2>5, <2>7
  <2>9. s["accuracy"] = accuracy(m)
    BY <1>4, <2>1, <2>5, <2>8, NumberObserved
  <2> QED
    BY <2>1, <2>9
<1> QED
  BY <1>8, <1>9

(* What the checker found is what the scorer sees: explained, documented,  *)
(* with its lineage and accurate, though the two read the tags and the     *)
(* metrics under names of their own.                                       *)
THEOREM CompliantDocumented == Spec => []CompliantIsDocumented
BY AlwaysScored, ScoredDocumented, PTL

-----------------------------------------------------------------------------
(* The advice and the plan to a band.                                      *)

Recoverable(lost) == \A p \in DOMAIN Signals : lost[p] \in Nat

Points(i, lost, u, b) == Recovered(i, lost) + CapBonus(REMEDIATIONS[i].action, u, b)

Entry(i, lost, u, b) ==
    [pillar |-> REMEDIATIONS[i].pillar, of |-> i, points_recoverable |-> Points(i, lost, u, b),
     rank |-> <<IF \E c \in b : c.lifting_action = REMEDIATIONS[i].action THEN 0 ELSE 1,
                -Round(2 * Points(i, lost, u, b), REMEDIATIONS[i].effort),
                -Points(i, lost, u, b), i>>]

LEMMA Remedies ==
    /\ DOMAIN REMEDIATIONS = 1..12
    /\ \A i \in 1..12 :
           /\ REMEDIATIONS[i].pillar \in DOMAIN Signals
           /\ REMEDIATIONS[i].effort \in Nat \ {0} /\ REMEDIATIONS[i].recovery \in Nat
<1> DEFINE Row(i, pillar, effort, recovery) ==
               /\ REMEDIATIONS[i].pillar = pillar
               /\ REMEDIATIONS[i].effort = effort /\ REMEDIATIONS[i].recovery = recovery
           Right(i) == /\ REMEDIATIONS[i].pillar \in DOMAIN Signals
                       /\ REMEDIATIONS[i].effort \in Nat \ {0}
                       /\ REMEDIATIONS[i].recovery \in Nat
<1>1. Row(1, "reliability", 8, 80)
  BY DEF REMEDIATIONS
<1>2. Row(2, "security", 2, 80)
  BY DEF REMEDIATIONS
<1>3. Row(3, "governance", 2, 45)
  BY DEF REMEDIATIONS
<1>4. Row(4, "cost", 6, 50)
  BY DEF REMEDIATIONS
<1>5. Row(5, "performance", 2, 80)
  BY DEF REMEDIATIONS
<1>6. Row(6, "governance", 4, 55)
  BY DEF REMEDIATIONS
<1>7. Row(7, "security", 3, 90)
  BY DEF REMEDIATIONS
<1>8. Row(8, "drift", 1, 40)
  BY DEF REMEDIATIONS
<1>9. Row(9, "cost", 2, 70)
  BY DEF REMEDIATIONS
<1>10. Row(10, "performance", 12, 90)
  BY DEF REMEDIATIONS
<1>11. Row(11, "reliability", 1, 60)
  BY DEF REMEDIATIONS
<1>12. Row(12, "drift", 4, 85)
  BY DEF REMEDIATIONS
<1>13. DOMAIN REMEDIATIONS = 1..12
  BY DEF REMEDIATIONS
<1>14. Right(1) /\ Right(2) /\ Right(3) /\ Right(4) /\ Right(5) /\ Right(6)
  BY <1>1, <1>2, <1>3, <1>4, <1>5, <1>6, Pillars
<1>15. Right(7) /\ Right(8) /\ Right(9) /\ Right(10) /\ Right(11) /\ Right(12)
  BY <1>7, <1>8, <1>9, <1>10, <1>11, <1>12, Pillars
<1> HIDE DEF Right
<1>16. \A i \in 1..12 : Right(i)
  BY <1>14, <1>15
<1> QED
  BY <1>13, <1>16 DEF Right

LEMMA Actions ==
    /\ REMEDIATIONS[1].action = Hedge /\ REMEDIATIONS[2].action = FixPolicy
    /\ REMEDIATIONS[5].action = PromoteWinner /\ REMEDIATIONS[6].action = PublishCard
    /\ REMEDIATIONS[7].action = Rebuild
    /\ \A i \in {3, 4, 8, 9, 10, 11, 12} :
           REMEDIATIONS[i].action \notin {Hedge, FixPolicy, PromoteWinner, PublishCard, Rebuild}
<1>1. REMEDIATIONS[1].action = Hedge
  BY DEF REMEDIATIONS
<1>2. REMEDIATIONS[2].action = FixPolicy
  BY DEF REMEDIATIONS
<1>3. REMEDIATIONS[3].action = "log SHAP"
  BY DEF REMEDIATIONS
<1>4. REMEDIATIONS[4].action = "spot nodes"
  BY DEF REMEDIATIONS
<1>5. REMEDIATIONS[5].action = PromoteWinner
  BY DEF REMEDIATIONS
<1>6. REMEDIATIONS[6].action = PublishCard
  BY DEF REMEDIATIONS
<1>7. REMEDIATIONS[7].action = Rebuild
  BY DEF REMEDIATIONS
<1>8. REMEDIATIONS[8].action = "refresh reference"
  BY DEF REMEDIATIONS
<1>9. REMEDIATIONS[9].action = "right-size pods"
  BY DEF REMEDIATIONS
<1>10. REMEDIATIONS[10].action = "HPO sweep"
  BY DEF REMEDIATIONS
<1>11. REMEDIATIONS[11].action = "scale replicas"
  BY DEF REMEDIATIONS
<1>12. REMEDIATIONS[12].action = "retrain"
  BY DEF REMEDIATIONS
<1>13. \A action \in {"log SHAP", "spot nodes", "refresh reference", "right-size pods",
                       "HPO sweep", "scale replicas", "retrain"} :
          action \notin {Hedge, FixPolicy, PromoteWinner, PublishCard, Rebuild}
  BY DEF Hedge, FixPolicy, PromoteWinner, PublishCard, Rebuild
<1> QED
  BY <1>1, <1>2, <1>3, <1>4, <1>5, <1>6, <1>7, <1>8, <1>9, <1>10, <1>11, <1>12, <1>13, ZenonT(40)

(* Each cap is lifted by one action of the table.                          *)
LEMMA LiftedByOne ==
    ASSUME NEW c \in AllCaps
    PROVE  \E i \in 1..12 : \A j \in 1..12 : REMEDIATIONS[j].action = c.lifting_action <=> j = i
<1>1. c.lifting_action \in {Hedge, FixPolicy, PromoteWinner, PublishCard, Rebuild}
  BY CapFields DEF AllCaps
<1>2. Hedge # FixPolicy /\ Hedge # PromoteWinner /\ Hedge # PublishCard /\ Hedge # Rebuild
      /\ FixPolicy # PromoteWinner /\ FixPolicy # PublishCard /\ FixPolicy # Rebuild
      /\ PromoteWinner # PublishCard /\ PromoteWinner # Rebuild /\ PublishCard # Rebuild
  BY DEF Hedge, FixPolicy, PromoteWinner, PublishCard, Rebuild
<1>3. \A j \in 1..12 : j \in {1, 2, 5, 6, 7} \/ j \in {3, 4, 8, 9, 10, 11, 12}
  OBVIOUS
<1>4. CASE c.lifting_action = Hedge
  <2>1. \A j \in 1..12 : REMEDIATIONS[j].action = c.lifting_action <=> j = 1
    BY <1>2, <1>3, <1>4, Actions
  <2> QED
    BY <2>1
<1>5. CASE c.lifting_action = FixPolicy
  <2>1. \A j \in 1..12 : REMEDIATIONS[j].action = c.lifting_action <=> j = 2
    BY <1>2, <1>3, <1>5, Actions
  <2> QED
    BY <2>1
<1>6. CASE c.lifting_action = PromoteWinner
  <2>1. \A j \in 1..12 : REMEDIATIONS[j].action = c.lifting_action <=> j = 5
    BY <1>2, <1>3, <1>6, Actions
  <2> QED
    BY <2>1
<1>7. CASE c.lifting_action = PublishCard
  <2>1. \A j \in 1..12 : REMEDIATIONS[j].action = c.lifting_action <=> j = 6
    BY <1>2, <1>3, <1>7, Actions
  <2> QED
    BY <2>1
<1>8. CASE c.lifting_action = Rebuild
  <2>1. \A j \in 1..12 : REMEDIATIONS[j].action = c.lifting_action <=> j = 7
    BY <1>2, <1>3, <1>8, Actions
  <2> QED
    BY <2>1
<1> QED
  BY <1>1, <1>4, <1>5, <1>6, <1>7, <1>8

LEMMA AdviseIs ==
    ASSUME NEW lost, NEW u, NEW b
    PROVE  Advise(lost, u, b) =
             {p \in {Entry(i, lost, u, b) : i \in 1..12} : p.points_recoverable >= 10}
<1>1. DOMAIN REMEDIATIONS = 1..12
  BY Remedies
<1> QED
  BY <1>1 DEF Advise, Entry, Points, WorthListing

LEMMA PointsLostNat ==
    ASSUME NEW s, WellObserved(s)
    PROVE  Recoverable(PointsLost(s))
<1> SUFFICES ASSUME NEW p \in DOMAIN Signals PROVE PointsLost(s)[p] \in Nat
  BY DEF Recoverable
<1> DEFINE n == Available(p) * Part - Earned(p, s)
<1>1. n \in Nat
  <2>1. Available(p) * Part \in Int
    BY EarnedWithin DEF Part, One
  <2> DEFINE a == Available(p) * Part
  <2>2. Earned(p, s) \in 0..a
    BY EarnedWithin
  <2> HIDE DEF a
  <2> QED
    BY <2>1, <2>2 DEF a
<1>2. n \div 100 \in Nat
  <2> HIDE DEF n
  <2>1. 0 \div 100 <= n \div 100 /\ 0 \div 100 = 0
    BY <1>1, DivisionMonotone
  <2> QED
    BY <1>1, <2>1, Division
<1>3. Part \div 1000 \in Nat \ {0}
  BY DEF Part, One
<1>4. PointsLost(s)[p] = Round(n \div 100, Part \div 1000)
  BY DEF PointsLost
<1> HIDE DEF n
<1> DEFINE x == n \div 100
           y == Part \div 1000
<1>5. x \in Nat /\ y \in Nat \ {0} /\ PointsLost(s)[p] = Round(x, y)
  BY <1>2, <1>3, <1>4
<1> HIDE DEF x, y
<1> QED
  BY <1>5, RoundNat

LEMMA RecoveredNat ==
    ASSUME NEW lost, Recoverable(lost), NEW i \in 1..12
    PROVE  Recovered(i, lost) \in Nat
<1> DEFINE l == lost[REMEDIATIONS[i].pillar]
           r == REMEDIATIONS[i].recovery
<1>1. l \in Nat /\ r \in Nat
  BY Remedies DEF Recoverable
<1>2. Recovered(i, lost) = Round(l * r, 100)
  BY DEF Recovered
<1> HIDE DEF l, r
<1>3. l * r \in Nat
  <2>1. 0 * r <= l * r /\ l * r \in Int
    BY <1>1, Times
  <2>2. 0 * r = 0
    BY <1>1
  <2> QED
    BY <2>1, <2>2
<1> DEFINE n == l * r
<1> HIDE DEF n
<1>4. Round(n, 100) \in Nat
  BY <1>3, RoundNat DEF n
<1> QED
  BY <1>2, <1>4 DEF n

LEMMA LowestOfNone == ASSUME NEW u \in Int PROVE Lowest(u, {}) = u
BY LowestIs

LEMMA LowestOfOne ==
    ASSUME NEW u \in Int, NEW c \in AllCaps, c.cap < u
    PROVE  Lowest(u, {c}) = c.cap /\ c.cap \in Int
<1>1. {c} \in SUBSET AllCaps /\ c.cap \in Int
  BY AllCapsFinite
<1> DEFINE caps == {c}
<1>2. \A d \in caps : d = c
  OBVIOUS
<1>3. c \in caps
  OBVIOUS
<1> HIDE DEF caps
<1>4. /\ Lowest(u, caps) \in Int
      /\ Lowest(u, caps) <= u /\ \A d \in caps : Lowest(u, caps) <= d.cap
      /\ Lowest(u, caps) = u \/ \E d \in caps : Lowest(u, caps) = d.cap
  BY <1>1, LowestIs DEF caps
<1>5. Lowest(u, caps) = c.cap
  BY <1>1, <1>2, <1>3, <1>4
<1> QED
  BY <1>1, <1>5 DEF caps

LEMMA BonusOfNone ==
    ASSUME NEW u \in Int, NEW action
    PROVE  CapBonus(action, u, {}) = 0
<1> DEFINE none == {}
           lifted == {c \in none : c.lifting_action = action}
<1>1. lifted = none /\ none \ lifted = none
  OBVIOUS
<1>2. CapBonus(action, u, none)
          = 10 * Cardinality(lifted) * (Lowest(u, none \ lifted) - Lowest(u, none))
  BY DEF CapBonus
<1>3. Lowest(u, none) = u
  BY LowestOfNone
<1>4. Cardinality(none) = 0
  BY FS_EmptySet
<1> HIDE DEF none
<1>5. CapBonus(action, u, none) = 10 * 0 * (u - u)
  BY <1>1, <1>2, <1>3, <1>4
<1>6. CapBonus(action, u, none) = 0
  BY <1>5
<1> QED
  BY <1>6 DEF none

LEMMA BonusOfOne ==
    ASSUME NEW u \in Int, NEW c \in AllCaps, c.cap < u, NEW action
    PROVE  CapBonus(action, u, {c}) =
             IF c.lifting_action = action THEN 10 * (u - c.cap) ELSE 0
<1> DEFINE b == {c}
           lifted == {d \in b : d.lifting_action = action}
<1>1. CapBonus(action, u, b) = 10 * Cardinality(lifted) * (Lowest(u, b \ lifted) - Lowest(u, b))
  BY DEF CapBonus
<1>2. Lowest(u, b) = c.cap /\ c.cap \in Int
  BY LowestOfOne
<1>3. Cardinality(b) = 1 /\ Cardinality({}) = 0
  BY FS_Singleton, FS_EmptySet
<1>4. CASE c.lifting_action = action
  <2>1. lifted = b /\ b \ lifted = {}
    BY <1>4
  <2>2. Lowest(u, b \ lifted) = u
    BY <2>1, LowestOfNone
  <2> HIDE DEF b, lifted
  <2>3. CapBonus(action, u, b) = 10 * 1 * (u - c.cap)
    BY <1>1, <1>2, <1>3, <2>1, <2>2
  <2>4. CapBonus(action, u, b) = 10 * (u - c.cap)
    BY <1>2, <2>3
  <2> QED
    BY <1>4, <2>4 DEF b
<1>5. CASE c.lifting_action # action
  <2>1. lifted = {} /\ b \ lifted = b
    BY <1>5
  <2> HIDE DEF b, lifted
  <2>2. CapBonus(action, u, b) = 10 * 0 * (c.cap - c.cap)
    BY <1>1, <1>2, <1>3, <2>1
  <2>3. CapBonus(action, u, b) = 0
    BY <1>2, <2>2
  <2> QED
    BY <1>5, <2>3 DEF b
<1> QED
  BY <1>4, <1>5

LEMMA SumNat ==
    ASSUME NEW S, IsFiniteSet(S), NEW f, \A x \in S : f[x] \in Nat
    PROVE  SumFunctionOnSet(f, S) \in Nat
<1> DEFINE T(s) == SumFunctionOnSet(f, s)
           G == {s \in SUBSET S : T(s) \in Nat}
<1>1. {} \in G
  BY SumEmpty
<1>2. ASSUME NEW s \in SUBSET S, s # {}, s \ {Pick(s)} \in G PROVE s \in G
  <2>1. IsFiniteSet(s) /\ Numeric(f, s)
    BY FS_Subset DEF Numeric
  <2>2. T(s) = f[Pick(s)] + T(s \ {Pick(s)}) /\ Pick(s) \in s
    BY <1>2, <2>1, SumStep
  <2> QED
    BY <1>2, <2>2
<1>3. SUBSET S \subseteq G
  <2> HIDE DEF G
  <2> QED
    BY <1>1, <1>2, SubsetInd
<1> QED
  BY <1>3

LEMMA AdviceShape ==
    ASSUME NEW lost, NEW u, NEW b, \A i \in 1..12 : Points(i, lost, u, b) \in Int
    PROVE  /\ IsFiniteSet(Advise(lost, u, b))
           /\ \A p \in Advise(lost, u, b) :
                  /\ p.of \in 1..12 /\ p = Entry(p.of, lost, u, b)
                  /\ p.points_recoverable = Points(p.of, lost, u, b)
                  /\ p.points_recoverable \in Nat
           /\ \A i \in 1..12 :
                  Points(i, lost, u, b) >= 10 => Entry(i, lost, u, b) \in Advise(lost, u, b)
<1> DEFINE E(i) == Entry(i, lost, u, b)
           all == {E(i) : i \in 1..12}
           advice == Advise(lost, u, b)
<1>1. advice = {p \in all : p.points_recoverable >= 10}
  BY AdviseIs
<1>2. \A i \in 1..12 : E(i).of = i /\ E(i).points_recoverable = Points(i, lost, u, b)
  BY DEF Entry
<1> HIDE DEF E
<1>3. IsFiniteSet(all)
  <2> DEFINE N == 1..12
             f == [i \in N |-> E(i)]
  <2>1. f \in Surjection(N, all)
    BY DEF Surjection
  <2>2. IsFiniteSet(N)
    <3>1. \A x, y \in Int : IsFiniteSet(x..y)
      BY FS_Interval
    <3>2. 1 \in Int /\ 12 \in Int
      OBVIOUS
    <3> QED
      BY ONLY <3>1, <3>2, Zenon
  <2> HIDE DEF N, f, all
  <2> QED
    BY <2>1, <2>2, FS_Surjection
<1>4. IsFiniteSet(advice)
  <2>1. advice \in SUBSET all
    BY <1>1
  <2> HIDE DEF all, advice
  <2> QED
    BY <1>3, <2>1, FS_Subset
<1>5. \A p \in advice :
          /\ p.of \in 1..12 /\ p = E(p.of)
          /\ p.points_recoverable = Points(p.of, lost, u, b)
          /\ p.points_recoverable \in Nat
  <2> SUFFICES ASSUME NEW p \in advice
               PROVE  /\ p.of \in 1..12 /\ p = E(p.of)
                      /\ p.points_recoverable = Points(p.of, lost, u, b)
                      /\ p.points_recoverable \in Nat
    OBVIOUS
  <2>1. PICK i \in 1..12 : p = E(i)
    BY <1>1
  <2>2. p.points_recoverable >= 10
    BY <1>1
  <2> QED
    BY <1>2, <2>1, <2>2
<1>6. \A i \in 1..12 : Points(i, lost, u, b) >= 10 => E(i) \in advice
  BY <1>1, <1>2
<1> QED
  BY <1>4, <1>5, <1>6 DEF E

LEMMA GainedNat ==
    ASSUME NEW lost, NEW u, NEW b, \A i \in 1..12 : Points(i, lost, u, b) \in Int,
           NEW plans \in SUBSET Advise(lost, u, b)
    PROVE  /\ IsFiniteSet(plans) /\ Gained(plans) \in Nat
           /\ Gained(plans) = SumFunctionOnSet([p \in plans |-> p.points_recoverable], plans)
<1> DEFINE f == [p \in plans |-> p.points_recoverable]
           advice == Advise(lost, u, b)
<1>1. IsFiniteSet(advice) /\ \A p \in advice : p.points_recoverable \in Nat
  BY AdviceShape
<1>2. IsFiniteSet(plans) /\ \A p \in plans : f[p] \in Nat
  <2> HIDE DEF advice
  <2>1. plans \in SUBSET advice
    BY DEF advice
  <2> QED
    BY <1>1, <2>1, FS_Subset
<1>3. Gained(plans) = SumFunctionOnSet(f, plans)
  BY SumOverDomain DEF Gained
<1> HIDE DEF f
<1> QED
  BY <1>2, <1>3, SumNat DEF f

(* What is recovered beside what the lifted cap gives.                     *)
Regained(plan, lost) == SumFunction([p \in plan |-> Recovered(p.of, lost)])

LEMMA RegainedIs ==
    ASSUME NEW lost, Recoverable(lost), NEW u, NEW b,
           \A i \in 1..12 : Points(i, lost, u, b) \in Int,
           NEW plan \in SUBSET Advise(lost, u, b), NEW d,
           NEW p0, d[p0] \in Int, \A p \in plan : p # p0 => d[p] = 0,
           \A p \in plan : Points(p.of, lost, u, b) = Recovered(p.of, lost) + d[p]
    PROVE  /\ Regained(plan, lost) \in Nat
           /\ Gained(plan) = Regained(plan, lost) + (IF p0 \in plan THEN d[p0] ELSE 0)
<1> DEFINE f == [p \in plan |-> p.points_recoverable]
           h == [p \in plan |-> Recovered(p.of, lost)]
<1>1. IsFiniteSet(plan) /\ Gained(plan) = SumFunctionOnSet(f, plan)
  BY GainedNat
<1>2. Regained(plan, lost) = SumFunctionOnSet(h, plan)
  BY SumOverDomain DEF Regained
<1>3. \A p \in plan : /\ p.of \in 1..12
                      /\ p.points_recoverable = Points(p.of, lost, u, b)
  BY AdviceShape
<1>4. \A p \in plan : h[p] \in Nat
  BY <1>3, RecoveredNat
<1>5. \A p \in plan : d[p] \in Int
  OBVIOUS
<1>6. \A p \in plan : f[p] = h[p] + d[p]
  BY <1>3
<1> HIDE DEF f, h
<1>7. Numeric(h, plan) /\ Numeric(d, plan)
  BY <1>4, <1>5 DEF Numeric
<1>8. SumFunctionOnSet(f, plan) = SumFunctionOnSet(h, plan) + SumFunctionOnSet(d, plan)
  BY <1>1, <1>6, <1>7, SumLinear
<1>9. SumFunctionOnSet(d, plan) = IF p0 \in plan THEN d[p0] ELSE 0
  BY <1>1, SumSingle
<1>10. SumFunctionOnSet(h, plan) \in Nat
  BY <1>1, <1>4, SumNat
<1> QED
  BY <1>1, <1>2, <1>8, <1>9, <1>10

LEMMA PlanIs ==
    ASSUME NEW needed, NEW ranked
    PROVE  LET best == {p \in ranked :
                          \A q \in ranked : q.pillar = p.pillar /\ q # p => Before(p, q)}
               r == PlanToBand(needed, ranked)
           IN  /\ r.plan = {p \in best : Gained({q \in best : Before(q, p)}) < needed}
               /\ r.plan \in SUBSET ranked
               /\ r.reaches <=> Gained(r.plan) >= needed
BY DEF PlanToBand

(* No cap: the actions give what they recover.                             *)
LEMMA FreePlan ==
    ASSUME NEW lost, Recoverable(lost), NEW u \in Int, NEW needed \in Int, NEW plan,
           NEW r, r = PlanToBand(needed, Advise(lost, u, {})), r.reaches, plan = r.plan
    PROVE  Regained(plan, lost) \in Nat /\ Regained(plan, lost) >= needed
<1>1. \A i \in 1..12 : /\ Points(i, lost, u, {}) = Recovered(i, lost)
                       /\ Points(i, lost, u, {}) \in Int
  BY BonusOfNone, RecoveredNat DEF Points
<1> DEFINE advice == Advise(lost, u, {})
           d == [p \in plan \cup {0} |-> 0]
<1>2. plan \in SUBSET advice /\ Gained(plan) >= needed
  BY PlanIs
<1>3. \A p \in plan : p.of \in 1..12
  BY <1>1, <1>2, AdviceShape
<1>4. /\ d[0] \in Int /\ d[0] = 0 /\ \A p \in plan : d[p] = 0
      /\ \A p \in plan : Points(p.of, lost, u, {}) = Recovered(p.of, lost) + d[p]
  BY <1>1, <1>3, RecoveredNat
<1> HIDE DEF d
<1>5. /\ Regained(plan, lost) \in Nat
      /\ Gained(plan) = Regained(plan, lost) + (IF 0 \in plan THEN d[0] ELSE 0)
  BY <1>1, <1>2, <1>4, RegainedIs
<1> QED
  BY <1>2, <1>4, <1>5

(* One cap: the action that lifts it leads every ranking, and is in every  *)
(* plan that is not empty.                                                 *)
LEMMA CappedPlan ==
    ASSUME NEW lost, Recoverable(lost), NEW u \in Int, NEW c \in AllCaps, c.cap < u,
           NEW b, b = {c}, NEW needed \in Int, NEW plan,
           NEW r, r = PlanToBand(needed, Advise(lost, u, b)), r.reaches, plan = r.plan
    PROVE  /\ needed <= 0 => plan = {}
           /\ needed > 0 => /\ \E p \in plan : REMEDIATIONS[p.of].action = c.lifting_action
                            /\ Regained(plan, lost) \in Nat
                            /\ Regained(plan, lost) + 10 * (u - c.cap) >= needed
<1> DEFINE advice == Advise(lost, u, b)
           lift == 10 * (u - c.cap)
<1>1. c.cap \in Int /\ lift \in Int /\ lift >= 10
  BY AllCapsFinite
<1>2. PICK i0 \in 1..12 : \A j \in 1..12 : REMEDIATIONS[j].action = c.lifting_action <=> j = i0
  BY LiftedByOne
<1>3. \A i \in 1..12 : CapBonus(REMEDIATIONS[i].action, u, b) = IF i = i0 THEN lift ELSE 0
  BY <1>2, BonusOfOne
<1> HIDE DEF lift
<1>4. \A i \in 1..12 :
          /\ Points(i, lost, u, b) = Recovered(i, lost) + (IF i = i0 THEN lift ELSE 0)
          /\ Points(i, lost, u, b) \in Int /\ Recovered(i, lost) \in Nat
  BY <1>1, <1>3, RecoveredNat DEF Points
<1> DEFINE p0 == Entry(i0, lost, u, b)
<1>5. p0 \in advice
  <2>1. Points(i0, lost, u, b) >= 10
    BY <1>1, <1>4
  <2> QED
    BY <1>4, <2>1, AdviceShape
<1>6. \A p \in advice :
          /\ p.of \in 1..12 /\ p = Entry(p.of, lost, u, b)
          /\ p.rank[1] = (IF p.of = i0 THEN 0 ELSE 1)
          /\ \A i \in 1..4 : p.rank[i] \in Int
  <2> SUFFICES ASSUME NEW p \in advice
               PROVE  /\ p.of \in 1..12 /\ p = Entry(p.of, lost, u, b)
                      /\ p.rank[1] = (IF p.of = i0 THEN 0 ELSE 1)
                      /\ \A i \in 1..4 : p.rank[i] \in Int
    OBVIOUS
  <2>1. p.of \in 1..12 /\ p = Entry(p.of, lost, u, b)
    BY <1>4, AdviceShape
  <2> DEFINE i == p.of
             points == Points(i, lost, u, b)
             first == IF \E x \in b : x.lifting_action = REMEDIATIONS[i].action THEN 0 ELSE 1
             roi == Round(2 * points, REMEDIATIONS[i].effort)
  <2>2. first = IF i = i0 THEN 0 ELSE 1
    BY <1>2, <2>1
  <2>3. points \in Int /\ roi \in Int
    <3>1. points \in Int /\ REMEDIATIONS[i].effort \in Nat \ {0}
      BY <1>4, <2>1, Remedies
    <3> HIDE DEF points, i
    <3> QED
      BY <3>1, RoundBounds
  <2>4. p.rank = <<first, -roi, -points, i>>
    BY <2>1 DEF Entry
  <2> HIDE DEF first, roi, points
  <2>5. p.rank[1] = first /\ p.rank[2] = -roi /\ p.rank[3] = -points /\ p.rank[4] = i
    BY <2>4
  <2> QED
    BY <2>1, <2>2, <2>3, <2>5
<1>7. p0.of = i0
  BY DEF Entry
<1>8. \A p \in advice : p # p0 => p.of # i0
  BY <1>6
<1> HIDE DEF p0
<1>9. \A p \in advice : p # p0 => Before(p0, p)
  <2> SUFFICES ASSUME NEW p \in advice, p # p0 PROVE Before(p0, p)
    OBVIOUS
  <2>1. p0.rank[1] = 0 /\ p.rank[1] = 1
    BY <1>5, <1>6, <1>7, <1>8
  <2> QED
    BY <2>1 DEF Before
<1>10. \A p \in advice : ~Before(p, p0)
  <2> SUFFICES ASSUME NEW p \in advice, NEW i \in 1..4, p.rank[i] < p0.rank[i],
                      \A j \in 1..i - 1 : p.rank[j] = p0.rank[j]
               PROVE  FALSE
    BY DEF Before
  <2>1. p # p0
    <3>1. p0.rank[i] \in Int
      BY <1>5, <1>6
    <3> QED
      BY <3>1
  <2>2. p0.rank[1] = 0 /\ p.rank[1] = 1
    BY <1>5, <1>6, <1>7, <1>8, <2>1
  <2>3. CASE i = 1
    BY <2>2, <2>3
  <2>4. CASE i # 1
    <3>1. 1 \in 1..i - 1
      BY <2>4
    <3> QED
      BY <2>2, <3>1
  <2> QED
    BY <2>3, <2>4
<1> DEFINE best == {p \in advice : \A q \in advice : q.pillar = p.pillar /\ q # p => Before(p, q)}
<1>11. /\ plan = {p \in best : Gained({q \in best : Before(q, p)}) < needed}
       /\ plan \in SUBSET advice /\ Gained(plan) >= needed
  BY PlanIs
<1>12. p0 \in best
  BY <1>5, <1>9
<1>13. needed <= 0 => plan = {}
  <2> SUFFICES ASSUME needed <= 0, NEW p \in plan PROVE FALSE
    OBVIOUS
  <2> DEFINE ahead == {q \in best : Before(q, p)}
  <2>1. Gained(ahead) < needed
    BY <1>11
  <2>2. ahead \in SUBSET advice
    OBVIOUS
  <2> HIDE DEF ahead
  <2>3. Gained(ahead) \in Nat
    BY <1>4, <2>2, GainedNat
  <2> QED
    BY <2>1, <2>3
<1>14. needed > 0 => p0 \in plan
  <2> SUFFICES ASSUME needed > 0 PROVE p0 \in plan
    OBVIOUS
  <2>1. {q \in best : Before(q, p0)} = {}
    BY <1>10
  <2>2. Gained({}) = 0
    <3>1. Gained({}) = SumFunctionOnSet([p \in {} |-> p.points_recoverable], {})
      BY SumOverDomain DEF Gained
    <3> QED
      BY <3>1, SumEmpty
  <2>3. Gained({q \in best : Before(q, p0)}) < needed
    BY <2>1, <2>2
  <2> QED
    BY <1>11, <1>12, <2>3
<1> DEFINE d == [p \in advice |-> IF p = p0 THEN lift ELSE 0]
<1>15. /\ d[p0] = lift /\ \A p \in plan : p # p0 => d[p] = 0
       /\ \A p \in plan : Points(p.of, lost, u, b) = Recovered(p.of, lost) + d[p]
  <2>1. \A p \in plan : p \in advice /\ p.of \in 1..12 /\ (p = p0 <=> p.of = i0)
    BY <1>6, <1>7, <1>8, <1>11
  <2>2. d[p0] = lift /\ \A p \in plan : d[p] = IF p = p0 THEN lift ELSE 0
    BY <1>5, <2>1
  <2> HIDE DEF d, advice
  <2> QED
    BY <1>4, <2>1, <2>2
<1> HIDE DEF d, best
<1>16. /\ Regained(plan, lost) \in Nat
       /\ Gained(plan) = Regained(plan, lost) + (IF p0 \in plan THEN d[p0] ELSE 0)
  <2>1. /\ \A i \in 1..12 : Points(i, lost, u, b) \in Int
        /\ plan \in SUBSET Advise(lost, u, b)
        /\ d[p0] \in Int /\ \A p \in plan : p # p0 => d[p] = 0
        /\ \A p \in plan : Points(p.of, lost, u, b) = Recovered(p.of, lost) + d[p]
    BY <1>1, <1>4, <1>11, <1>15
  <2> QED
    BY ONLY <2>1, Recoverable(lost), RegainedIs
<1>17. needed > 0 => /\ \E p \in plan : REMEDIATIONS[p.of].action = c.lifting_action
                     /\ Regained(plan, lost) \in Nat
                     /\ Regained(plan, lost) + lift >= needed
  BY <1>2, <1>7, <1>11, <1>14, <1>15, <1>16
<1> QED
  BY <1>13, <1>17 DEF lift

LEMMA AtMostOne ==
    ASSUME NEW S, IsFiniteSet(S), Cardinality(S) <= 1
    PROVE  S = {} \/ \E x : S = {x}
<1>1. Cardinality(S) = 0 \/ Cardinality(S) = 1
  BY FS_CardinalityType
<1> QED
  BY <1>1, FS_EmptySet, FS_Singleton

LEMMA MinOfTwo ==
    ASSUME NEW x \in Int, NEW y \in Int
    PROVE  Min({x}) = x /\ Min({x} \cup {y}) \in {x, y}
<1>1. IsFiniteSet({x}) /\ IsFiniteSet({x} \cup {y})
  BY FS_Singleton, FS_Union
<1>2. Min({x}) \in {x}
  <2> DEFINE one == {x}
  <2>1. IsFiniteSet(one) /\ one # {} /\ one \subseteq Int
    BY <1>1
  <2> HIDE DEF one
  <2>2. Min(one) \in one
    BY <2>1, MinIs
  <2> QED
    BY <2>2 DEF one
<1>3. Min({x} \cup {y}) \in {x, y}
  <2> DEFINE two == {x} \cup {y}
  <2>1. IsFiniteSet(two) /\ two # {} /\ two \subseteq Int
    BY <1>1
  <2> HIDE DEF two
  <2>2. Min(two) \in two
    BY <2>1, MinIs
  <2> QED
    BY <2>2 DEF two
<1> QED
  BY <1>2, <1>3

(* The points after a plan, in terms of what the report says.              *)
AfterPlan(u, caps, lost, plan) ==
    LET remaining == {c \in caps : \A p \in plan : REMEDIATIONS[p.of].action # c.lifting_action}
    IN  Min({10 * u + Regained(plan, lost)} \cup {10 * c.cap : c \in remaining})

(* The plan of a report with at most one cap, which binds.                 *)
LEMMA PlanReaches ==
    ASSUME NEW s, WellObserved(s), NEW u, u = Uncapped(s), NEW caps, caps = ActiveCaps(s),
           Cardinality(caps) <= 1, \A c \in caps : c.cap < u,
           NEW lost, lost = PointsLost(s), NEW score, score = Lowest(u, caps),
           NEW target \in Int, NEW needed, needed = 10 * (target - score),
           NEW r, r = PlanToBand(needed, Advise(lost, u, caps)), r.reaches
    PROVE  AfterPlan(u, caps, lost, r.plan) >= 10 * target
<1> DEFINE plan == r.plan
           gained == Regained(plan, lost)
           remaining ==
               {c \in caps : \A p \in plan : REMEDIATIONS[p.of].action # c.lifting_action}
           left == {10 * c.cap : c \in remaining}
<1> SUFFICES Min({10 * u + gained} \cup left) >= 10 * target
  BY DEF AfterPlan
<1>1. u \in Int
  <2>1. NoBetter(s, s)
    BY NoBetterIs DEF AtLeastAsGood, WellObserved
  <2> QED
    BY <2>1, UncappedMonotone
<1>2. Recoverable(lost)
  BY PointsLostNat
<1>3. caps \in SUBSET AllCaps /\ IsFiniteSet(caps)
  <2>1. caps \in SUBSET AllCaps
    BY ActiveCapsAre
  <2> QED
    BY <2>1, AllCapsFinite, FS_Subset
<1>4. CASE caps = {}
  <2>1. score = u
    BY <1>1, <1>4, LowestOfNone
  <2>2. needed = 10 * (target - u) /\ needed \in Int
    BY <1>1, <2>1
  <2>3. gained \in Nat /\ gained >= needed
    <3>1. r = PlanToBand(needed, Advise(lost, u, {}))
      BY <1>4
    <3> QED
      BY <1>1, <1>2, <2>2, <3>1, FreePlan
  <2>4. remaining = {}
    BY <1>4
  <2>5. {10 * u + gained} \cup left = {10 * u + gained}
    BY <2>4
  <2> HIDE DEF gained, left
  <2> DEFINE x == 10 * u + gained
  <2>6. x \in Int /\ x >= 10 * target
    BY <1>1, <2>2, <2>3
  <2> HIDE DEF x
  <2>7. Min({x}) = x
    BY <2>6, MinOfTwo
  <2>8. Min({10 * u + gained} \cup left) >= 10 * target
    BY <2>5, <2>6, <2>7 DEF x
  <2> QED
    BY <2>8 DEF gained, left
<1>5. ASSUME NEW c, caps = {c} PROVE Min({10 * u + gained} \cup left) >= 10 * target
  <2>1. c \in AllCaps /\ c.cap < u /\ c.cap \in Int
    BY <1>3, <1>5, AllCapsFinite
  <2>2. score = c.cap
    BY <1>1, <1>5, <2>1, LowestOfOne
  <2>3. needed = 10 * (target - c.cap) /\ needed \in Int
    BY <2>1, <2>2
  <2>4. /\ needed <= 0 => plan = {}
        /\ needed > 0 => /\ \E p \in plan : REMEDIATIONS[p.of].action = c.lifting_action
                         /\ gained \in Nat /\ gained + 10 * (u - c.cap) >= needed
    <3>1. caps = {c} /\ r = PlanToBand(needed, Advise(lost, u, caps)) /\ r.reaches
      BY <1>5
    <3>2. plan = r.plan
      OBVIOUS
    <3> HIDE DEF plan
    <3>3. needed <= 0 => plan = {}
      BY ONLY <1>1, <1>2, <2>1, <2>3, <3>1, <3>2, CappedPlan
    <3>4. needed > 0 => \E p \in plan : REMEDIATIONS[p.of].action = c.lifting_action
      BY ONLY <1>1, <1>2, <2>1, <2>3, <3>1, <3>2, CappedPlan
    <3>5. needed > 0 => Regained(plan, lost) \in Nat
      BY ONLY <1>1, <1>2, <2>1, <2>3, <3>1, <3>2, CappedPlan
    <3>6. needed > 0 => Regained(plan, lost) + 10 * (u - c.cap) >= needed
      BY ONLY <1>1, <1>2, <2>1, <2>3, <3>1, <3>2, CappedPlan
    <3> QED
      BY <3>3, <3>4, <3>5, <3>6
  <2>5. CASE needed > 0
    <3>1. remaining = {}
      BY <1>5, <2>4, <2>5
    <3>2. {10 * u + gained} \cup left = {10 * u + gained}
      BY <3>1
    <3> HIDE DEF gained, left
    <3> DEFINE x == 10 * u + gained
    <3>3. x \in Int /\ x >= 10 * target
      BY <1>1, <2>1, <2>3, <2>4, <2>5
    <3> HIDE DEF x
    <3>4. Min({x}) = x
      BY <3>3, MinOfTwo
    <3> QED
      BY <3>2, <3>3, <3>4 DEF x
  <2>6. CASE ~(needed > 0)
    <3>1. plan = {}
      BY <2>3, <2>4, <2>6
    <3>2. remaining = {c}
      BY <1>5, <3>1
    <3>3. left = {10 * c.cap}
      BY <3>2
    <3>4. gained = 0
      <4>1. gained = SumFunctionOnSet([p \in {} |-> Recovered(p.of, lost)], {})
        BY <3>1, SumOverDomain DEF Regained
      <4> QED
        BY <4>1, SumEmpty
    <3> HIDE DEF gained, left
    <3> DEFINE x == 10 * u + gained
               y == 10 * c.cap
    <3>5. x \in Int /\ y \in Int /\ x >= 10 * target /\ y >= 10 * target
      BY <1>1, <2>1, <2>3, <2>6, <3>4
    <3>6. {10 * u + gained} \cup left = {x} \cup {y}
      BY <3>3
    <3> HIDE DEF x, y
    <3>7. Min({x} \cup {y}) \in {x, y}
      BY <3>5, MinOfTwo
    <3> QED
      BY <3>5, <3>6, <3>7
  <2> QED
    BY <2>5, <2>6
<1> HIDE DEF gained, left
<1> QED
  BY <1>3, <1>4, <1>5, AtMostOne

LEMMA ScoredReaches == Scored => OneCapPlanReaches
<1> DEFINE report == outcome.report
           s == outcome.signals
<1> SUFFICES ASSUME Scored, outcome.status = 200, Cardinality(report.caps) <= 1,
                    report.binding = report.caps, NEW band \in DOMAIN BANDS,
                    report.plan_to[band].reaches
             PROVE  PointsAfter(report, report.plan_to[band].plan) >= 10 * BANDS[band]
  BY DEF OneCapPlanReaches
<1>1. /\ WellObserved(s) /\ s = Observed(Assembled)
      /\ report = compute_trust_score(Assembled)
  BY AnswerIs
<1>2. /\ report.score = Lowest(Uncapped(s), ActiveCaps(s))
      /\ report.score_uncapped = Uncapped(s)
      /\ report.caps = ActiveCaps(s)
      /\ report.binding = {c \in ActiveCaps(s) : c.cap < Uncapped(s)}
      /\ report.lost = PointsLost(s)
      /\ report.recommendations = Advise(report.lost, report.score_uncapped, report.binding)
      /\ report.plan_to = [b \in DOMAIN BANDS |->
                             PlanToBand(10 * (BANDS[b] - report.score), report.recommendations)]
  <2> HIDE DEF report, s
  <2> QED
    BY <1>1, ReportIs
<1> DEFINE u == report.score_uncapped
           caps == report.caps
           lost == report.lost
           score == report.score
           needed == 10 * (BANDS[band] - score)
           r == report.plan_to[band]
<1>3. BANDS[band] \in Int
  BY Bands DEF BANDS
<1>4. r = PlanToBand(needed, Advise(lost, u, caps))
  BY <1>2
<1>5. \A c \in caps : c.cap < u
  BY <1>2
<1>6. PointsAfter(report, r.plan) = AfterPlan(u, caps, lost, r.plan)
  BY DEF PointsAfter, AfterPlan, Regained
<1>7. /\ u = Uncapped(s) /\ caps = ActiveCaps(s) /\ lost = PointsLost(s)
      /\ score = Lowest(u, caps) /\ Cardinality(caps) <= 1 /\ r.reaches
  BY <1>2
<1>8. needed = 10 * (BANDS[band] - score)
  OBVIOUS
<1> HIDE DEF u, caps, lost, score, needed, r, s, report
<1>9. AfterPlan(u, caps, lost, r.plan) >= 10 * BANDS[band]
  BY ONLY <1>1, <1>3, <1>4, <1>5, <1>7, <1>8, PlanReaches
<1> QED
  BY <1>6, <1>9 DEF r

(* A plan that is said to reach a band (README.md:470) brings the version  *)
(* into it when at most one rule is broken and its cap binds, with the     *)
(* ranking, one action for a pillar and the points as the code has them.   *)
THEOREM PlansReach == Spec => []OneCapPlanReaches
BY AlwaysScored, ScoredReaches, PTL

-----------------------------------------------------------------------------
(* The gates of the use cases.                                             *)

(* A sum, with one of its terms taken out.                                 *)
LEMMA SumWithout ==
    ASSUME NEW S, IsFiniteSet(S), NEW f, Numeric(f, S)
    PROVE  \A x \in S : SumFunctionOnSet(f, S) = f[x] + SumFunctionOnSet(f, S \ {x})
<1> DEFINE T(s) == SumFunctionOnSet(f, s)
           G == {s \in SUBSET S : \A x \in s : T(s) = f[x] + T(s \ {x})}
           H == {n \in Nat : \A s \in SUBSET S : Cardinality(s) = n => s \in G}
<1>0. \A s \in SUBSET S : IsFiniteSet(s) /\ Numeric(f, s) /\ Cardinality(s) \in Nat
  BY FS_Subset, FS_CardinalityType DEF Numeric
<1>1. 0 \in H
  <2>1. \A s \in SUBSET S : Cardinality(s) = 0 => s = {}
    BY <1>0, FS_EmptySet
  <2> QED
    BY <2>1
<1>2. ASSUME NEW n \in Nat, n \in H PROVE n + 1 \in H
  <2> SUFFICES ASSUME NEW s \in SUBSET S, Cardinality(s) = n + 1, NEW x \in s
               PROVE  T(s) = f[x] + T(s \ {x})
    OBVIOUS
  <2> DEFINE p == Pick(s)
             r == s \ {p}
             q == s \ {x}
             rest == s \ {x, p}
  <2>1. p \in s /\ T(s) = f[p] + T(r)
    BY <1>0, SumStep
  <2>2. CASE p = x
    BY <2>1, <2>2
  <2>3. CASE p # x
    <3>1. Cardinality(r) = n /\ Cardinality(q) = n
      <4>1. IsFiniteSet(s) /\ p \in s
        BY <1>0, <2>1
      <4> HIDE DEF p, T, G
      <4>2. Cardinality(r) = (n + 1) - 1 /\ Cardinality(q) = (n + 1) - 1
        BY <4>1, FS_RemoveElement
      <4> QED
        BY <4>2
    <3>2. r \in G /\ q \in G /\ r \in SUBSET S /\ q \in SUBSET S /\ rest \in SUBSET S
      BY <1>2, <3>1
    <3>3. x \in r /\ p \in q /\ r \ {x} = rest /\ q \ {p} = rest
      BY <2>1, <2>3
    <3>4. T(r) = f[x] + T(rest) /\ T(q) = f[p] + T(rest)
      BY <3>2, <3>3
    <3>5. f[x] \in Int /\ f[p] \in Int /\ T(rest) \in Int
      BY <1>0, <2>1, <3>2, SumType DEF Numeric
    <3> HIDE DEF T, p, r, q, rest
    <3>6. T(s) = f[x] + T(q)
      BY <2>1, <3>4, <3>5
    <3> QED
      BY <3>6 DEF q
  <2> QED
    BY <2>2, <2>3
<1>3. Nat \subseteq H
  <2> HIDE DEF H
  <2> QED
    BY <1>1, <1>2, NatInd
<1>4. S \in G
  BY <1>0, <1>3
<1> QED
  BY <1>4

(* More terms, none negative, and larger ones.                             *)
LEMMA SumGrows ==
    ASSUME NEW U, IsFiniteSet(U), NEW S, S \subseteq U, NEW f, NEW h,
           \A x \in U : h[x] \in Nat, Numeric(f, S), \A x \in S : f[x] <= h[x]
    PROVE  SumFunctionOnSet(f, S) <= SumFunctionOnSet(h, U)
<1> DEFINE T(s) == SumFunctionOnSet(h, s)
           G == {s \in SUBSET (U \ S) : T(S) <= T(S \cup s)}
<1>0. /\ IsFiniteSet(S) /\ IsFiniteSet(U \ S)
      /\ \A s \in SUBSET U : IsFiniteSet(s) /\ Numeric(h, s) /\ T(s) \in Int
  <2>1. IsFiniteSet(S) /\ IsFiniteSet(U \ S)
    BY FS_Subset
  <2>2. ASSUME NEW s \in SUBSET U PROVE IsFiniteSet(s) /\ Numeric(h, s) /\ T(s) \in Int
    BY FS_Subset, SumType DEF Numeric
  <2> QED
    BY <2>1, <2>2
<1>1. {} \in G
  <2>1. S \cup {} = S /\ T(S) \in Int
    BY <1>0
  <2> QED
    BY <2>1
<1>2. ASSUME NEW s \in SUBSET (U \ S), s # {}, s \ {Pick(s)} \in G PROVE s \in G
  <2> DEFINE p == Pick(s)
             w == S \cup s
  <2>1. p \in s /\ p \in w /\ w \in SUBSET U /\ w \ {p} = S \cup (s \ {p})
    BY <1>2, Picked
  <2>2. T(w) = h[p] + T(w \ {p})
    BY <1>0, <2>1, SumWithout
  <2>3. h[p] \in Nat /\ T(w) \in Int /\ T(w \ {p}) \in Int /\ T(S) \in Int /\ T(S) <= T(w \ {p})
    BY <1>0, <1>2, <2>1
  <2> HIDE DEF T, p, w
  <2>4. T(S) <= T(w)
    BY <2>2, <2>3
  <2> QED
    BY <2>4 DEF w
<1>3. SUBSET (U \ S) \subseteq G
  <2> HIDE DEF G
  <2> QED
    BY <1>0, <1>1, <1>2, SubsetInd
<1>4. T(S) <= T(U)
  <2>1. S \cup (U \ S) = U
    OBVIOUS
  <2> QED
    BY <1>3, <2>1
<1>5. SumFunctionOnSet(f, S) <= T(S)
  <2>1. Numeric(h, S)
    BY <1>0
  <2> QED
    BY <1>0, <2>1, SumMonotone
<1>6. SumFunctionOnSet(f, S) \in Int /\ T(S) \in Int /\ T(U) \in Int
  BY <1>0, SumType
<1> HIDE DEF T
<1>7. SumFunctionOnSet(f, S) <= T(U)
  BY <1>4, <1>5, <1>6
<1> QED
  BY <1>7 DEF T

(* What is asked of the entries of UC_METRICS: a weight, and a threshold   *)
(* of 0 only where more is better.                                         *)
WellSpec(spec) ==
    /\ spec.weight \in Nat \ {0} /\ spec.pass_threshold \in Int
    /\ \/ spec.direction \in {"bool_true", "exact"}
       \/ spec.direction = "higher_better" /\ spec.pass_threshold >= 0
       \/ spec.direction = "lower_better" /\ spec.pass_threshold # 0

Weighs(spec, weight) == WellSpec(spec) /\ spec.weight = weight

Total(specs) == Weight(specs, DOMAIN specs)

(* What THRESHOLDS has to be for the heaviest metrics to block.            *)
Fits(specs, threshold) ==
    /\ IsFiniteSet(DOMAIN specs)
    /\ \A k \in DOMAIN specs : WellSpec(specs[k])
    /\ threshold \in Nat /\ Total(specs) \in Nat \ {0}
    /\ \A k \in DOMAIN specs : specs[k].weight = 6 => (100 - threshold) * Total(specs) < 600

LEMMA Entries ==
    /\ \A w \in Nat \ {0} : Weighs(Flagged(w), w)
    /\ \A t \in Nat, w \in Nat \ {0} : Weighs(High(t, w), w)
    /\ \A t \in Nat, w \in Nat \ {0} : Weighs(Exact(t, w), w)
    /\ \A t \in Int \ {0}, w \in Nat \ {0} : Weighs(Low(t, w), w)
BY DEF Weighs, WellSpec, Flagged, High, Exact, Low, MetricSpec

(* The sum of the weights, with one of them taken out.                     *)
LEMMA WeightWithout ==
    ASSUME NEW specs, NEW S, IsFiniteSet(S), \A k \in S : specs[k].weight \in Int, NEW a \in S
    PROVE  Weight(specs, S) = specs[a].weight + Weight(specs, S \ {a})
<1> DEFINE f == [k \in S |-> specs[k].weight]
           g == [k \in S \ {a} |-> specs[k].weight]
<1>1. Weight(specs, S) = SumFunctionOnSet(f, S)
  BY SumOverDomain DEF Weight
<1>2. Weight(specs, S \ {a}) = SumFunctionOnSet(g, S \ {a})
  BY SumOverDomain DEF Weight
<1>3. IsFiniteSet(S \ {a}) /\ Numeric(f, S) /\ Numeric(g, S \ {a}) /\ Numeric(f, S \ {a})
  BY FS_RemoveElement DEF Numeric
<1>4. \A k \in S \ {a} : f[k] = g[k] /\ f[k] \in Int
  OBVIOUS
<1>5. SumFunctionOnSet(f, S \ {a}) = SumFunctionOnSet(g, S \ {a})
  <2> HIDE DEF f, g
  <2>1. /\ SumFunctionOnSet(f, S \ {a}) <= SumFunctionOnSet(g, S \ {a})
        /\ SumFunctionOnSet(g, S \ {a}) <= SumFunctionOnSet(f, S \ {a})
        /\ SumFunctionOnSet(f, S \ {a}) \in Int /\ SumFunctionOnSet(g, S \ {a}) \in Int
    <3>1. \A k \in S \ {a} : f[k] <= g[k] /\ g[k] <= f[k]
      BY <1>4
    <3>2. SumFunctionOnSet(f, S \ {a}) <= SumFunctionOnSet(g, S \ {a})
      BY <1>3, <3>1, SumMonotone
    <3>3. SumFunctionOnSet(g, S \ {a}) <= SumFunctionOnSet(f, S \ {a})
      BY <1>3, <3>1, SumMonotone
    <3> QED
      BY <1>3, <3>2, <3>3, SumType
  <2> QED
    BY <2>1
<1>6. SumFunctionOnSet(f, S) = f[a] + SumFunctionOnSet(f, S \ {a})
  <2> HIDE DEF f
  <2> QED
    BY <1>3, SumWithout
<1> QED
  BY <1>1, <1>2, <1>5, <1>6

LEMMA WeightOfNone == ASSUME NEW specs PROVE Weight(specs, {}) = 0
<1> DEFINE f == [k \in {} |-> specs[k].weight]
<1>1. Weight(specs, {}) = SumFunctionOnSet(f, {})
  BY SumOverDomain DEF Weight
<1> QED
  BY <1>1, SumEmpty

(* The metrics S of a use case, and n their weights together.             *)
Covered(specs, S, n) ==
    /\ IsFiniteSet(S) /\ n \in Nat
    /\ \A k \in S : WellSpec(specs[k])
    /\ Weight(specs, S) = n

LEMMA OneMore ==
    ASSUME NEW specs, NEW S, NEW n, Covered(specs, S, n), NEW a, a \notin S,
           NEW w \in Nat \ {0}, Weighs(specs[a], w)
    PROVE  Covered(specs, S \cup {a}, n + w)
<1>1. IsFiniteSet(S \cup {a})
  BY FS_AddElement DEF Covered
<1>2. \A k \in S \cup {a} : WellSpec(specs[k])
  BY DEF Covered, Weighs
<1>3. \A k \in S \cup {a} : specs[k].weight \in Int
  BY <1>2 DEF WellSpec
<1>4. (S \cup {a}) \ {a} = S /\ a \in S \cup {a}
  OBVIOUS
<1>5. Weight(specs, S \cup {a}) = specs[a].weight + Weight(specs, (S \cup {a}) \ {a})
  BY <1>1, <1>3, <1>4, WeightWithout
<1>6. Weight(specs, S \cup {a}) = n + w
  BY <1>4, <1>5 DEF Covered, Weighs
<1> QED
  BY <1>1, <1>2, <1>6 DEF Covered

LEMMA CoversTwo ==
    ASSUME NEW specs, NEW a, NEW b, a # b, NEW u \in Nat \ {0}, NEW v \in Nat \ {0},
           Weighs(specs[a], u), Weighs(specs[b], v)
    PROVE  Covered(specs, {a, b}, u + v)
<1>1. Covered(specs, {}, 0)
  BY WeightOfNone, FS_EmptySet DEF Covered
<1>2. Covered(specs, {} \cup {a}, 0 + u)
  BY <1>1, OneMore
<1>3. {} \cup {a} = {a} /\ 0 + u = u /\ {a} \cup {b} = {a, b}
  OBVIOUS
<1>4. Covered(specs, {a} \cup {b}, u + v)
  <2>1. Covered(specs, {a}, u) /\ b \notin {a}
    BY <1>2, <1>3
  <2> QED
    BY <2>1, OneMore
<1> QED
  BY <1>3, <1>4

LEMMA FitsIf ==
    ASSUME NEW specs, NEW threshold \in Nat, NEW n \in Nat \ {0}, Covered(specs, DOMAIN specs, n),
           \/ \A k \in DOMAIN specs : specs[k].weight # 6
           \/ (100 - threshold) * n < 600
    PROVE  Fits(specs, threshold)
BY DEF Fits, Covered, Total

(* The metrics of a use case, each with its weight.                        *)
Three(specs, a, u, b, v, c, w) ==
    /\ DOMAIN specs = {a, b, c} /\ a # b /\ c \notin {a, b}
    /\ Weighs(specs[a], u) /\ Weighs(specs[b], v) /\ Weighs(specs[c], w)

Four(specs, a, u, b, v, c, w, d, x) ==
    /\ DOMAIN specs = {a, b, c, d} /\ a # b /\ c \notin {a, b} /\ d \notin {a, b, c}
    /\ Weighs(specs[a], u) /\ Weighs(specs[b], v) /\ Weighs(specs[c], w) /\ Weighs(specs[d], x)

Five(specs, a, u, b, v, c, w, d, x, e, y) ==
    /\ DOMAIN specs = {a, b, c, d, e} /\ a # b /\ c \notin {a, b} /\ d \notin {a, b, c}
    /\ e \notin {a, b, c, d}
    /\ Weighs(specs[a], u) /\ Weighs(specs[b], v) /\ Weighs(specs[c], w) /\ Weighs(specs[d], x)
    /\ Weighs(specs[e], y)

LEMMA WeightOf ==
    ASSUME NEW spec, NEW w, Weighs(spec, w)
    PROVE  w \in Nat \ {0} /\ WellSpec(spec) /\ spec.weight = w
BY DEF Weighs, WellSpec

LEMMA CoversThree ==
    ASSUME NEW specs, NEW a, NEW b, NEW c, a # b, c \notin {a, b}, NEW u, NEW v, NEW w,
           Weighs(specs[a], u), Weighs(specs[b], v), Weighs(specs[c], w)
    PROVE  Covered(specs, {a, b, c}, u + v + w)
<1>1. u \in Nat \ {0} /\ v \in Nat \ {0} /\ w \in Nat \ {0}
  BY WeightOf
<1>2. Covered(specs, {a, b} \cup {c}, (u + v) + w)
  BY <1>1, CoversTwo, OneMore
<1>3. {a, b} \cup {c} = {a, b, c}
  OBVIOUS
<1> QED
  BY <1>2, <1>3

LEMMA CoversFour ==
    ASSUME NEW specs, NEW a, NEW b, NEW c, NEW d, a # b, c \notin {a, b}, d \notin {a, b, c},
           NEW u, NEW v, NEW w, NEW x,
           Weighs(specs[a], u), Weighs(specs[b], v), Weighs(specs[c], w), Weighs(specs[d], x)
    PROVE  Covered(specs, {a, b, c, d}, u + v + w + x)
<1>1. x \in Nat \ {0} /\ Covered(specs, {a, b, c}, u + v + w)
  BY WeightOf, CoversThree
<1>2. Covered(specs, {a, b, c} \cup {d}, (u + v + w) + x)
  BY <1>1, OneMore
<1>3. {a, b, c} \cup {d} = {a, b, c, d}
  OBVIOUS
<1> QED
  BY <1>2, <1>3

LEMMA FitsWithThree ==
    ASSUME NEW specs, NEW a, NEW b, NEW c, NEW u, NEW v, NEW w, Three(specs, a, u, b, v, c, w),
           NEW threshold \in Nat, 6 \in {u, v, w} => (100 - threshold) * (u + v + w) < 600
    PROVE  Fits(specs, threshold)
<1>1. DOMAIN specs = {a, b, c} /\ Covered(specs, {a, b, c}, u + v + w)
  BY CoversThree DEF Three
<1>2. u \in Nat \ {0} /\ v \in Nat \ {0} /\ w \in Nat \ {0}
  BY WeightOf DEF Three
<1>3. \A k \in DOMAIN specs : specs[k].weight \in {u, v, w}
  BY <1>1, WeightOf DEF Three
<1>4. u + v + w \in Nat \ {0}
  BY <1>2
<1>5. \/ \A k \in DOMAIN specs : specs[k].weight # 6
      \/ (100 - threshold) * (u + v + w) < 600
  BY <1>3
<1> QED
  BY <1>1, <1>4, <1>5, FitsIf

LEMMA FitsWithFour ==
    ASSUME NEW specs, NEW a, NEW b, NEW c, NEW d, NEW u, NEW v, NEW w, NEW x,
           Four(specs, a, u, b, v, c, w, d, x), NEW threshold \in Nat,
           6 \in {u, v, w, x} => (100 - threshold) * (u + v + w + x) < 600
    PROVE  Fits(specs, threshold)
<1>1. DOMAIN specs = {a, b, c, d} /\ Covered(specs, {a, b, c, d}, u + v + w + x)
  BY CoversFour DEF Four
<1>2. u \in Nat \ {0} /\ v \in Nat \ {0} /\ w \in Nat \ {0} /\ x \in Nat \ {0}
  BY WeightOf DEF Four
<1>3. \A k \in DOMAIN specs : specs[k].weight \in {u, v, w, x}
  BY <1>1, WeightOf DEF Four
<1>4. u + v + w + x \in Nat \ {0}
  BY <1>2
<1>5. \/ \A k \in DOMAIN specs : specs[k].weight # 6
      \/ (100 - threshold) * (u + v + w + x) < 600
  BY <1>3
<1> QED
  BY <1>1, <1>4, <1>5, FitsIf

LEMMA FitsWithFive ==
    ASSUME NEW specs, NEW a, NEW b, NEW c, NEW d, NEW e, NEW u, NEW v, NEW w, NEW x, NEW y,
           Five(specs, a, u, b, v, c, w, d, x, e, y), NEW threshold \in Nat,
           6 \in {u, v, w, x, y} => (100 - threshold) * (u + v + w + x + y) < 600
    PROVE  Fits(specs, threshold)
<1>1. DOMAIN specs = {a, b, c, d, e} /\ Covered(specs, {a, b, c, d}, u + v + w + x)
  BY CoversFour DEF Five
<1>2. u \in Nat \ {0} /\ v \in Nat \ {0} /\ w \in Nat \ {0} /\ x \in Nat \ {0} /\ y \in Nat \ {0}
  BY WeightOf DEF Five
<1>3. Covered(specs, {a, b, c, d} \cup {e}, (u + v + w + x) + y)
  BY <1>1, <1>2, OneMore DEF Five
<1>4. {a, b, c, d} \cup {e} = DOMAIN specs
  BY <1>1
<1>5. \A k \in DOMAIN specs : specs[k].weight \in {u, v, w, x, y}
  BY <1>1, WeightOf DEF Five
<1>6. Covered(specs, DOMAIN specs, u + v + w + x + y) /\ u + v + w + x + y \in Nat \ {0}
  BY <1>2, <1>3, <1>4
<1>7. \/ \A k \in DOMAIN specs : specs[k].weight # 6
      \/ (100 - threshold) * (u + v + w + x + y) < 600
  BY <1>5
<1> QED
  BY <1>6, <1>7, FitsIf

LEMMA UseCaseIs ==
    /\ DOMAIN UC_METRICS = DOMAIN LearningMetrics \cup DOMAIN PlatformMetrics
                             \cup DOMAIN OperationsMetrics
    /\ \A uc \in DOMAIN LearningMetrics : UC_METRICS[uc] = LearningMetrics[uc]
    /\ \A uc \in DOMAIN PlatformMetrics : UC_METRICS[uc] = PlatformMetrics[uc]
    /\ \A uc \in DOMAIN OperationsMetrics : UC_METRICS[uc] = OperationsMetrics[uc]
<1> DEFINE l == DOMAIN LearningMetrics
           p == DOMAIN PlatformMetrics
           o == DOMAIN OperationsMetrics
<1>1. /\ \A uc \in l : uc \notin p /\ uc \notin o
      /\ \A uc \in p : uc \notin o
  BY DEF LearningMetrics, PlatformMetrics, OperationsMetrics
<1>2. UC_METRICS = [uc \in (l \cup p) \cup o |->
                       IF uc \in l THEN LearningMetrics[uc]
                       ELSE IF uc \in p THEN PlatformMetrics[uc] ELSE OperationsMetrics[uc]]
  BY DEF UC_METRICS
<1> HIDE DEF l, p, o
<1>3. /\ DOMAIN UC_METRICS = (l \cup p) \cup o
      /\ \A uc \in l : UC_METRICS[uc] = LearningMetrics[uc]
      /\ \A uc \in p : UC_METRICS[uc] = PlatformMetrics[uc]
      /\ \A uc \in o : UC_METRICS[uc] = OperationsMetrics[uc]
  BY <1>1, <1>2
<1> QED
  BY <1>3 DEF l, p, o

LEMMA LearningFits ==
    \A uc \in DOMAIN LearningMetrics : Fits(LearningMetrics[uc], THRESHOLDS[uc])
<1>1. Fits(LearningMetrics["UC1"], 70)
  <2> DEFINE m == LearningMetrics["UC1"]
  <2>1. Five(m, "psi_score", 4, "ks_statistic", 3, "alibi_lsdd_p_value", 2,
                "retrain_triggered", 6, "nannyml_performance_estimate", 1)
    BY Entries DEF LearningMetrics, Five
  <2> HIDE DEF m
  <2>2. Fits(m, 70)
    BY <2>1, FitsWithFive
  <2> QED
    BY <2>2 DEF m
<1>2. Fits(LearningMetrics["UC2"], 65)
  <2> DEFINE m == LearningMetrics["UC2"]
  <2>1. Four(m, "reconstruction_loss_threshold", 2, "anomaly_precision_at_10", 4,
                "anomaly_recall_at_10", 4, "qdrant_similar_incidents_found", 2)
    BY Entries DEF LearningMetrics, Four
  <2> HIDE DEF m
  <2>2. Fits(m, 65)
    BY <2>1, FitsWithFour
  <2> QED
    BY <2>2 DEF m
<1>3. Fits(LearningMetrics["UC3"], 50)
  <2> DEFINE m == LearningMetrics["UC3"]
  <2>1. Three(m, "deduplication_rate", 4, "silhouette_score", 3, "false_positive_rate", 4)
    BY Entries DEF LearningMetrics, Three
  <2> HIDE DEF m
  <2>2. Fits(m, 50)
    BY <2>1, FitsWithThree
  <2> QED
    BY <2>2 DEF m
<1>4. Fits(LearningMetrics["UC4"], 70)
  <2> DEFINE m == LearningMetrics["UC4"]
  <2>1. Three(m, "forecast_mae", 3, "pre_scale_lead_time_seconds", 4,
                 "p99_latency_delta_pct", 3)
    BY Entries DEF LearningMetrics, Three
  <2> HIDE DEF m
  <2>2. Fits(m, 70)
    BY <2>1, FitsWithThree
  <2> QED
    BY <2>2 DEF m
<1>5. Fits(LearningMetrics["UC5"], 75)
  <2> DEFINE m == LearningMetrics["UC5"]
  <2>1. Three(m, "offline_online_psi", 4, "ge_validation_success_pct", 4,
                 "feature_freshness_seconds", 2)
    BY Entries DEF LearningMetrics, Three
  <2> HIDE DEF m
  <2>2. Fits(m, 75)
    BY <2>1, FitsWithThree
  <2> QED
    BY <2>2 DEF m
<1>6. Fits(LearningMetrics["UC6"], 85)
  <2> DEFINE m == LearningMetrics["UC6"]
  <2>1. Four(m, "remediation_success_rate", 4, "opa_gate_pass_rate", 6,
                "false_remediation_rate", 4, "mttr_seconds", 3)
    BY Entries DEF LearningMetrics, Four
  <2> HIDE DEF m
  <2>2. Fits(m, 85)
    BY <2>1, FitsWithFour
  <2> QED
    BY <2>2 DEF m
<1>7. Fits(LearningMetrics["UC7"], 60)
  <2> DEFINE m == LearningMetrics["UC7"]
  <2>1. Three(m, "trivy_critical_cves", 6, "kyverno_violations_blocked", 4,
                 "falco_rules_triggered", 4)
    BY Entries DEF LearningMetrics, Three
  <2> HIDE DEF m
  <2>2. Fits(m, 60)
    BY <2>1, FitsWithThree
  <2> QED
    BY <2>2 DEF m
<1>8. /\ DOMAIN LearningMetrics = {"UC1", "UC2", "UC3", "UC4", "UC5", "UC6", "UC7"}
      /\ THRESHOLDS["UC1"] = 70 /\ THRESHOLDS["UC2"] = 65 /\ THRESHOLDS["UC3"] = 50 /\ THRESHOLDS["UC4"] = 70
      /\ THRESHOLDS["UC5"] = 75 /\ THRESHOLDS["UC6"] = 85 /\ THRESHOLDS["UC7"] = 60
  BY DEF LearningMetrics, THRESHOLDS
<1> QED
  BY <1>1, <1>2, <1>3, <1>4, <1>5, <1>6, <1>7, <1>8

LEMMA PlatformFits ==
    \A uc \in DOMAIN PlatformMetrics : Fits(PlatformMetrics[uc], THRESHOLDS[uc])
<1>1. Fits(PlatformMetrics["UC8"], 60)
  <2> DEFINE m == PlatformMetrics["UC8"]
  <2>1. Three(m, "retrieval_precision_at_5", 4, "answer_groundedness_score", 3,
                 "qdrant_collection_size", 2)
    BY Entries DEF PlatformMetrics, Three
  <2> HIDE DEF m
  <2>2. Fits(m, 60)
    BY <2>1, FitsWithThree
  <2> QED
    BY <2>2 DEF m
<1>2. Fits(PlatformMetrics["UC9"], 75)
  <2> DEFINE m == PlatformMetrics["UC9"]
  <2>1. Four(m, "accuracy_delta_vs_baseline", 4, "drift_score_on_holdout", 3,
                "opa_promotion_gate_passed", 6, "kserve_canary_error_rate", 4)
    BY Entries DEF PlatformMetrics, Four
  <2> HIDE DEF m
  <2>2. Fits(m, 75)
    BY <2>1, FitsWithFour
  <2> QED
    BY <2>2 DEF m
<1>3. Fits(PlatformMetrics["UC10"], 65)
  <2> DEFINE m == PlatformMetrics["UC10"]
  <2>1. Three(m, "anomaly_detection_f1", 4, "idle_resource_pct_identified", 3,
                 "namespace_attribution_coverage", 3)
    BY Entries DEF PlatformMetrics, Three
  <2> HIDE DEF m
  <2>2. Fits(m, 65)
    BY <2>1, FitsWithThree
  <2> QED
    BY <2>2 DEF m
<1>4. Fits(PlatformMetrics["UC11"], 65)
  <2> DEFINE m == PlatformMetrics["UC11"]
  <2>1. Three(m, "trace_completeness_pct", 4, "rca_span_identified", 4,
                 "anomalous_span_precision", 3)
    BY Entries DEF PlatformMetrics, Three
  <2> HIDE DEF m
  <2>2. Fits(m, 65)
    BY <2>1, FitsWithThree
  <2> QED
    BY <2>2 DEF m
<1>5. Fits(PlatformMetrics["UC12"], 70)
  <2> DEFINE m == PlatformMetrics["UC12"]
  <2>1. Three(m, "drift_detected_when_injected", 6, "reconcile_success", 4,
                 "policy_violations_caught", 4)
    BY Entries DEF PlatformMetrics, Three
  <2> HIDE DEF m
  <2>2. Fits(m, 70)
    BY <2>1, FitsWithThree
  <2> QED
    BY <2>2 DEF m
<1>6. Fits(PlatformMetrics["UC13"], 80)
  <2> DEFINE m == PlatformMetrics["UC13"]
  <2>1. Three(m, "ge_expectations_passed_pct", 4, "bad_data_blocked", 6,
                 "schema_validation_pass", 4)
    BY Entries DEF PlatformMetrics, Three
  <2> HIDE DEF m
  <2>2. Fits(m, 80)
    BY <2>1, FitsWithThree
  <2> QED
    BY <2>2 DEF m
<1>7. Fits(PlatformMetrics["UC14"], 65)
  <2> DEFINE m == PlatformMetrics["UC14"]
  <2>1. Three(m, "best_trial_improvement", 4, "n_trials_completed", 2,
                 "study_persisted_to_mlflow", 4)
    BY Entries DEF PlatformMetrics, Three
  <2> HIDE DEF m
  <2>2. Fits(m, 65)
    BY <2>1, FitsWithThree
  <2> QED
    BY <2>2 DEF m
<1>8. /\ DOMAIN PlatformMetrics = {"UC8", "UC9", "UC10", "UC11", "UC12", "UC13", "UC14"}
      /\ THRESHOLDS["UC8"] = 60 /\ THRESHOLDS["UC9"] = 75 /\ THRESHOLDS["UC10"] = 65 /\ THRESHOLDS["UC11"] = 65
      /\ THRESHOLDS["UC12"] = 70 /\ THRESHOLDS["UC13"] = 80 /\ THRESHOLDS["UC14"] = 65
  BY DEF PlatformMetrics, THRESHOLDS
<1> QED
  BY <1>1, <1>2, <1>3, <1>4, <1>5, <1>6, <1>7, <1>8

LEMMA OperationsFits ==
    \A uc \in DOMAIN OperationsMetrics : Fits(OperationsMetrics[uc], THRESHOLDS[uc])
<1>1. Fits(OperationsMetrics["UC15"], 60)
  <2> DEFINE m == OperationsMetrics["UC15"]
  <2>1. Three(m, "four_keys_all_computed", 6, "deployment_freq_tracked", 4,
                 "mttr_computed", 4)
    BY Entries DEF OperationsMetrics, Three
  <2> HIDE DEF m
  <2>2. Fits(m, 60)
    BY <2>1, FitsWithThree
  <2> QED
    BY <2>2 DEF m
<1>2. Fits(OperationsMetrics["UC16"], 65)
  <2> DEFINE m == OperationsMetrics["UC16"]
  <2>1. Three(m, "classification_f1", 4, "n_error_classes", 2, "taxonomy_coverage_pct", 3)
    BY Entries DEF OperationsMetrics, Three
  <2> HIDE DEF m
  <2>2. Fits(m, 65)
    BY <2>1, FitsWithThree
  <2> QED
    BY <2>2 DEF m
<1>3. Fits(OperationsMetrics["UC17"], 65)
  <2> DEFINE m == OperationsMetrics["UC17"]
  <2>1. Three(m, "shap_values_generated", 4, "top_features_logged", 3,
                 "explanation_coverage_pct", 3)
    BY Entries DEF OperationsMetrics, Three
  <2> HIDE DEF m
  <2>2. Fits(m, 65)
    BY <2>1, FitsWithThree
  <2> QED
    BY <2>2 DEF m
<1>4. Fits(OperationsMetrics["UC18"], 65)
  <2> DEFINE m == OperationsMetrics["UC18"]
  <2>1. Three(m, "rate_limit_precision", 4, "false_throttle_rate", 4, "window_accuracy", 3)
    BY Entries DEF OperationsMetrics, Three
  <2> HIDE DEF m
  <2>2. Fits(m, 65)
    BY <2>1, FitsWithThree
  <2> QED
    BY <2>2 DEF m
<1>5. Fits(OperationsMetrics["UC19"], 65)
  <2> DEFINE m == OperationsMetrics["UC19"]
  <2>1. Three(m, "profiles_generated", 4, "constraint_violations_detected", 6,
                 "drift_flagged", 4)
    BY Entries DEF OperationsMetrics, Three
  <2> HIDE DEF m
  <2>2. Fits(m, 65)
    BY <2>1, FitsWithThree
  <2> QED
    BY <2>2 DEF m
<1>6. Fits(OperationsMetrics["UC20"], 90)
  <2> DEFINE m == OperationsMetrics["UC20"]
  <2>1. Three(m, "catalog_entities_valid", 6, "n_entities_correct", 4,
                 "schema_lint_pass", 4)
    BY Entries DEF OperationsMetrics, Three
  <2> HIDE DEF m
  <2>2. Fits(m, 90)
    BY <2>1, FitsWithThree
  <2> QED
    BY <2>2 DEF m
<1>7. Fits(OperationsMetrics["UC21"], 60)
  <2> DEFINE m == OperationsMetrics["UC21"]
  <2>1. Three(m, "slo_compliance_pct", 4, "error_budget_remaining_pct", 4,
                 "fast_burn_rate_alerts", 4)
    BY Entries DEF OperationsMetrics, Three
  <2> HIDE DEF m
  <2>2. Fits(m, 60)
    BY <2>1, FitsWithThree
  <2> QED
    BY <2>2 DEF m
<1>8. Fits(OperationsMetrics["UC22"], 70)
  <2> DEFINE m == OperationsMetrics["UC22"]
  <2>1. Three(m, "ab_test_p_value", 4, "winning_version_promoted", 4,
                 "traffic_split_accuracy", 2)
    BY Entries DEF OperationsMetrics, Three
  <2> HIDE DEF m
  <2>2. Fits(m, 70)
    BY <2>1, FitsWithThree
  <2> QED
    BY <2>2 DEF m
<1>9. Fits(OperationsMetrics["UC23"], 60)
  <2> DEFINE m == OperationsMetrics["UC23"]
  <2>1. Three(m, "postmortem_generated", 4, "github_issue_created", 4,
                 "similar_incidents_referenced", 4)
    BY Entries DEF OperationsMetrics, Three
  <2> HIDE DEF m
  <2>2. Fits(m, 60)
    BY <2>1, FitsWithThree
  <2> QED
    BY <2>2 DEF m
<1>10. /\ DOMAIN OperationsMetrics = {"UC15", "UC16", "UC17", "UC18", "UC19", "UC20", "UC21", "UC22", "UC23"}
      /\ THRESHOLDS["UC15"] = 60 /\ THRESHOLDS["UC16"] = 65 /\ THRESHOLDS["UC17"] = 65 /\ THRESHOLDS["UC18"] = 65
      /\ THRESHOLDS["UC19"] = 65 /\ THRESHOLDS["UC20"] = 90 /\ THRESHOLDS["UC21"] = 60 /\ THRESHOLDS["UC22"] = 70
      /\ THRESHOLDS["UC23"] = 60
  BY DEF OperationsMetrics, THRESHOLDS
<1> QED
  BY <1>1, <1>2, <1>3, <1>4, <1>5, <1>6, <1>7, <1>8, <1>9, <1>10

LEMMA UseCasesFit == \A uc \in DOMAIN UC_METRICS : Fits(UC_METRICS[uc], THRESHOLDS[uc])
BY UseCaseIs, LearningFits, PlatformFits, OperationsFits

Values == Int \cup {NotANumber}

LEMMA Clamps ==
    ASSUME NEW x \in Int, NEW y \in Int, x <= y
    PROVE  Clamp(x) \in 0..Full /\ Clamp(y) \in 0..Full /\ Clamp(x) <= Clamp(y)
<1>1. Full \in Nat
  BY DEF Full
<1>2. Clamp(x) = IF x < 0 THEN 0 ELSE IF x > Full THEN Full ELSE x
  BY DEF Clamp
<1>3. Clamp(y) = IF y < 0 THEN 0 ELSE IF y > Full THEN Full ELSE y
  BY DEF Clamp
<1> QED
  BY <1>1, <1>2, <1>3

LEMMA Quotients ==
    ASSUME NEW m \in Int, NEW n \in Int, NEW d \in Nat \ {0}, m <= n
    PROVE  m \div d \in Int /\ n \div d \in Int /\ m \div d <= n \div d
<1>1. m \div d \in Int /\ n \div d \in Int
  BY Division
<1>2. m \div d <= n \div d
  BY DivisionMonotone
<1> QED
  BY <1>1, <1>2

LEMMA HigherScores ==
    ASSUME NEW spec, WellSpec(spec), spec.direction = "higher_better",
           NEW v \in Int, NEW w \in Int, v <= w, v # NotANumber, w # NotANumber
    PROVE  /\ ScoreMetric(spec, v) \in 0..Full
           /\ ScoreMetric(spec, v) <= ScoreMetric(spec, w)
<1> DEFINE t == spec.pass_threshold
           part(x) == 100 * ((x * 1000) \div t)
<1>1. \A x \in Int : x # NotANumber =>
        ScoreMetric(spec, x) = IF x >= t THEN Full ELSE IF t = 0 THEN 0 ELSE Clamp(part(x))
  BY DEF ScoreMetric
<1>2. t \in Nat
  BY DEF WellSpec
<1> HIDE DEF t
<1>3. Full \in Nat
  BY DEF Full
<1>4. CASE t = 0
  <2> HIDE DEF part
  <2>1. ScoreMetric(spec, v) = IF v >= 0 THEN Full ELSE 0
    BY <1>1, <1>4
  <2>2. ScoreMetric(spec, w) = IF w >= 0 THEN Full ELSE 0
    BY <1>1, <1>4
  <2> QED
    BY <1>3, <2>1, <2>2
<1>5. CASE t # 0
  <2>1. (v * 1000) \div t \in Int /\ (w * 1000) \div t \in Int
        /\ (v * 1000) \div t <= (w * 1000) \div t
    <3>1. v * 1000 \in Int /\ w * 1000 \in Int /\ v * 1000 <= w * 1000 /\ t \in Nat \ {0}
      BY <1>2, <1>5
    <3> QED
      BY <3>1, Quotients
  <2>2. part(v) \in Int /\ part(w) \in Int /\ part(v) <= part(w)
    BY <2>1
  <2> HIDE DEF part
  <2>3. Clamp(part(v)) \in 0..Full /\ Clamp(part(w)) \in 0..Full /\ Clamp(part(v)) <= Clamp(part(w))
    BY <2>2, Clamps
  <2>4. ScoreMetric(spec, v) = IF v >= t THEN Full ELSE Clamp(part(v))
    BY <1>1, <1>5
  <2>5. ScoreMetric(spec, w) = IF w >= t THEN Full ELSE Clamp(part(w))
    BY <1>1, <1>5
  <2> QED
    BY <1>2, <1>3, <2>3, <2>4, <2>5
<1> QED
  BY <1>4, <1>5

LEMMA LowerScores ==
    ASSUME NEW spec, WellSpec(spec), spec.direction = "lower_better",
           NEW v \in Int, NEW w \in Int, w <= v, v # NotANumber, w # NotANumber
    PROVE  /\ ScoreMetric(spec, v) \in 0..Full
           /\ ScoreMetric(spec, v) <= ScoreMetric(spec, w)
<1> DEFINE t == spec.pass_threshold
           part(x) == Full - 100 * (((x - t) * 1000) \div Abs(t))
<1>1. \A x \in Int : x # NotANumber =>
        ScoreMetric(spec, x) = IF x <= t THEN Full ELSE Clamp(part(x))
  BY DEF ScoreMetric
<1>2. t \in Int /\ t # 0
  BY DEF WellSpec
<1> HIDE DEF t
<1>3. Full \in Nat
  BY DEF Full
<1>4. Abs(t) \in Nat \ {0}
  BY <1>2 DEF Abs
<1>5. ((v - t) * 1000) \div Abs(t) \in Int /\ ((w - t) * 1000) \div Abs(t) \in Int
      /\ ((w - t) * 1000) \div Abs(t) <= ((v - t) * 1000) \div Abs(t)
  <2>1. (v - t) * 1000 \in Int /\ (w - t) * 1000 \in Int /\ (w - t) * 1000 <= (v - t) * 1000
    BY <1>2
  <2> QED
    BY <1>4, <2>1, Quotients
<1>6. part(v) \in Int /\ part(w) \in Int /\ part(v) <= part(w)
  BY <1>3, <1>5
<1> HIDE DEF part
<1>7. Clamp(part(v)) \in 0..Full /\ Clamp(part(w)) \in 0..Full /\ Clamp(part(v)) <= Clamp(part(w))
  BY <1>6, Clamps
<1>8. ScoreMetric(spec, v) = IF v <= t THEN Full ELSE Clamp(part(v))
  BY <1>1
<1>9. ScoreMetric(spec, w) = IF w <= t THEN Full ELSE Clamp(part(w))
  BY <1>1
<1> QED
  BY <1>2, <1>3, <1>7, <1>8, <1>9

LEMMA ScoreType ==
    ASSUME NEW spec, WellSpec(spec), NEW v \in Values
    PROVE  ScoreMetric(spec, v) \in 0..Full
<1>1. Full \in Nat
  BY DEF Full
<1>2. CASE spec.direction \in {"bool_true", "exact"}
  BY <1>1, <1>2 DEF ScoreMetric
<1>3. CASE spec.direction \notin {"bool_true", "exact"} /\ v = NotANumber
  BY <1>1, <1>3 DEF ScoreMetric
<1>4. CASE spec.direction = "higher_better" /\ v # NotANumber
  BY <1>4, HigherScores DEF Values
<1>5. CASE spec.direction = "lower_better" /\ v # NotANumber
  BY <1>5, LowerScores DEF Values
<1> QED
  BY <1>2, <1>3, <1>4, <1>5 DEF WellSpec

(* A metric that gets no worse scores no less.                             *)
LEMMA ScoreMonotone ==
    ASSUME NEW spec, WellSpec(spec), NEW v \in Values, NEW w \in Values, AsGood(spec, w, v)
    PROVE  ScoreMetric(spec, v) <= ScoreMetric(spec, w)
<1>1. ScoreMetric(spec, v) \in 0..Full /\ ScoreMetric(spec, w) \in 0..Full
  BY ScoreType
<1>2. Full \in Nat
  BY DEF Full
<1>3. CASE w = v \/ ScoreMetric(spec, v) = 0
  BY <1>1, <1>2, <1>3
<1>4. CASE spec.direction = "higher_better" /\ w # v /\ v # NotANumber
  <2>1. v \in Int /\ w \in Int /\ v <= w /\ w # NotANumber
    BY <1>4 DEF AsGood, Values
  <2> QED
    BY <1>4, <2>1, HigherScores
<1>5. CASE spec.direction = "lower_better" /\ w # v /\ v # NotANumber
  <2>1. v \in Int /\ w \in Int /\ w <= v /\ w # NotANumber
    BY <1>5 DEF AsGood, Values
  <2> QED
    BY <1>5, <2>1, LowerScores
<1>6. CASE v = NotANumber /\ spec.direction \notin {"bool_true", "exact"}
  BY <1>3, <1>6 DEF ScoreMetric
<1> QED
  BY <1>3, <1>4, <1>5, <1>6 DEF AsGood

(* The metrics a gate decides on are numbers or texts.                     *)
WellMeasured(specs, e) == \A k \in DOMAIN specs \cap DOMAIN e : e[k] \in Values

Scores(specs, e) ==
    [k \in DOMAIN specs \cap DOMAIN e |-> ScoreMetric(specs[k], e[k]) * specs[k].weight]

LEMMA ScoresType ==
    ASSUME NEW specs, NEW threshold, Fits(specs, threshold), NEW e, WellMeasured(specs, e)
    PROVE  /\ IsFiniteSet(DOMAIN specs \cap DOMAIN e)
           /\ Numeric(Scores(specs, e), DOMAIN specs \cap DOMAIN e)
           /\ WeightedSum(specs, e) = SumFunctionOnSet(Scores(specs, e), DOMAIN specs \cap DOMAIN e)
           /\ WeightedSum(specs, e) \in Int
           /\ \A k \in DOMAIN specs \cap DOMAIN e :
                /\ Scores(specs, e)[k] = ScoreMetric(specs[k], e[k]) * specs[k].weight
                /\ ScoreMetric(specs[k], e[k]) \in 0..Full
                /\ specs[k].weight \in Nat \ {0}
                /\ 0 <= Scores(specs, e)[k] /\ Scores(specs, e)[k] <= Full * specs[k].weight
<1> DEFINE S == DOMAIN specs \cap DOMAIN e
           f == Scores(specs, e)
<1>1. IsFiniteSet(S)
  BY FS_Subset DEF Fits
<1>2. ASSUME NEW k \in S
      PROVE  /\ f[k] = ScoreMetric(specs[k], e[k]) * specs[k].weight
             /\ ScoreMetric(specs[k], e[k]) \in 0..Full
             /\ specs[k].weight \in Nat \ {0}
             /\ f[k] \in Int /\ 0 <= f[k] /\ f[k] <= Full * specs[k].weight
  <2> DEFINE s == ScoreMetric(specs[k], e[k])
             w == specs[k].weight
  <2>1. WellSpec(specs[k]) /\ e[k] \in Values
    BY DEF Fits, WellMeasured
  <2>2. s \in 0..Full /\ w \in Nat \ {0} /\ Full \in Nat
    <3>1. s \in 0..Full
      BY <2>1, ScoreType
    <3>2. w \in Nat \ {0} /\ Full \in Nat
      BY <2>1 DEF WellSpec, Full
    <3> QED
      BY <3>1, <3>2
  <2>3. f[k] = s * w
    BY DEF Scores
  <2> HIDE DEF s, w
  <2>4. 0 * w <= s * w /\ s * w <= Full * w /\ s * w \in Int
    <3>1. 0 * w <= s * w
      BY <2>2, Times
    <3>2. s * w <= Full * w
      BY <2>2, Times
    <3> QED
      BY <2>2, <3>1, <3>2
  <2>5. f[k] \in Int /\ 0 <= f[k] /\ f[k] <= Full * w
    BY <2>2, <2>3, <2>4
  <2> QED
    BY <2>2, <2>3, <2>5 DEF s, w
<1>3. Numeric(f, S)
  BY <1>2 DEF Numeric
<1>4. WeightedSum(specs, e) = SumFunctionOnSet(f, S)
  <2>1. DOMAIN f = S
    BY DEF Scores
  <2>2. WeightedSum(specs, e) = SumFunction(f)
    BY DEF WeightedSum, Scores
  <2> QED
    BY <2>1, <2>2, SumOverDomain
<1>5. WeightedSum(specs, e) \in Int
  BY <1>1, <1>3, <1>4, SumType
<1> QED
  BY <1>1, <1>2, <1>3, <1>4, <1>5

(* A hundredth of the score times the sum of the weights.                  *)
LEMMA SumScaled ==
    ASSUME NEW S, IsFiniteSet(S), NEW w, Numeric(w, S), NEW c \in Nat, NEW f,
           \A k \in S : f[k] = c * w[k]
    PROVE  SumFunctionOnSet(f, S) = c * SumFunctionOnSet(w, S)
<1> DEFINE T(s) == SumFunctionOnSet(w, s)
           F(s) == SumFunctionOnSet(f, s)
           G == {s \in SUBSET S : F(s) = c * T(s)}
<1>1. {} \in G
  BY SumEmpty
<1>2. ASSUME NEW s \in SUBSET S, s # {}, s \ {Pick(s)} \in G PROVE s \in G
  <2> DEFINE p == Pick(s)
             r == s \ {p}
  <2>1. IsFiniteSet(s) /\ Numeric(w, s) /\ Numeric(f, s)
    <3>1. \A k \in S : f[k] \in Int
      BY DEF Numeric
    <3> QED
      BY <3>1, FS_Subset DEF Numeric
  <2>2. p \in s /\ IsFiniteSet(r) /\ Numeric(w, r) /\ T(s) = w[p] + T(r)
    BY <1>2, <2>1, SumStep
  <2>3. F(s) = f[p] + F(r)
    BY <1>2, <2>1, SumStep
  <2>4. w[p] \in Int /\ T(r) \in Int /\ f[p] = c * w[p] /\ F(r) = c * T(r)
    BY <1>2, <2>1, <2>2, SumType DEF Numeric
  <2> HIDE DEF T, F, p, r
  <2>5. c * (w[p] + T(r)) = c * w[p] + c * T(r)
    BY <2>4, Z3
  <2>6. F(s) = c * T(s)
    BY <2>2, <2>3, <2>4, <2>5
  <2> QED
    BY <2>6 DEF T, F
<1>3. SUBSET S \subseteq G
  <2> HIDE DEF G
  <2> QED
    BY <1>1, <1>2, SubsetInd
<1> QED
  BY <1>3

(* Without its heaviest metric a use case stays below its threshold.       *)
LEMMA HeaviestNeeded ==
    ASSUME NEW specs, NEW threshold, Fits(specs, threshold), NEW e, WellMeasured(specs, e),
           NEW k \in DOMAIN specs, specs[k].weight = 6,
           k \notin DOMAIN e \/ ScoreMetric(specs[k], e[k]) = 0
    PROVE  WeightedSum(specs, e) < threshold * 1000 * Weight(specs, DOMAIN specs)
<1> DEFINE D == DOMAIN specs
           S == D \cap DOMAIN e
           f == Scores(specs, e)
           w == [x \in D |-> specs[x].weight]
           all == [x \in D |-> Full * specs[x].weight]
           gone == [x \in D |-> IF x = k THEN -(Full * 6) ELSE 0]
           best == [x \in D |-> IF x = k THEN 0 ELSE Full * specs[x].weight]
           W == SumFunctionOnSet(w, D)
<1>1. /\ IsFiniteSet(D) /\ Full = 100000
      /\ \A x \in D : specs[x].weight \in Nat \ {0}
  BY DEF Fits, WellSpec, Full
<1>2. W = Weight(specs, D) /\ W \in Nat \ {0} /\ threshold \in Nat /\ (100 - threshold) * W < 600
  <2>1. Weight(specs, D) = W
    BY SumOverDomain DEF Weight
  <2> QED
    BY <2>1 DEF Fits, Total
<1>3. SumFunctionOnSet(all, D) = Full * W
  <2>1. Numeric(w, D) /\ Full \in Nat /\ \A x \in D : all[x] = Full * w[x]
    BY <1>1 DEF Numeric
  <2> HIDE DEF w, all
  <2> QED
    BY <1>1, <2>1, SumScaled
<1>4. SumFunctionOnSet(gone, D) = -(Full * 6)
  <2>1. gone[k] = -(Full * 6) /\ gone[k] \in Int /\ \A x \in D : x # k => gone[x] = 0
    BY <1>1
  <2> HIDE DEF gone
  <2> QED
    BY <1>1, <2>1, SumSingle
<1>5. /\ SumFunctionOnSet(best, D) = SumFunctionOnSet(all, D) + SumFunctionOnSet(gone, D)
      /\ \A x \in D : best[x] \in Nat
  <2>1. \A x \in D : all[x] \in Nat /\ gone[x] \in Int /\ best[x] \in Nat
    BY <1>1
  <2>2. \A x \in D : best[x] = all[x] + gone[x]
    BY <1>1
  <2>3. Numeric(all, D) /\ Numeric(gone, D)
    BY <2>1 DEF Numeric
  <2>4. \A x \in D : best[x] \in Nat
    BY <2>1
  <2> HIDE DEF all, gone, best
  <2>5. SumFunctionOnSet(best, D) = SumFunctionOnSet(all, D) + SumFunctionOnSet(gone, D)
    BY <1>1, <2>2, <2>3, SumLinear
  <2> QED
    BY <2>4, <2>5
<1>6. \A x \in S : f[x] <= best[x]
  <2> SUFFICES ASSUME NEW x \in S PROVE f[x] <= best[x]
    OBVIOUS
  <2>1. /\ f[x] = ScoreMetric(specs[x], e[x]) * specs[x].weight
        /\ f[x] <= Full * specs[x].weight /\ specs[x].weight \in Nat
    BY ScoresType, ZenonT(40)
  <2>2. CASE x = k
    <3>1. f[x] = 0 * specs[x].weight
      BY <2>1, <2>2
    <3>2. f[x] = 0
      BY <2>1, <3>1
    <3> QED
      BY <2>2, <3>2
  <2>3. CASE x # k
    BY <2>1, <2>3
  <2> QED
    BY <2>2, <2>3
<1>7. WeightedSum(specs, e) = SumFunctionOnSet(f, S) /\ Numeric(f, S) /\ WeightedSum(specs, e) \in Int
  BY ScoresType
<1>8. SumFunctionOnSet(f, S) <= SumFunctionOnSet(best, D)
  <2>1. S \subseteq D
    OBVIOUS
  <2> HIDE DEF f, best, S, D
  <2> QED
    BY <1>1, <1>5, <1>6, <1>7, <2>1, SumGrows
<1> DEFINE sum == WeightedSum(specs, e)
           P == threshold * W
<1> HIDE DEF W, f, S, best, all, gone
<1>9. sum \in Int /\ sum <= 100000 * W - 600000
  BY <1>1, <1>2, <1>3, <1>4, <1>5, <1>7, <1>8
<1> HIDE DEF sum
<1>10. P \in Int /\ (100 - threshold) * W = 100 * W - P /\ threshold * 1000 * W = 1000 * P
  BY <1>2, Z3
<1> HIDE DEF P
<1>11. sum < 1000 * P
  BY <1>2, <1>9, <1>10
<1>12. threshold * 1000 * Weight(specs, D) = 1000 * P
  BY <1>2, <1>10
<1> QED
  BY <1>11, <1>12 DEF sum

-----------------------------------------------------------------------------
(* The gates of the shadow mode.                                           *)

Confusion == [tp : Nat, fp : Nat, tn : Nat, fn : Nat]
Comparison == [n : Nat, errors : Nat, actuals : Nat, within : Nat]

(* A right decision adds one to one of the cells on the diagonal.          *)
LEMMA RightDecision ==
    ASSUME NEW d \in Confusion, NEW b \in BOOLEAN
    PROVE  AddDecision(d, b, b) = IF b THEN [d EXCEPT !.tp = d.tp + 1]
                                         ELSE [d EXCEPT !.tn = d.tn + 1]
<1>1. CASE b
  BY <1>1 DEF AddDecision, Confusion
<1>2. CASE ~b
  BY <1>2 DEF AddDecision, Confusion
<1> QED
  BY <1>1, <1>2

(* A decision that was right keeps an approval (BinaryShadowEvaluator.add  *)
(* and promotion): all three rates move the right way, whatever the counts *)
(* are.                                                                    *)
THEOREM RightDecisionKeepsApproval ==
    ASSUME NEW d \in Confusion, NEW b \in BOOLEAN, MinSamples \in Nat, DecisionsPromoted(d)
    PROVE  DecisionsPromoted(AddDecision(d, b, b))
<1>1. /\ d.tp \in Nat /\ d.fp \in Nat /\ d.tn \in Nat /\ d.fn \in Nat
  BY DEF Confusion
<1>2. /\ d.tp + d.fp + d.tn + d.fn >= MinSamples
      /\ d.tp > 0
      /\ 100 * d.tp >= 90 * (d.tp + d.fp)
      /\ 100 * d.tp >= 80 * (d.tp + d.fn)
      /\ 100 * d.fp <= 5 * (d.fp + d.tn)
  BY DEF DecisionsPromoted, Decisions, PromotionGate
<1>3. CASE b
  <2> DEFINE e == [d EXCEPT !.tp = d.tp + 1]
  <2>1. AddDecision(d, b, b) = e
    BY <1>3, RightDecision
  <2>2. e.tp = d.tp + 1 /\ e.fp = d.fp /\ e.tn = d.tn /\ e.fn = d.fn
    BY DEF Confusion
  <2> HIDE DEF e
  <2>3. DecisionsPromoted(e)
    BY <1>1, <1>2, <2>2 DEF DecisionsPromoted, Decisions, PromotionGate
  <2> QED
    BY <2>1, <2>3
<1>4. CASE ~b
  <2> DEFINE e == [d EXCEPT !.tn = d.tn + 1]
  <2>1. AddDecision(d, b, b) = e
    BY <1>4, RightDecision
  <2>2. e.tp = d.tp /\ e.fp = d.fp /\ e.tn = d.tn + 1 /\ e.fn = d.fn
    BY DEF Confusion
  <2> HIDE DEF e
  <2>3. DecisionsPromoted(e)
    BY <1>1, <1>2, <2>2 DEF DecisionsPromoted, Decisions, PromotionGate
  <2> QED
    BY <2>1, <2>3
<1> QED
  BY <1>3, <1>4

(* What the gate lets through: of the times the model would have acted     *)
(* wrongly and rightly together at most one in ten was wrong, and the      *)
(* model was right more often than not however the samples are made up.    *)
THEOREM ApprovedIsMostlyRight ==
    ASSUME NEW d \in Confusion, DecisionsPromoted(d)
    PROVE  /\ 9 * d.fp <= d.tp
           /\ 4 * d.fn <= d.tp
           /\ 2 * (d.fp + d.fn) <= d.tp + d.tn
<1>1. /\ d.tp \in Nat /\ d.fp \in Nat /\ d.tn \in Nat /\ d.fn \in Nat
  BY DEF Confusion
<1>2. /\ 100 * d.tp >= 90 * (d.tp + d.fp)
      /\ 100 * d.tp >= 80 * (d.tp + d.fn)
      /\ 100 * d.fp <= 5 * (d.fp + d.tn)
  BY DEF DecisionsPromoted, PromotionGate
<1> QED
  BY <1>1, <1>2

-----------------------------------------------------------------------------

LEMMA ErrorType ==
    ASSUME NEW a \in Int, NEW b \in Int
    PROVE  Error(a, b) \in Nat
BY DEF Error

(* A load that was predicted within the tolerance keeps an approval that   *)
(* did not rest on loads of 0 (ForecastShadowEvaluator.add, promotion):    *)
(* the tolerance of a point, 10 %, is within the mean error the gate       *)
(* allows, 15 %.                                                           *)
THEOREM GoodForecastKeepsApproval ==
    ASSUME NEW f \in Comparison, NEW predicted \in Int, NEW actual \in Int,
           MinSamples \in Nat, f.actuals > 0,
           WithinTolerance(predicted, actual), ForecastsPromoted(f)
    PROVE  ForecastsPromoted(AddForecast(f, predicted, actual))
<1> DEFINE g == AddForecast(f, predicted, actual)
           err == Error(predicted, actual)
           load == Error(actual, 0)
<1>1. err \in Nat /\ load \in Nat
  BY ErrorType
<1>2. 100 * err <= 10 * load
  BY DEF WithinTolerance, ForecastGate
<1>3. /\ f.n \in Nat /\ f.errors \in Nat /\ f.actuals \in Nat /\ f.within \in Nat
  BY DEF Comparison
<1>4. /\ g.n = f.n + 1 /\ g.errors = f.errors + err
      /\ g.actuals = f.actuals + load /\ g.within = f.within + 1
  BY DEF AddForecast
<1>5. /\ f.n >= MinSamples /\ f.n > 0
      /\ 100 * f.errors <= 15 * f.actuals
      /\ 100 * f.within >= 80 * f.n
  BY DEF ForecastsPromoted, ForecastGate
<1> HIDE DEF g, err, load
<1>6. g.n >= MinSamples /\ g.n > 0
  BY <1>3, <1>4, <1>5
<1>7. 100 * g.errors <= 15 * g.actuals
  BY <1>1, <1>2, <1>3, <1>4, <1>5
<1>8. 100 * g.within >= 80 * g.n
  BY <1>3, <1>4, <1>5
<1>9. ForecastsPromoted(g)
  BY <1>6, <1>7, <1>8 DEF ForecastsPromoted, ForecastGate
<1> QED
  BY <1>9 DEF g

-----------------------------------------------------------------------------
(* The alert correlator.                                                   *)

Nearby(alerts, s) == {c \in alerts : \E b \in s : Near(alerts, b, c)}

(* r[n] is what chains of n neighbours reach from a.                       *)
Reaches(alerts, a, r) ==
    r = [n \in 0..Cardinality(alerts) |-> IF n = 0 THEN {a} ELSE Nearby(alerts, r[n - 1])]

LEMMA ReachExists ==
    ASSUME NEW alerts, IsFiniteSet(alerts), NEW a \in alerts
    PROVE  \E r \in [0..Cardinality(alerts) -> SUBSET alerts] : Reaches(alerts, a, r)
<1> DEFINE Up(m, r) == r = [n \in 0..m |-> IF n = 0 THEN {a} ELSE Nearby(alerts, r[n - 1])]
           G == {m \in Nat : \E r \in [0..m -> SUBSET alerts] : Up(m, r)}
<1>1. 0 \in G
  <2> DEFINE r == [n \in 0..0 |-> {a}]
  <2>1. r \in [0..0 -> SUBSET alerts] /\ \A n \in 0..0 : n = 0
    OBVIOUS
  <2>2. Up(0, r)
    BY <2>1
  <2> QED
    BY <2>1, <2>2
<1>2. ASSUME NEW m \in Nat, m \in G PROVE m + 1 \in G
  <2>1. PICK r \in [0..m -> SUBSET alerts] : Up(m, r)
    BY <1>2
  <2> DEFINE q == [n \in 0..(m + 1) |-> IF n = m + 1 THEN Nearby(alerts, r[m]) ELSE r[n]]
  <2>2. q \in [0..(m + 1) -> SUBSET alerts]
    BY DEF Nearby
  <2>3. \A n \in 0..(m + 1) : q[n] = IF n = 0 THEN {a} ELSE Nearby(alerts, q[n - 1])
    <3> SUFFICES ASSUME NEW n \in 0..(m + 1)
                 PROVE  q[n] = IF n = 0 THEN {a} ELSE Nearby(alerts, q[n - 1])
      OBVIOUS
    <3>1. CASE n = m + 1
      <4>1. n # 0 /\ n - 1 = m /\ q[m] = r[m] /\ q[n] = Nearby(alerts, r[m])
        BY <3>1
      <4> QED
        BY <4>1
    <3>2. CASE n # m + 1
      <4>1. n \in 0..m /\ q[n] = r[n] /\ (n # 0 => q[n - 1] = r[n - 1])
        BY <3>2
      <4>2. r[n] = IF n = 0 THEN {a} ELSE Nearby(alerts, r[n - 1])
        BY <2>1, <4>1
      <4> QED
        BY <4>1, <4>2
    <3> QED
      BY <3>1, <3>2
  <2> HIDE DEF q
  <2>4. Up(m + 1, q)
    BY <2>2, <2>3
  <2> QED
    BY <2>2, <2>4
<1>3. Nat \subseteq G
  <2> HIDE DEF G
  <2> QED
    BY <1>1, <1>2, NatInd
<1>4. Cardinality(alerts) \in Nat
  BY FS_CardinalityType
<1> QED
  BY <1>3, <1>4 DEF Reaches

LEMMA ComponentIs ==
    ASSUME NEW alerts, IsFiniteSet(alerts), NEW a \in alerts
    PROVE  \E r \in [0..Cardinality(alerts) -> SUBSET alerts] :
                Reaches(alerts, a, r) /\ Component(alerts, a) = r[Cardinality(alerts)]
<1> DEFINE r == CHOOSE r : Reaches(alerts, a, r)
<1>1. PICK q \in [0..Cardinality(alerts) -> SUBSET alerts] : Reaches(alerts, a, q)
  BY ReachExists
<1>2. Reaches(alerts, a, r)
  BY <1>1
<1>3. Component(alerts, a) = r[Cardinality(alerts)]
  BY DEF Component, Reaches, Nearby
<1> HIDE DEF r
<1>4. Cardinality(alerts) \in Nat
  BY FS_CardinalityType
<1> DEFINE m == Cardinality(alerts)
           G == {n \in Nat : n <= m => r[n] = q[n]}
<1>5. \A n \in 0..m : /\ r[n] = IF n = 0 THEN {a} ELSE Nearby(alerts, r[n - 1])
                      /\ q[n] = IF n = 0 THEN {a} ELSE Nearby(alerts, q[n - 1])
  BY <1>1, <1>2 DEF Reaches
<1>6. 0 \in G
  BY <1>4, <1>5, SMTT(30)
<1>7. ASSUME NEW n \in Nat, n \in G PROVE n + 1 \in G
  <2> SUFFICES ASSUME n + 1 <= m PROVE r[n + 1] = q[n + 1]
    OBVIOUS
  <2>1. n + 1 \in 0..m /\ n + 1 # 0 /\ (n + 1) - 1 = n /\ r[n] = q[n]
    BY <1>4, <1>7
  <2> QED
    BY <1>5, <2>1
<1>8. Nat \subseteq G
  <2> HIDE DEF G
  <2> QED
    BY <1>6, <1>7, NatInd
<1>9. \A n \in 0..m : r[n] = q[n]
  BY <1>4, <1>8
<1>10. m \in 0..m
  BY <1>4
<1> QED
  BY <1>1, <1>3, <1>9, <1>10

LEMMA ClustersWithin ==
    ASSUME NEW alerts, IsFiniteSet(alerts)
    PROVE  /\ \A g \in Clusters(alerts) : g \subseteq alerts
           /\ UNION Clusters(alerts) \subseteq alerts
           /\ IsFiniteSet(Clusters(alerts)) /\ IsFiniteSet(UNION Clusters(alerts))
<1>1. \A a \in alerts : Component(alerts, a) \subseteq alerts
  <2> SUFFICES ASSUME NEW a \in alerts PROVE Component(alerts, a) \in SUBSET alerts
    OBVIOUS
  <2>1. PICK r \in [0..Cardinality(alerts) -> SUBSET alerts] :
            Component(alerts, a) = r[Cardinality(alerts)]
    BY ComponentIs
  <2>2. Cardinality(alerts) \in 0..Cardinality(alerts)
    BY FS_CardinalityType
  <2> QED
    BY <2>1, <2>2
<1>2. \A g \in Clusters(alerts) : g \in SUBSET alerts
  BY <1>1 DEF Clusters
<1>3. IsFiniteSet(SUBSET alerts)
  BY FS_SUBSET
<1>4. Clusters(alerts) \subseteq SUBSET alerts /\ UNION Clusters(alerts) \subseteq alerts
  BY <1>2
<1>5. IsFiniteSet(Clusters(alerts)) /\ IsFiniteSet(UNION Clusters(alerts))
  BY <1>3, <1>4, FS_Subset
<1> QED
  BY <1>2, <1>4, <1>5

LEMMA LargerOfOne ==
    ASSUME NEW n \in Nat
    PROVE  Max({1, n}) \in Nat \ {0}
<1>1. \E x \in {1, n} : \A y \in {1, n} : x >= y
  <2>1. CASE n >= 1
    BY <2>1
  <2>2. CASE ~(n >= 1)
    BY <2>2
  <2> QED
    BY <2>1, <2>2
<1>2. Max({1, n}) \in {1, n} /\ \A y \in {1, n} : Max({1, n}) >= y
  BY <1>1 DEF Max
<1>3. Max({1, n}) >= 1
  BY <1>2
<1> QED
  BY <1>2, <1>3

LEMMA CorrelationMeasured ==
    ASSUME NEW alerts, IsFiniteSet(alerts), NEW silhouette \in Int, NEW specs,
           DOMAIN specs = {"deduplication_rate", "silhouette_score", "false_positive_rate"}
    PROVE  WellMeasured(specs, correlate_alerts(alerts, silhouette))
<1> DEFINE e == correlate_alerts(alerts, silhouette)
           clusters == Clusters(alerts)
           roots == {a \in alerts : a.is_root}
           deduplicated == Cardinality(UNION clusters) - Cardinality(clusters)
           suppressed == Cardinality(Suppressed(alerts))
           rooted == Max({1, Cardinality(roots)})
           size == Cardinality(alerts)
<1>1. Cardinality(UNION clusters) \in Nat /\ Cardinality(clusters) \in Nat
  BY ClustersWithin, FS_CardinalityType
<1>2. suppressed \in Nat
  <2>1. Suppressed(alerts) \subseteq alerts
    BY DEF Suppressed
  <2>2. IsFiniteSet(Suppressed(alerts))
    BY <2>1, FS_Subset
  <2> QED
    BY <2>2, FS_CardinalityType
<1>3. rooted \in Nat \ {0}
  <2>1. IsFiniteSet(roots)
    BY FS_Subset
  <2>2. Cardinality(roots) \in Nat
    BY <2>1, FS_CardinalityType
  <2> HIDE DEF roots
  <2> QED
    BY <2>2, LargerOfOne
<1>4. size \in Nat /\ (alerts # {} => size # 0)
  BY FS_CardinalityType, FS_EmptySet
<1>5. /\ e.deduplication_rate = IF alerts = {} THEN 0 ELSE (1000 * deduplicated) \div size
      /\ e.silhouette_score = IF SilhouetteComputed(alerts) THEN silhouette ELSE 0
      /\ e.false_positive_rate = (1000 * suppressed) \div rooted
  BY DEF correlate_alerts
<1>6. e.silhouette_score \in Int
  BY <1>5
<1>7. e["deduplication_rate"] = e.deduplication_rate /\ e["silhouette_score"] = e.silhouette_score
      /\ e["false_positive_rate"] = e.false_positive_rate
  OBVIOUS
<1> HIDE DEF clusters, roots, suppressed, rooted, size, e
<1>8. e.deduplication_rate \in Int
  <2>1. CASE alerts = {}
    BY <1>5, <2>1
  <2>2. CASE alerts # {}
    <3>1. 1000 * deduplicated \in Int /\ size \in Nat \ {0}
      BY <1>1, <1>4, <2>2
    <3> HIDE DEF deduplicated
    <3>2. (1000 * deduplicated) \div size \in Int
      BY <3>1, Division
    <3> QED
      BY <1>5, <2>2, <3>2
  <2> QED
    BY <2>1, <2>2
<1>9. e.false_positive_rate \in Int
  <2>1. 1000 * suppressed \in Int
    BY <1>2
  <2>2. (1000 * suppressed) \div rooted \in Int
    BY <1>3, <2>1, Division
  <2> QED
    BY <1>5, <2>2
<1>10. \A k \in DOMAIN specs \cap DOMAIN e : e[k] \in Values
  BY <1>6, <1>7, <1>8, <1>9 DEF Values
<1> QED
  BY <1>10 DEF WellMeasured, e

-----------------------------------------------------------------------------
(* The predictive scaler.                                                  *)

(* n times the sum of the squares exceeds the square of the sum, for three *)
(* positions or more.                                                      *)
LEMMA Spread ==
    ASSUME NEW n \in Nat, n >= 3
    PROVE  LET sx == (n * (n - 1)) \div 2
               sxx == ((n - 1) * n * (2 * n - 1)) \div 6
           IN  sx \in Int /\ sxx \in Int /\ n * sxx - sx * sx \in Nat \ {0}
<1> DEFINE a == n * (n - 1)
           b == (n - 1) * n * (2 * n - 1)
           sx == a \div 2
           sxx == b \div 6
<1>1. a \in Nat /\ b \in Int
  <2>1. a = n * n - n /\ n * n >= 3 * n
    BY Z3
  <2>2. b = a * (2 * n - 1) /\ a \in Int
    BY Z3
  <2> QED
    BY <2>1, <2>2, Z3
<1>2. sx \in Int /\ a % 2 \in 0..1 /\ a = 2 * sx + (a % 2)
  <2> HIDE DEF a
  <2> QED
    BY <1>1, Division
<1>3. sxx \in Int /\ b % 6 \in 0..5 /\ b = 6 * sxx + (b % 6)
  <2> HIDE DEF b
  <2> QED
    BY <1>1, Division
<1> HIDE DEF sx, sxx
<1>4. 2 * sx <= a /\ 6 * sxx >= b - 5 /\ 0 <= sx
  <2> HIDE DEF a, b
  <2> QED
    BY <1>1, <1>2, <1>3
<1>5. 4 * (sx * sx) <= a * a
  <2> HIDE DEF a
  <2> QED
    BY <1>1, <1>2, <1>4, Z3
<1>6. 6 * (n * sxx) >= n * b - 5 * n
  <2>1. n * (6 * sxx) >= n * (b - 5)
    <3> HIDE DEF b
    <3> QED
      BY <1>1, <1>3, <1>4, Z3
  <2> HIDE DEF b
  <2> QED
    BY <1>1, <1>3, <2>1, Z3
<1> DEFINE square == sx * sx
           aa == a * a
           nb == n * b
           ns == n * sxx
<1>7. 2 * nb - 3 * aa >= 24 * n
  <2>1. a = n * n - n
    BY Z3
  <2>2. b = 2 * (n * n * n) - 3 * (n * n) + n
    BY Z3
  <2>3. 2 * nb - 3 * aa = n * n * n * n - n * n
    BY <2>1, <2>2, Z3
  <2> DEFINE q == n * n
  <2>4. q \in Nat /\ q >= 9 /\ q >= 3 * n /\ n * n * n * n = q * q
    BY Z3
  <2> HIDE DEF q
  <2>5. 9 * q <= q * q /\ q * q \in Int
    BY <2>4, Z3
  <2>6. 9 * q - q >= 24 * n
    BY <2>4
  <2>7. n * n * n * n - n * n = q * q - q
    BY <2>4 DEF q
  <2> QED
    BY <2>3, <2>4, <2>5, <2>6, <2>7
<1>8. square \in Int /\ aa \in Int /\ nb \in Int /\ ns \in Int
  BY <1>1, <1>2, <1>3, Z3
<1>9. 4 * square <= aa /\ 6 * ns >= nb - 5 * n
  BY <1>5, <1>6
<1> HIDE DEF square, aa, nb, ns
<1>10. ns - square \in Nat \ {0}
  BY <1>7, <1>8, <1>9
<1> QED
  BY <1>2, <1>3, <1>10 DEF sx, sxx, square, ns

LEMMA SumOfNumbers ==
    ASSUME NEW n \in Nat, NEW f, DOMAIN f = 1..n, \A i \in 1..n : f[i] \in Int
    PROVE  SumFunction(f) \in Int
<1>1. IsFiniteSet(1..n)
  BY FS_Interval
<1>2. Numeric(f, 1..n)
  BY DEF Numeric
<1>3. SumFunction(f) = SumFunctionOnSet(f, 1..n)
  BY SumOverDomain
<1> QED
  BY <1>1, <1>2, <1>3, SumType

LEMMA TrendType ==
    ASSUME NEW history \in Seq(Nat), Len(history) >= 3, NEW steps \in Int
    PROVE  /\ linear_trend_forecast(history, steps).num \in Int
           /\ linear_trend_forecast(history, steps).den \in Nat \ {0}
<1> DEFINE n == Len(history)
           sx == (n * (n - 1)) \div 2
           sxx == ((n - 1) * n * (2 * n - 1)) \div 6
           weighted == [i \in 1..n |-> (i - 1) * history[i]]
           sy == SumFunction(history)
           sxy == SumFunction(weighted)
           spread == n * sxx - sx * sx
           ahead == n * (n - 1 + steps) - sx
           level == sy * spread + (n * sxy - sx * sy) * ahead
<1>1. n \in Nat /\ n >= 3 /\ DOMAIN history = 1..n /\ \A i \in 1..n : history[i] \in Nat
  OBVIOUS
<1>2. linear_trend_forecast(history, steps) =
            IF n = 0 THEN [num |-> 0, den |-> 1]
            ELSE IF n < 3 THEN [num |-> Largest(0, history[n]), den |-> 1]
            ELSE [num |-> Largest(0, level), den |-> n * spread]
  BY DEF linear_trend_forecast
<1> HIDE DEF n
<1>3. sx \in Int /\ sxx \in Int /\ spread \in Nat \ {0}
  BY <1>1, Spread
<1>4. sy \in Int
  BY <1>1, SumOfNumbers
<1>5. sxy \in Int
  <2>1. DOMAIN weighted = 1..n
    OBVIOUS
  <2>2. \A i \in 1..n : weighted[i] \in Int
    <3> SUFFICES ASSUME NEW i \in 1..n PROVE (i - 1) * history[i] \in Int
      OBVIOUS
    <3>1. i - 1 \in Int /\ history[i] \in Int
      BY <1>1
    <3> QED
      BY <3>1
  <2> HIDE DEF weighted
  <2> QED
    BY <1>1, <2>1, <2>2, SumOfNumbers
<1> HIDE DEF sx, sxx, spread, sy, sxy
<1>6. ahead \in Int
  BY <1>1, <1>3
<1> HIDE DEF ahead
<1>7. level \in Int
  BY <1>1, <1>3, <1>4, <1>5, <1>6
<1> HIDE DEF level
<1>8. Largest(0, level) \in Int
  BY <1>7 DEF Largest
<1>9. n * spread \in Nat \ {0}
  BY <1>1, <1>3, Z3
<1>10. linear_trend_forecast(history, steps) = [num |-> Largest(0, level), den |-> n * spread]
  BY <1>1, <1>2
<1> QED
  BY <1>8, <1>9, <1>10

LEMMA BacktestType ==
    ASSUME NEW history \in Seq(Nat)
    PROVE  backtest_mae_pct(history) \in Int
<1> DEFINE n == Len(history)
           Trend(i) == linear_trend_forecast(SubSeq(history, 1, i), 1)
           Gap(i) == Trend(i).num - history[i + 1] * Trend(i).den
           Off(i) == (1000 * Largest(Gap(i), -Gap(i))) \div Trend(i).den
           offs == [i \in 1..(n - 3) |-> Off(i + 2)]
           errors == SumFunction(offs)
           sum == SumFunction(history)
<1>1. n \in Nat /\ DOMAIN history = 1..n /\ \A i \in 1..n : history[i] \in Nat
  OBVIOUS
<1>2. backtest_mae_pct(history) =
        IF n < 5 \/ sum <= 0 THEN 0 ELSE (errors * n) \div ((n - 3) * sum)
  BY DEF backtest_mae_pct
<1>3. sum \in Int
  <2> HIDE DEF n
  <2> QED
    BY <1>1, SumOfNumbers
<1>4. CASE n < 5 \/ sum <= 0
  BY <1>2, <1>4
<1>5. CASE ~(n < 5 \/ sum <= 0)
  <2>1. \A i \in 1..(n - 3) : offs[i] \in Int
    <3> SUFFICES ASSUME NEW i \in 1..(n - 3) PROVE Off(i + 2) \in Int
      OBVIOUS
    <3> DEFINE k == i + 2
               prefix == SubSeq(history, 1, k)
    <3>1. k \in Nat /\ k >= 3 /\ k + 1 \in 1..n
      BY <1>1, <1>5
    <3>2. prefix \in Seq(Nat) /\ Len(prefix) = k
      BY <1>1, <3>1
    <3> HIDE DEF prefix, k
    <3>3. linear_trend_forecast(prefix, 1).num \in Int
          /\ linear_trend_forecast(prefix, 1).den \in Nat \ {0}
      <4>1. linear_trend_forecast(prefix, 1).num \in Int
        BY <3>1, <3>2, TrendType
      <4>2. linear_trend_forecast(prefix, 1).den \in Nat \ {0}
        BY <3>1, <3>2, TrendType
      <4> QED
        BY <4>1, <4>2
    <3>4. Trend(k).num \in Int /\ Trend(k).den \in Nat \ {0} /\ history[k + 1] \in Nat
      BY <1>1, <3>1, <3>3 DEF prefix
    <3> HIDE DEF Trend
    <3>5. Gap(k) \in Int
      BY <3>4
    <3> HIDE DEF Gap
    <3>6. 1000 * Largest(Gap(k), -Gap(k)) \in Int
      BY <3>5 DEF Largest
    <3>7. Off(k) \in Int
      <4> DEFINE num == 1000 * Largest(Gap(k), -Gap(k))
                 den == Trend(k).den
      <4>1. num \in Int /\ den \in Nat \ {0}
        BY <3>4, <3>6
      <4> HIDE DEF num, den
      <4>2. num \div den \in Int
        BY <4>1, Division
      <4> QED
        BY <4>2 DEF num, den
    <3> QED
      BY <3>7 DEF k
  <2>2. n - 3 \in Nat /\ n - 3 > 0 /\ sum > 0 /\ DOMAIN offs = 1..(n - 3)
    BY <1>1, <1>3, <1>5
  <2> HIDE DEF offs
  <2>3. errors \in Int
    BY <2>1, <2>2, SumOfNumbers
  <2> HIDE DEF errors, sum, n
  <2>4. errors * n \in Int /\ (n - 3) * sum \in Nat \ {0}
    BY <1>1, <1>3, <2>2, <2>3, Z3
  <2>5. (errors * n) \div ((n - 3) * sum) \in Int
    BY <2>4, Division
  <2> QED
    BY <1>2, <1>5, <2>5
<1> QED
  BY <1>4, <1>5

LEMMA ForecastMeasured ==
    ASSUME NEW history \in Seq(Nat), NEW horizon \in Int, NEW shadow \in BOOLEAN, NEW specs,
           DOMAIN specs = {"forecast_mae", "pre_scale_lead_time_seconds", "p99_latency_delta_pct"}
    PROVE  WellMeasured(specs, forecast_response(history, horizon, shadow))
<1> DEFINE e == forecast_response(history, horizon, shadow)
<1>1. backtest_mae_pct(history) \in Int /\ 60 * horizon \in Int
  BY BacktestType
<1>2. /\ e["forecast_mae"] = backtest_mae_pct(history)
      /\ e["pre_scale_lead_time_seconds"] = 60 * horizon
      /\ e["p99_latency_delta_pct"] = IF shadow THEN 0 ELSE -150
  BY DEF forecast_response
<1> HIDE DEF e
<1>3. \A k \in DOMAIN specs : e[k] \in Int
  BY <1>1, <1>2
<1> QED
  BY <1>3 DEF WellMeasured, Values, e

-----------------------------------------------------------------------------
(* The gates together: what they decide on is of their kind.               *)

GInv ==
    /\ gate \in {"decisions", "forecasts"} \cup Services \cup DOMAIN UC_METRICS
    /\ gate = "decisions" => basis \in Confusion
    /\ gate = "forecasts" => basis \in Comparison
    /\ gate = "alert-correlator" => IsFiniteSet(source) /\ source \subseteq Alerts
    /\ gate = "predictive-scaler" => source \in Seq(Nat)
    /\ gate \in Services \cup DOMAIN UC_METRICS =>
            WellMeasured(UC_METRICS[UseCase(gate)], basis)

LEMMA GateNames ==
    /\ {"decisions", "forecasts", "alert-correlator", "predictive-scaler"} \cap DOMAIN UC_METRICS = {}
    /\ DOMAIN UC_METRICS["UC3"] = {"deduplication_rate", "silhouette_score", "false_positive_rate"}
    /\ DOMAIN UC_METRICS["UC4"] =
            {"forecast_mae", "pre_scale_lead_time_seconds", "p99_latency_delta_pct"}
    /\ UseCase("alert-correlator") = "UC3" /\ UseCase("predictive-scaler") = "UC4"
    /\ \A uc \in DOMAIN UC_METRICS : UseCase(uc) = uc
    /\ {"UC3", "UC4"} \subseteq DOMAIN UC_METRICS
<1>1. {"decisions", "forecasts", "alert-correlator", "predictive-scaler"} \cap DOMAIN UC_METRICS = {}
  BY UseCaseIs DEF LearningMetrics, PlatformMetrics, OperationsMetrics
<1>2. {"UC3", "UC4"} \subseteq DOMAIN LearningMetrics
  BY DEF LearningMetrics
<1>3. DOMAIN LearningMetrics["UC3"] = {"deduplication_rate", "silhouette_score", "false_positive_rate"}
  BY DEF LearningMetrics
<1>4. DOMAIN LearningMetrics["UC4"] =
            {"forecast_mae", "pre_scale_lead_time_seconds", "p99_latency_delta_pct"}
  BY DEF LearningMetrics
<1>5. {"UC3", "UC4"} \subseteq DOMAIN UC_METRICS
  BY <1>2, UseCaseIs
<1>6. UC_METRICS["UC3"] = LearningMetrics["UC3"] /\ UC_METRICS["UC4"] = LearningMetrics["UC4"]
  BY <1>2, UseCaseIs
<1>7. UseCase("alert-correlator") = "UC3" /\ UseCase("predictive-scaler") = "UC4"
  BY DEF UseCase
<1>8. \A uc \in DOMAIN UC_METRICS : UseCase(uc) = uc
  BY <1>1 DEF UseCase
<1> QED
  BY <1>1, <1>3, <1>4, <1>5, <1>6, <1>7, <1>8

LEMMA NothingMeasured == ASSUME NEW specs, NEW e, DOMAIN e = {} PROVE WellMeasured(specs, e)
BY DEF WellMeasured

LEMMA GInvInit == GatesInit => GInv
<1> SUFFICES ASSUME GatesInit PROVE GInv
  OBVIOUS
<1>1. CASE gate = "decisions" /\ source = <<>> /\ basis = NoDecisions
  BY <1>1, GateNames DEF GInv, NoDecisions, Confusion, Services
<1>2. CASE gate = "forecasts" /\ source = <<>> /\ basis = NoForecasts
  BY <1>2, GateNames DEF GInv, NoForecasts, Comparison, Services
<1>3. CASE gate = "alert-correlator" /\ source = {} /\ basis = correlate_alerts({}, 0)
  <2>1. IsFiniteSet({})
    BY FS_EmptySet
  <2>2. WellMeasured(UC_METRICS["UC3"], correlate_alerts({}, 0))
    BY <2>1, CorrelationMeasured, GateNames
  <2> QED
    BY <1>3, <2>1, <2>2, GateNames DEF GInv, Services
<1>4. CASE gate = "predictive-scaler" /\ source = <<>> /\ basis = forecast_response(<<>>, 0, TRUE)
  <2>1. <<>> \in Seq(Nat)
    OBVIOUS
  <2>2. \A h \in Seq(Nat), shadow \in BOOLEAN :
            WellMeasured(UC_METRICS["UC4"], forecast_response(h, 0, shadow))
    BY ForecastMeasured, GateNames
  <2>3. WellMeasured(UC_METRICS["UC4"], forecast_response(<<>>, 0, TRUE))
    BY <2>1, <2>2, Zenon
  <2> QED
    BY <1>4, <2>1, <2>3, GateNames DEF GInv, Services
<1>5. CASE gate \in DOMAIN UC_METRICS /\ source = <<>> /\ basis = <<>>
  <2>1. DOMAIN << >> = {}
    OBVIOUS
  <2>2. WellMeasured(UC_METRICS[UseCase(gate)], basis)
    BY <1>5, <2>1, NothingMeasured
  <2>3. gate \notin {"decisions", "forecasts", "alert-correlator", "predictive-scaler"}
    BY <1>5, GateNames
  <2> QED
    BY <1>5, <2>2, <2>3 DEF GInv
<1> QED
  BY <1>1, <1>2, <1>3, <1>4, <1>5 DEF GatesInit

LEMMA AddedDecision ==
    ASSUME NEW d \in Confusion, NEW p \in BOOLEAN, NEW a \in BOOLEAN
    PROVE  AddDecision(d, p, a) \in Confusion
BY DEF AddDecision, Confusion

LEMMA AddedForecast ==
    ASSUME NEW f \in Comparison, NEW p \in Nat, NEW a \in Nat
    PROVE  AddForecast(f, p, a) \in Comparison
<1>1. Error(p, a) \in Nat /\ Error(a, 0) \in Nat
  BY ErrorType
<1> QED
  BY <1>1 DEF AddForecast, Comparison

LEMMA GInvNext == GInv /\ [GatesNext]_gatesVars => GInv'
<1> SUFFICES ASSUME GInv, [GatesNext]_gatesVars PROVE GInv'
  OBVIOUS
<1> USE GatesAssumption DEF GatesAssumption
<1>1. ASSUME NEW predicted \in BOOLEAN, NEW actual \in BOOLEAN, Decide(predicted, actual)
      PROVE  GInv'
  <2>1. basis' \in Confusion /\ gate = "decisions" /\ gate' = "decisions"
    BY <1>1, AddedDecision DEF Decide, GInv
  <2> QED
    BY <2>1, GateNames DEF GInv, Services
<1>2. ASSUME NEW predicted \in Loads, NEW actual \in Loads, Realise(predicted, actual)
      PROVE  GInv'
  <2>1. gate = "forecasts" /\ gate' = "forecasts" /\ basis \in Comparison
    BY <1>2 DEF Realise, GInv
  <2>2. basis' \in Comparison
    BY <1>2, <2>1, AddedForecast DEF Realise
  <2> QED
    BY <2>1, <2>2, GateNames DEF GInv, Services
<1>3. ASSUME NEW alert \in Alerts, Arrive(alert) PROVE GInv'
  <2>1. gate = "alert-correlator" /\ gate' = "alert-correlator"
        /\ IsFiniteSet(source') /\ source' \subseteq Alerts
    BY <1>3, FS_AddElement DEF Arrive, GInv
  <2>2. WellMeasured(UC_METRICS["UC3"], basis')
    <3>1. CASE CorrelationRaises(source')
      <4>1. basis' = << >> /\ DOMAIN << >> = {}
        BY <1>3, <3>1 DEF Arrive
      <4> QED
        BY <4>1, NothingMeasured
    <3>2. CASE ~CorrelationRaises(source')
      <4>1. PICK silhouette \in Silhouettes : basis' = correlate_alerts(source', silhouette)
        BY <1>3, <3>2 DEF Arrive
      <4>2. silhouette \in Int
        OBVIOUS
      <4> QED
        BY <2>1, <4>1, <4>2, CorrelationMeasured, GateNames
    <3> QED
      BY <3>1, <3>2
  <2> QED
    BY <2>1, <2>2, GateNames DEF GInv, Services
<1>4. ASSUME NEW load \in Loads, NEW horizon \in Horizons, NEW shadow \in BOOLEAN,
             Forecast(load, horizon, shadow)
      PROVE  GInv'
  <2>1. gate = "predictive-scaler" /\ gate' = "predictive-scaler" /\ source \in Seq(Nat)
    BY <1>4 DEF Forecast, GInv
  <2>2. source' \in Seq(Nat) /\ basis' = forecast_response(source', horizon, shadow)
    BY <1>4, <2>1 DEF Forecast
  <2>3. WellMeasured(UC_METRICS["UC4"], basis')
    BY <2>2, ForecastMeasured, GateNames
  <2> QED
    BY <2>1, <2>2, <2>3, GateNames DEF GInv, Services
<1>5. ASSUME gate \in DOMAIN UC_METRICS, NEW metric \in DOMAIN UC_METRICS[gate],
             NEW value \in Measured(UC_METRICS[gate][metric].pass_threshold),
             Measure(metric, value)
      PROVE  GInv'
  <2>1. gate' = gate /\ UseCase(gate) = gate /\ WellMeasured(UC_METRICS[gate], basis)
    BY <1>5, GateNames DEF Measure, GInv
  <2>2. basis' = [k \in DOMAIN basis \cup {metric} |-> IF k = metric THEN value ELSE basis[k]]
    BY <1>5 DEF Measure
  <2>3. value \in Values
    BY <1>5, MeasuredAssumption DEF MeasuredAssumption, Values
  <2>4. WellMeasured(UC_METRICS[gate], basis')
    BY <2>1, <2>2, <2>3 DEF WellMeasured
  <2>5. gate \notin {"decisions", "forecasts", "alert-correlator", "predictive-scaler"}
    BY <1>5, GateNames
  <2> QED
    BY <1>5, <2>1, <2>4, <2>5 DEF GInv
<1>6. CASE UNCHANGED gatesVars
  BY <1>6 DEF GInv, gatesVars
<1> QED
  BY <1>1, <1>2, <1>3, <1>4, <1>5, <1>6 DEF GatesNext, Settled

LEMMA AlwaysGInv == GatesSpec => []GInv
BY GInvInit, GInvNext, PTL DEF GatesSpec

(* THRESHOLDS and the weights of UC_METRICS fit for all 23 use cases,      *)
(* whatever the other metrics are measured to be.                          *)
LEMMA HeaviestBlocks == GInv => HeaviestMetricBlocks
<1> SUFFICES ASSUME GInv, gate \in DOMAIN UC_METRICS, NEW k \in DOMAIN UC_METRICS[gate],
                    UC_METRICS[gate][k].weight = 6,
                    k \notin DOMAIN basis \/ ScoreMetric(UC_METRICS[gate][k], basis[k]) = 0
             PROVE  ~Approved(gate, basis)
  BY DEF HeaviestMetricBlocks
<1> DEFINE specs == UC_METRICS[gate]
           threshold == THRESHOLDS[gate]
<1>1. UseCase(gate) = gate /\ gate \notin {"decisions", "forecasts"}
  BY GateNames
<1>2. WellMeasured(specs, basis) /\ Fits(specs, threshold)
  BY <1>1, UseCasesFit DEF GInv
<1>3. WeightedSum(specs, basis) < threshold * 1000 * Weight(specs, DOMAIN specs)
  <2> HIDE DEF specs, threshold
  <2> QED
    BY <1>2, HeaviestNeeded DEF specs
<1>4. Weight(specs, DOMAIN specs) \in Int /\ threshold \in Int /\ WeightedSum(specs, basis) \in Int
  <2>1. WeightedSum(specs, basis) \in Int
    BY <1>2, ScoresType
  <2> QED
    BY <1>2, <2>1 DEF Fits, Total
<1>5. ~compute_score(gate, basis)
  <2> DEFINE sum == WeightedSum(specs, basis)
             bar == threshold * 1000 * Weight(specs, DOMAIN specs)
  <2>1. sum \in Int /\ bar \in Int /\ sum < bar
    BY <1>3, <1>4, Z3
  <2>2. compute_score(gate, basis) <=> sum >= bar
    BY DEF compute_score
  <2> HIDE DEF sum, bar
  <2> QED
    BY <2>1, <2>2
<1> QED
  BY <1>1, <1>5 DEF Approved

(* No gate of a use case passes without a metric of weight 3 (OPA's        *)
(* approval, critical CVEs, ...): with the thresholds and weights of       *)
(* metrics.py as they stand, what the others can add stays below the bar.  *)
THEOREM HeaviestMetricNeeded == GatesSpec => []HeaviestMetricBlocks
BY AlwaysGInv, HeaviestBlocks, PTL

LEMMA CellsAfter ==
    ASSUME NEW d \in Confusion, NEW p \in BOOLEAN, NEW a \in BOOLEAN,
           \/ AddDecision(d, p, a).tp > d.tp
           \/ AddDecision(d, p, a).tn > d.tn
    PROVE  p = a
<1>1. d.tp \in Nat /\ d.tn \in Nat
  BY DEF Confusion
<1>2. CASE p /\ ~a
  BY <1>1, <1>2 DEF AddDecision, Confusion
<1>3. CASE ~p /\ a
  BY <1>1, <1>3 DEF AddDecision, Confusion
<1> QED
  BY <1>2, <1>3

LEMMA WithinAfter ==
    ASSUME NEW f \in Comparison, NEW p, NEW a, AddForecast(f, p, a).within > f.within
    PROVE  WithinTolerance(p, a)
<1>1. f.within \in Nat
  BY DEF Comparison
<1>2. AddForecast(f, p, a).within = f.within + (IF WithinTolerance(p, a) THEN 1 ELSE 0)
  BY DEF AddForecast
<1> HIDE DEF Comparison
<1> QED
  BY <1>1, <1>2

(* Metrics none of which is worse, and more of them, score no less.        *)
LEMMA SumNoLess ==
    ASSUME NEW specs, NEW threshold, Fits(specs, threshold), NEW e, WellMeasured(specs, e),
           NEW new, WellMeasured(specs, new),
           \A k \in DOMAIN specs \cap DOMAIN e :
                k \in DOMAIN new /\ AsGood(specs[k], new[k], e[k])
    PROVE  WeightedSum(specs, e) <= WeightedSum(specs, new)
<1> DEFINE S == DOMAIN specs \cap DOMAIN e
           U == DOMAIN specs \cap DOMAIN new
           f == Scores(specs, e)
           h == Scores(specs, new)
<1>1. S \subseteq U
  OBVIOUS
<1>2. IsFiniteSet(U) /\ Numeric(h, U) /\ WeightedSum(specs, new) = SumFunctionOnSet(h, U)
  BY ScoresType
<1>3. Numeric(f, S) /\ WeightedSum(specs, e) = SumFunctionOnSet(f, S)
  BY ScoresType
<1>4. \A x \in U : h[x] \in Nat
  <2> SUFFICES ASSUME NEW x \in U PROVE h[x] \in Nat
    OBVIOUS
  <2>1. 0 <= h[x]
    BY ScoresType
  <2> QED
    BY <1>2, <2>1 DEF Numeric
<1>5. \A x \in S : f[x] <= h[x]
  <2> SUFFICES ASSUME NEW x \in S PROVE f[x] <= h[x]
    OBVIOUS
  <2> DEFINE v == ScoreMetric(specs[x], e[x])
             w == ScoreMetric(specs[x], new[x])
             m == specs[x].weight
  <2>1. f[x] = v * m /\ v \in 0..Full /\ m \in Nat
    BY ScoresType
  <2>2. x \in U /\ AsGood(specs[x], new[x], e[x])
    BY <1>1
  <2>3. h[x] = w * m /\ w \in 0..Full
    BY <2>2, ScoresType
  <2>4. WellSpec(specs[x]) /\ e[x] \in Values /\ new[x] \in Values
    BY <2>2 DEF Fits, WellMeasured
  <2>5. v <= w
    BY <2>2, <2>4, ScoreMonotone
  <2> HIDE DEF v, w, m
  <2>6. Full \in Nat
    BY DEF Full
  <2>7. v * m <= w * m
    BY <2>1, <2>3, <2>5, <2>6, Times
  <2> QED
    BY <2>1, <2>3, <2>7
<1> HIDE DEF S, U, f, h
<1>6. SumFunctionOnSet(f, S) <= SumFunctionOnSet(h, U)
  BY <1>1, <1>2, <1>3, <1>4, <1>5, SumGrows
<1> QED
  BY <1>2, <1>3, <1>6

LEMMA ScoreNoLess ==
    ASSUME NEW uc \in DOMAIN UC_METRICS, NEW e, WellMeasured(UC_METRICS[uc], e),
           NEW new, WellMeasured(UC_METRICS[uc], new), compute_score(uc, e),
           \A k \in DOMAIN UC_METRICS[uc] \cap DOMAIN e :
                k \in DOMAIN new /\ AsGood(UC_METRICS[uc][k], new[k], e[k])
    PROVE  compute_score(uc, new)
<1> DEFINE specs == UC_METRICS[uc]
           threshold == THRESHOLDS[uc]
           bar == threshold * 1000 * Weight(specs, DOMAIN specs)
           old == WeightedSum(specs, e)
           now == WeightedSum(specs, new)
<1>1. Fits(specs, threshold)
  BY UseCasesFit
<1>2. old <= now
  <2> HIDE DEF specs, threshold
  <2> QED
    BY <1>1, SumNoLess DEF specs
<1>3. old \in Int
  BY <1>1, ScoresType
<1>4. now \in Int
  BY <1>1, ScoresType
<1>5. bar \in Int
  <2>1. Weight(specs, DOMAIN specs) \in Int /\ threshold \in Int
    BY <1>1 DEF Fits, Total
  <2> HIDE DEF specs, threshold
  <2> QED
    BY <2>1, Z3
<1>6. old >= bar /\ (compute_score(uc, new) <=> now >= bar)
  BY DEF compute_score
<1> HIDE DEF old, now, bar
<1> QED
  BY <1>2, <1>3, <1>4, <1>5, <1>6

LEMMA BetterKeeps ==
    GInv /\ GInv' /\ [GatesNext]_gatesVars =>
        (gate' = gate /\ Approved(gate, basis) /\ NothingWorse(basis, basis')
            => Approved(gate, basis'))
<1> SUFFICES ASSUME GInv, GInv', [GatesNext]_gatesVars, gate' = gate, Approved(gate, basis),
                    NothingWorse(basis, basis')
             PROVE  Approved(gate, basis')
  OBVIOUS
<1> USE GatesAssumption DEF GatesAssumption
<1>1. CASE UNCHANGED gatesVars
  BY <1>1 DEF gatesVars
<1>2. CASE gate = "decisions" /\ GatesNext
  <2>1. gate \notin DOMAIN UC_METRICS
    BY <1>2, GateNames
  <2>2. CASE Settled
    BY <1>1, <2>2 DEF Settled
  <2>3. CASE \E p, a \in BOOLEAN : Decide(p, a)
    <3>1. PICK p \in BOOLEAN, a \in BOOLEAN : Decide(p, a)
      BY <2>3
    <3>2. /\ basis \in Confusion /\ DecisionsPromoted(basis)
          /\ basis' = AddDecision(basis, p, a)
          /\ basis'.tp > basis.tp \/ basis'.tn > basis.tn
      BY <1>2, <3>1 DEF GInv, Approved, NothingWorse, Decide
    <3>3. p = a
      BY <3>2, CellsAfter
    <3>4. DecisionsPromoted(AddDecision(basis, p, p))
      BY <3>2, RightDecisionKeepsApproval
    <3> QED
      BY <1>2, <3>2, <3>3, <3>4 DEF Approved
  <2> QED
    BY <1>2, <2>1, <2>2, <2>3 DEF GatesNext, Realise, Arrive, Forecast
<1>3. CASE gate = "forecasts" /\ GatesNext
  <2>1. gate \notin DOMAIN UC_METRICS
    BY <1>3, GateNames
  <2>2. CASE Settled
    BY <1>1, <2>2 DEF Settled
  <2>3. CASE \E p, a \in Loads : Realise(p, a)
    <3>1. PICK p \in Loads, a \in Loads : Realise(p, a)
      BY <2>3
    <3>2. /\ basis \in Comparison /\ ForecastsPromoted(basis)
          /\ basis' = AddForecast(basis, p, a)
          /\ basis'.within > basis.within /\ basis.actuals > 0
      BY <1>3, <3>1 DEF GInv, Approved, NothingWorse, Realise
    <3>3. WithinTolerance(p, a)
      BY <3>2, WithinAfter
    <3>4. p \in Int /\ a \in Int
      OBVIOUS
    <3>5. ForecastsPromoted(AddForecast(basis, p, a))
      BY <3>2, <3>3, <3>4, GoodForecastKeepsApproval
    <3> QED
      BY <1>3, <3>2, <3>5 DEF Approved
  <2> QED
    BY <1>3, <2>1, <2>2, <2>3 DEF GatesNext, Decide, Arrive, Forecast
<1>4. CASE gate \in Services \cup DOMAIN UC_METRICS
  <2> DEFINE uc == UseCase(gate)
  <2>1. uc \in DOMAIN UC_METRICS /\ gate \notin {"decisions", "forecasts"}
    BY <1>4, GateNames DEF Services
  <2>2. WellMeasured(UC_METRICS[uc], basis) /\ WellMeasured(UC_METRICS[uc], basis')
    BY <1>4 DEF GInv
  <2>3. \A k \in DOMAIN UC_METRICS[uc] \cap DOMAIN basis :
            k \in DOMAIN basis' /\ AsGood(UC_METRICS[uc][k], basis'[k], basis[k])
    BY <2>1 DEF NothingWorse
  <2>4. compute_score(uc, basis)
    BY <2>1 DEF Approved
  <2> HIDE DEF uc
  <2>5. compute_score(uc, basis')
    BY <2>1, <2>2, <2>3, <2>4, ScoreNoLess
  <2> QED
    BY <2>1, <2>5 DEF Approved, uc
<1> QED
  BY <1>1, <1>2, <1>3, <1>4 DEF GInv

(* No gate takes an approval away for evidence that speaks for the model:  *)
(* the rates of the two shadow evaluators, and the weighted means of all   *)
(* 23 use cases, whatever their services have seen.                        *)
THEOREM BetterEvidenceApproves == GatesSpec => BetterEvidenceKeepsApproval
<1>1. GInv /\ GInv' /\ [GatesNext]_gatesVars =>
        [gate' = gate /\ Approved(gate, basis) /\ NothingWorse(basis, basis')
            => Approved(gate, basis')]_gatesVars
  BY BetterKeeps
<1> QED
  BY AlwaysGInv, <1>1, PTL DEF GatesSpec, BetterEvidenceKeepsApproval

-----------------------------------------------------------------------------
(* A later alert.                                                          *)

Dated(alerts) == IsFiniteSet(alerts) /\ \A a \in alerts : a.time \in Int \cup {NoTime, BadTime}

LEMMA EarliestIs ==
    ASSUME NEW alerts, Dated(alerts), Timed(alerts) # {}
    PROVE  LET times == {b.time : b \in Timed(alerts)}
           IN  Min(times) \in times /\ Min(times) \in Int /\ \A t \in times : Min(times) <= t
<1> DEFINE times == {b.time : b \in Timed(alerts)}
<1>1. times # {} /\ times \subseteq Int
  BY DEF Dated, Timed
<1>2. IsFiniteSet(Timed(alerts))
  BY FS_Subset DEF Timed, Dated
<1>3. IsFiniteSet(times)
  <2> DEFINE G == {s \in SUBSET Timed(alerts) : IsFiniteSet({b.time : b \in s})}
  <2>1. {} \in G
    <3>1. {b.time : b \in {}} = {}
      OBVIOUS
    <3> QED
      BY <3>1, FS_EmptySet
  <2>2. ASSUME NEW s \in SUBSET Timed(alerts), s # {}, s \ {Pick(s)} \in G PROVE s \in G
    <3>1. Pick(s) \in s
      BY <2>2, Picked
    <3>2. {b.time : b \in s} = {b.time : b \in s \ {Pick(s)}} \cup {Pick(s).time}
      BY <3>1
    <3>3. IsFiniteSet({b.time : b \in s \ {Pick(s)}})
      BY <2>2
    <3>4. IsFiniteSet({b.time : b \in s \ {Pick(s)}} \cup {Pick(s).time})
      BY <3>3, FS_AddElement
    <3> QED
      BY <3>2, <3>4
  <2>3. SUBSET Timed(alerts) \subseteq G
    <3> HIDE DEF G
    <3> QED
      BY <1>2, <2>1, <2>2, SubsetInd
  <2> QED
    BY <2>3
<1> HIDE DEF times
<1>4. Min(times) \in times /\ \A t \in times : Min(times) <= t
  BY <1>1, <1>3, MinIs
<1>5. Min(times) \in Int
  BY <1>1, <1>4
<1> QED
  BY <1>4, <1>5 DEF times

LEMMA SecondsInt ==
    ASSUME NEW alerts, Dated(alerts), NEW a \in alerts
    PROVE  Seconds(alerts, a) \in Int
<1>1. CASE a \in Timed(alerts)
  <2> DEFINE m == Min({b.time : b \in Timed(alerts)})
  <2>1. m \in Int
    BY <1>1, EarliestIs
  <2>2. a.time \in Int
    BY <1>1 DEF Timed, Dated
  <2>3. Seconds(alerts, a) = a.time - m
    BY <1>1 DEF Seconds
  <2> HIDE DEF m
  <2> QED
    BY <2>1, <2>2, <2>3
<1>2. CASE a \notin Timed(alerts)
  BY <1>2 DEF Seconds
<1> QED
  BY <1>1, <1>2

(* An alert is its own neighbour.                                          *)
LEMMA NearItself ==
    ASSUME NEW alerts, Dated(alerts), NEW a \in alerts
    PROVE  Near(alerts, a, a)
<1>1. Seconds(alerts, a) - Seconds(alerts, a) = 0
  BY SecondsInt
<1>2. Distance(alerts, a, a) = 0
  BY <1>1 DEF Distance, Apart
<1>3. EPS = 180
  BY DEF EPS, TIME_SCALE_SECONDS
<1> QED
  BY <1>2, <1>3 DEF Near

(* A batch to which no earlier alert has been added.                       *)
Later(alerts, more) ==
    /\ Dated(alerts) /\ Dated(more) /\ alerts \subseteq more
    /\ \A a \in Timed(more \ alerts) : \A b \in Timed(alerts) : a.time >= b.time

(* Its alerts stay where they were in time, and as near to each other.     *)
LEMMA NearStays ==
    ASSUME NEW alerts, NEW more, Later(alerts, more), NEW a \in alerts, NEW b \in alerts
    PROVE  Near(more, a, b) <=> Near(alerts, a, b)
<1>1. ASSUME NEW c \in alerts PROVE Seconds(more, c) = Seconds(alerts, c)
  <2>1. c \in Timed(more) <=> c \in Timed(alerts)
    BY DEF Timed, Later
  <2>2. CASE c \in Timed(alerts)
    <3> DEFINE old == {x.time : x \in Timed(alerts)}
               new == {x.time : x \in Timed(more)}
    <3>1. Timed(alerts) # {} /\ Timed(more) # {}
      BY <2>1, <2>2
    <3>2. Min(old) \in old /\ Min(old) \in Int /\ \A t \in old : Min(old) <= t
      BY <3>1, EarliestIs DEF Later
    <3>3. Min(new) \in new /\ Min(new) \in Int /\ \A t \in new : Min(new) <= t
      BY <3>1, EarliestIs DEF Later
    <3>4. old \subseteq new
      BY DEF Timed, Later
    <3>5. \A t \in new : Min(old) <= t
      <4> SUFFICES ASSUME NEW x \in Timed(more) PROVE Min(old) <= x.time
        OBVIOUS
      <4>1. CASE x \in alerts
        <5>1. x.time \in old
          BY <4>1 DEF Timed
        <5> QED
          BY <3>2, <5>1
      <4>2. CASE x \notin alerts
        <5>1. x \in Timed(more \ alerts) /\ x.time \in Int
          BY <4>2 DEF Timed, Later, Dated
        <5>2. PICK y \in Timed(alerts) : Min(old) = y.time
          BY <3>2
        <5>3. x.time >= y.time
          BY <5>1 DEF Later
        <5> HIDE DEF old, new
        <5> QED
          BY <3>2, <5>1, <5>2, <5>3
      <4> QED
        BY <4>1, <4>2
    <3>6. Min(old) = Min(new)
      <4> HIDE DEF old, new
      <4> QED
        BY <3>2, <3>3, <3>4, <3>5
    <3>7. Seconds(alerts, c) = c.time - Min(old) /\ Seconds(more, c) = c.time - Min(new)
      BY <2>1, <2>2 DEF Seconds
    <3> QED
      BY <3>6, <3>7
  <2>3. CASE c \notin Timed(alerts)
    BY <2>1, <2>3 DEF Seconds
  <2> QED
    BY <2>2, <2>3
<1>2. Seconds(more, a) = Seconds(alerts, a) /\ Seconds(more, b) = Seconds(alerts, b)
  BY <1>1
<1>3. Distance(more, a, b) = Distance(alerts, a, b)
  BY <1>2 DEF Distance
<1> QED
  BY <1>3 DEF Near

LEMMA NearbyGrows ==
    ASSUME NEW alerts, Dated(alerts), NEW s \in SUBSET alerts
    PROVE  s \subseteq Nearby(alerts, s) /\ Nearby(alerts, s) \subseteq alerts
BY NearItself DEF Nearby

(* Longer chains reach no less, and those as long as there are alerts      *)
(* reach all that any chain does.                                          *)
LEMMA Chains ==
    ASSUME NEW alerts, Dated(alerts), NEW a \in alerts, NEW m, m = Cardinality(alerts),
           NEW r \in [0..m -> SUBSET alerts], Reaches(alerts, a, r)
    PROVE  /\ m \in Nat /\ r[0] = {a}
           /\ \A n \in Nat : n + 1 <= m => r[n + 1] = Nearby(alerts, r[n])
           /\ \A n \in 0..m : a \in r[n] /\ r[n] \subseteq r[m]
           /\ Nearby(alerts, r[m]) = r[m]
<1>1. m \in Nat /\ IsFiniteSet(alerts)
  BY FS_CardinalityType DEF Dated
<1>2. r[0] = {a}
  BY <1>1 DEF Reaches
<1>3. \A n \in Nat : n + 1 <= m => r[n + 1] = Nearby(alerts, r[n])
  <2> SUFFICES ASSUME NEW n \in Nat, n + 1 <= m PROVE r[n + 1] = Nearby(alerts, r[n])
    OBVIOUS
  <2>1. n + 1 \in 0..m /\ n + 1 # 0 /\ (n + 1) - 1 = n
    BY <1>1
  <2> QED
    BY <2>1 DEF Reaches
<1>4. \A n \in Nat : n + 1 <= m => r[n] \subseteq r[n + 1]
  <2> SUFFICES ASSUME NEW n \in Nat, n + 1 <= m PROVE r[n] \subseteq r[n + 1]
    OBVIOUS
  <2>1. r[n] \in SUBSET alerts
    BY <1>1
  <2> QED
    BY <1>3, <2>1, NearbyGrows
<1>5. \A n \in 0..m : a \in r[n]
  <2> DEFINE G == {n \in Nat : n <= m => a \in r[n]}
  <2>1. 0 \in G
    BY <1>2
  <2>2. ASSUME NEW n \in Nat, n \in G PROVE n + 1 \in G
    BY <1>1, <1>4, <2>2
  <2>3. Nat \subseteq G
    <3> HIDE DEF G
    <3> QED
      BY <2>1, <2>2, NatInd
  <2> QED
    BY <1>1, <2>3
<1>6. \A n \in 0..m : r[n] \subseteq r[m]
  <2> DEFINE G == {d \in Nat : d <= m => r[m - d] \subseteq r[m]}
  <2>1. 0 \in G
    BY <1>1
  <2>2. ASSUME NEW d \in Nat, d \in G PROVE d + 1 \in G
    <3> SUFFICES ASSUME d + 1 <= m PROVE r[m - (d + 1)] \subseteq r[m]
      OBVIOUS
    <3>1. m - (d + 1) \in Nat /\ (m - (d + 1)) + 1 = m - d /\ m - d <= m
      BY <1>1
    <3>2. r[m - (d + 1)] \subseteq r[m - d]
      BY <1>4, <3>1
    <3>3. r[m - d] \subseteq r[m]
      BY <1>1, <2>2
    <3> QED
      BY <3>2, <3>3
  <2>3. Nat \subseteq G
    <3> HIDE DEF G
    <3> QED
      BY <2>1, <2>2, NatInd
  <2> SUFFICES ASSUME NEW n \in 0..m PROVE r[n] \subseteq r[m]
    OBVIOUS
  <2>4. m - n \in Nat /\ m - n <= m /\ m - (m - n) = n
    BY <1>1
  <2>5. m - n \in G
    BY <2>3, <2>4
  <2> QED
    BY <2>4, <2>5
<1>7. Nearby(alerts, r[m]) = r[m]
  <2> DEFINE Still(n) == Nearby(alerts, r[n]) = r[n]
             G == {n \in Nat : n <= m => Still(n) \/ Cardinality(r[n]) >= n + 1}
  <2>0. \A n \in 0..m : /\ r[n] \in SUBSET alerts /\ IsFiniteSet(r[n]) /\ Cardinality(r[n]) \in Nat
                        /\ Cardinality(r[n]) <= m
    <3> SUFFICES ASSUME NEW n \in 0..m
                 PROVE  /\ r[n] \in SUBSET alerts /\ IsFiniteSet(r[n])
                        /\ Cardinality(r[n]) \in Nat /\ Cardinality(r[n]) <= m
      OBVIOUS
    <3>1. r[n] \in SUBSET alerts
      OBVIOUS
    <3>2. IsFiniteSet(r[n])
      BY <1>1, <3>1, FS_Subset
    <3>3. Cardinality(r[n]) <= m
      BY <1>1, <3>1, FS_Subset
    <3> QED
      BY <3>1, <3>2, <3>3, FS_CardinalityType
  <2>1. 0 \in G
    <3>1. Cardinality(r[0]) = 1
      BY <1>2, FS_Singleton
    <3> QED
      BY <3>1
  <2>2. ASSUME NEW n \in Nat, n \in G PROVE n + 1 \in G
    <3> SUFFICES ASSUME n + 1 <= m PROVE Still(n + 1) \/ Cardinality(r[n + 1]) >= (n + 1) + 1
      OBVIOUS
    <3>1. /\ n \in 0..m /\ n + 1 \in 0..m /\ r[n + 1] = Nearby(alerts, r[n])
          /\ r[n] \subseteq r[n + 1]
      BY <1>1, <1>3, <1>4
    <3>2. CASE Still(n)
      BY <3>1, <3>2
    <3>3. CASE ~Still(n)
      <4>1. Cardinality(r[n]) >= n + 1
        BY <1>1, <2>2, <3>1, <3>3
      <4>2. r[n] # r[n + 1] /\ IsFiniteSet(r[n + 1]) /\ IsFiniteSet(r[n])
        BY <2>0, <3>1, <3>3
      <4>3. Cardinality(r[n]) # Cardinality(r[n + 1]) /\ Cardinality(r[n]) <= Cardinality(r[n + 1])
        BY ONLY <3>1, <4>2, FS_Subset
      <4>4. Cardinality(r[n]) \in Nat /\ Cardinality(r[n + 1]) \in Nat
        BY <2>0, <3>1
      <4> QED
        BY <4>1, <4>3, <4>4
    <3> QED
      BY <3>2, <3>3
  <2>3. Nat \subseteq G
    <3> HIDE DEF G
    <3> QED
      BY <2>1, <2>2, NatInd
  <2>4. Still(m) \/ Cardinality(r[m]) >= m + 1
    BY <1>1, <2>3
  <2>5. Cardinality(r[m]) <= m /\ Cardinality(r[m]) \in Nat
    BY <1>1, <2>0
  <2> QED
    BY <1>1, <2>4, <2>5
<1> QED
  BY <1>1, <1>2, <1>3, <1>5, <1>6, <1>7

LEMMA ComponentGrows ==
    ASSUME NEW alerts, NEW more, Later(alerts, more), NEW a \in alerts
    PROVE  /\ Component(alerts, a) \subseteq Component(more, a)
           /\ a \in Component(more, a) /\ Component(more, a) \subseteq more
<1> DEFINE m == Cardinality(alerts)
           k == Cardinality(more)
<1>1. /\ Dated(alerts) /\ Dated(more) /\ a \in more
      /\ IsFiniteSet(alerts) /\ IsFiniteSet(more) /\ m <= k
  <2>1. Dated(alerts) /\ Dated(more) /\ a \in more /\ IsFiniteSet(alerts) /\ IsFiniteSet(more)
    BY DEF Later, Dated
  <2>2. m <= k
    BY <2>1, FS_Subset DEF Later
  <2> QED
    BY <2>1, <2>2
<1>2. PICK r \in [0..m -> SUBSET alerts] : Reaches(alerts, a, r) /\ Component(alerts, a) = r[m]
  BY <1>1, ComponentIs
<1>3. PICK q \in [0..k -> SUBSET more] : Reaches(more, a, q) /\ Component(more, a) = q[k]
  BY <1>1, ComponentIs
<1> HIDE DEF m, k
<1>4. /\ m \in Nat /\ r[0] = {a}
      /\ \A n \in Nat : n + 1 <= m => r[n + 1] = Nearby(alerts, r[n])
  BY <1>1, <1>2, Chains DEF m
<1>5. /\ k \in Nat /\ q[0] = {a}
      /\ \A n \in Nat : n + 1 <= k => q[n + 1] = Nearby(more, q[n])
      /\ \A n \in 0..k : a \in q[n] /\ q[n] \subseteq q[k]
  BY <1>1, <1>3, Chains DEF k
<1> DEFINE G == {n \in Nat : n <= m => r[n] \subseteq q[n]}
<1>6. 0 \in G
  BY <1>4, <1>5
<1>7. ASSUME NEW n \in Nat, n \in G PROVE n + 1 \in G
  <2> SUFFICES ASSUME n + 1 <= m PROVE r[n + 1] \subseteq q[n + 1]
    OBVIOUS
  <2>1. r[n] \subseteq q[n] /\ n \in 0..m /\ n + 1 <= k
    BY <1>1, <1>4, <1>5, <1>7
  <2>2. r[n] \subseteq alerts
    BY <2>1
  <2>3. Nearby(alerts, r[n]) \subseteq Nearby(more, q[n])
    BY <2>1, <2>2, NearStays DEF Nearby, Later
  <2> QED
    BY <1>4, <1>5, <2>1, <2>3
<1>8. Nat \subseteq G
  <2> HIDE DEF G
  <2> QED
    BY <1>6, <1>7, NatInd
<1>9. r[m] \subseteq q[m] /\ q[m] \subseteq q[k]
  BY <1>1, <1>4, <1>5, <1>8
<1>10. a \in q[k] /\ q[k] \subseteq more
  BY <1>5
<1> QED
  BY <1>2, <1>3, <1>9, <1>10

LEMMA ComponentSame ==
    ASSUME NEW alerts, NEW more, Later(alerts, more), NEW a \in alerts,
           Component(more, a) \subseteq alerts
    PROVE  Component(alerts, a) = Component(more, a)
<1> DEFINE m == Cardinality(alerts)
           k == Cardinality(more)
<1>1. /\ Dated(alerts) /\ Dated(more) /\ a \in more
      /\ IsFiniteSet(alerts) /\ IsFiniteSet(more) /\ m <= k
  <2>1. Dated(alerts) /\ Dated(more) /\ a \in more /\ IsFiniteSet(alerts) /\ IsFiniteSet(more)
    BY DEF Later, Dated
  <2>2. m <= k
    BY <2>1, FS_Subset DEF Later
  <2> QED
    BY <2>1, <2>2
<1>2. PICK r \in [0..m -> SUBSET alerts] : Reaches(alerts, a, r) /\ Component(alerts, a) = r[m]
  BY <1>1, ComponentIs
<1>3. PICK q \in [0..k -> SUBSET more] : Reaches(more, a, q) /\ Component(more, a) = q[k]
  BY <1>1, ComponentIs
<1> HIDE DEF m, k
<1>4. /\ m \in Nat /\ r[0] = {a} /\ Nearby(alerts, r[m]) = r[m]
      /\ \A n \in Nat : n + 1 <= m => r[n + 1] = Nearby(alerts, r[n])
  BY <1>1, <1>2, Chains DEF m
<1>5. /\ k \in Nat /\ q[0] = {a}
      /\ \A n \in Nat : n + 1 <= k => q[n + 1] = Nearby(more, q[n])
      /\ \A n \in 0..k : q[n] \subseteq q[k]
  BY <1>1, <1>3, Chains DEF k
<1>6. \A n \in 0..k : q[n] \subseteq alerts
  BY <1>3, <1>5
<1>7. ASSUME NEW n \in Nat, n + 1 <= k PROVE q[n + 1] = Nearby(alerts, q[n])
  <2>1. n \in 0..k /\ n + 1 \in 0..k
    BY <1>5, <1>7
  <2>2. q[n + 1] = Nearby(more, q[n]) /\ q[n] \subseteq alerts /\ q[n + 1] \subseteq alerts
    BY <1>5, <1>6, <1>7, <2>1
  <2>3. \A c \in alerts : c \in Nearby(more, q[n]) <=> c \in Nearby(alerts, q[n])
    BY <2>2, NearStays DEF Nearby, Later
  <2>4. Nearby(alerts, q[n]) \subseteq alerts
    BY DEF Nearby
  <2> QED
    BY <2>2, <2>3, <2>4
<1> DEFINE G == {n \in Nat : n <= k => q[n] = IF n <= m THEN r[n] ELSE r[m]}
<1>8. 0 \in G
  <2>1. 0 <= m /\ q[0] = r[0]
    BY <1>4, <1>5
  <2> QED
    BY <2>1
<1>9. ASSUME NEW n \in Nat, n \in G PROVE n + 1 \in G
  <2> SUFFICES ASSUME n + 1 <= k PROVE q[n + 1] = IF n + 1 <= m THEN r[n + 1] ELSE r[m]
    OBVIOUS
  <2>1. q[n + 1] = Nearby(alerts, q[n]) /\ q[n] = IF n <= m THEN r[n] ELSE r[m]
    BY <1>5, <1>7, <1>9
  <2>2. CASE n + 1 <= m
    BY <1>4, <2>1, <2>2
  <2>3. CASE ~(n + 1 <= m)
    <3>1. n <= m => n = m
      BY <1>4, <2>3
    <3>2. q[n] = r[m]
      BY <2>1, <3>1
    <3> QED
      BY <1>4, <2>1, <2>3, <3>2
  <2> QED
    BY <2>2, <2>3
<1>10. Nat \subseteq G
  <2> HIDE DEF G
  <2> QED
    BY <1>8, <1>9, NatInd
<1>11. q[k] = r[m]
  <2>1. q[k] = IF k <= m THEN r[k] ELSE r[m]
    BY <1>5, <1>10
  <2>2. k <= m => k = m
    BY <1>1, <1>4, <1>5
  <2> QED
    BY <2>1, <2>2
<1> QED
  BY <1>2, <1>3, <1>11

(* Later alerts join groups and form new ones, and do nothing else.        *)
LEMMA OnlyJoins ==
    ASSUME NEW alerts, NEW more, Later(alerts, more)
    PROVE  /\ \A g \in Clusters(alerts) : \E h \in Clusters(more) : g \subseteq h
           /\ Cardinality(alerts) >= FewestAlerts =>
                \A h \in Clusters(more) : h \cap (more \ alerts) = {} => h \in Clusters(alerts)
<1>1. /\ Dated(alerts) /\ Dated(more) /\ alerts \subseteq more
      /\ IsFiniteSet(alerts) /\ IsFiniteSet(more)
  BY DEF Later, Dated
<1>2. /\ Cardinality(alerts) \in Nat /\ Cardinality(more) \in Nat
      /\ Cardinality(alerts) <= Cardinality(more)
  BY <1>1, FS_CardinalityType, FS_Subset
<1>3. ASSUME NEW g \in Clusters(alerts) PROVE \E h \in Clusters(more) : g \subseteq h
  <2>1. ~(Cardinality(alerts) < FewestAlerts) /\ Cardinality(g) > 1
    BY <1>3 DEF Clusters
  <2>2. PICK a \in alerts : g = Component(alerts, a)
    BY <1>3 DEF Clusters
  <2> DEFINE h == Component(more, a)
  <2>3. g \subseteq h /\ h \subseteq more
    BY <2>2, ComponentGrows
  <2>4. IsFiniteSet(h) /\ Cardinality(g) <= Cardinality(h)
        /\ Cardinality(g) \in Nat /\ Cardinality(h) \in Nat
    <3>1. IsFiniteSet(h)
      BY <1>1, <2>3, FS_Subset
    <3> HIDE DEF h
    <3>2. IsFiniteSet(g) /\ Cardinality(g) <= Cardinality(h)
      BY <2>3, <3>1, FS_Subset
    <3> QED
      BY <3>1, <3>2, FS_CardinalityType
  <2>5. a \in more
    BY <1>1
  <2>6. h \in Clusters(more)
    <3>1. Cardinality(h) > 1
      BY <2>1, <2>4
    <3>2. ~(Cardinality(more) < FewestAlerts)
      BY <1>2, <2>1 DEF FewestAlerts
    <3>3. h \in {Component(more, b) : b \in more}
      BY <2>5
    <3> HIDE DEF h
    <3> QED
      BY <3>1, <3>2, <3>3 DEF Clusters
  <2> QED
    BY <2>3, <2>6
<1>4. ASSUME Cardinality(alerts) >= FewestAlerts, NEW h \in Clusters(more),
             h \cap (more \ alerts) = {}
      PROVE  h \in Clusters(alerts)
  <2>1. PICK a \in more : h = Component(more, a) /\ Cardinality(h) > 1
    BY <1>4 DEF Clusters
  <2>2. Later(more, more)
    <3>1. more \ more = {}
      OBVIOUS
    <3> QED
      BY <1>1, <3>1 DEF Later, Timed
  <2>3. a \in h /\ h \subseteq more
    BY <2>1, <2>2, ComponentGrows
  <2>4. a \in alerts /\ h \subseteq alerts
    BY <1>4, <2>3
  <2>5. h = Component(alerts, a)
    BY <2>1, <2>4, ComponentSame
  <2>6. ~(Cardinality(alerts) < FewestAlerts)
    BY <1>2, <1>4 DEF FewestAlerts
  <2>7. h \in {Component(alerts, b) : b \in alerts}
    BY <2>4, <2>5
  <2> QED
    BY <2>1, <2>6, <2>7 DEF Clusters
<1> QED
  BY <1>3, <1>4

LEMMA ArrivalJoins ==
    GInv /\ GInv' /\ [GatesNext]_gatesVars =>
        (gate = "alert-correlator" /\ Arrived # {} /\ NotEarliest
          => /\ \A g \in Clusters(source) : \E h \in Clusters(source') : g \subseteq h
             /\ Cardinality(source) >= FewestAlerts
                => \A h \in Clusters(source') : h \cap Arrived = {} => h \in Clusters(source))
<1> SUFFICES ASSUME GInv, GInv', [GatesNext]_gatesVars, gate = "alert-correlator",
                    Arrived # {}, NotEarliest
             PROVE  /\ \A g \in Clusters(source) : \E h \in Clusters(source') : g \subseteq h
                    /\ Cardinality(source) >= FewestAlerts
                       => \A h \in Clusters(source') :
                            h \cap Arrived = {} => h \in Clusters(source)
  OBVIOUS
<1>1. source' # source
  BY DEF Arrived
<1>2. gate \notin DOMAIN UC_METRICS
  BY GateNames
<1>3. PICK alert \in Alerts : Arrive(alert)
  BY <1>1, <1>2 DEF GatesNext, gatesVars, Decide, Realise, Forecast, Settled
<1>4. gate' = gate /\ source \subseteq source'
  BY <1>3 DEF Arrive
<1>5. Dated(source) /\ Dated(source')
  BY <1>4, GatesAssumption DEF GatesAssumption, GInv, Dated
<1>6. Later(source, source')
  BY <1>4, <1>5 DEF Later, NotEarliest, Arrived
<1> HIDE DEF Arrived
<1>7. \A g \in Clusters(source) : \E h \in Clusters(source') : g \subseteq h
  BY <1>6, OnlyJoins
<1>8. Cardinality(source) >= FewestAlerts =>
        \A h \in Clusters(source') :
            h \cap (source' \ source) = {} => h \in Clusters(source)
  BY <1>6, OnlyJoins
<1> QED
  BY <1>7, <1>8 DEF Arrived

(* What was found to be one incident stays one: whatever the alerts of a   *)
(* batch are, a later one joins groups and forms new ones but splits none, *)
(* and leaves those it does not join as they were.                         *)
THEOREM LaterAlertsJoin == GatesSpec => LaterAlertsOnlyJoin
<1>1. GInv /\ GInv' /\ [GatesNext]_gatesVars =>
        [gate = "alert-correlator" /\ Arrived # {} /\ NotEarliest
          => /\ \A g \in Clusters(source) : \E h \in Clusters(source') : g \subseteq h
             /\ Cardinality(source) >= FewestAlerts
                => \A h \in Clusters(source') : h \cap Arrived = {} => h \in Clusters(source)]_gatesVars
  BY ArrivalJoins
<1> QED
  BY AlwaysGInv, <1>1, PTL DEF GatesSpec, LaterAlertsOnlyJoin
=============================================================================
