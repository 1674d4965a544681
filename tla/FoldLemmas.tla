-------------------------------- MODULE FoldLemmas ----------------------------------
(***************************************************************************)
(* What a fold computes, whatever the order its members are taken in.  The *)
(* folds of the community modules are recursive by a CHOOSE; IsFold states *)
(* their recursion, and the lemmas say that it has a solution and what     *)
(* every solution is like.                                                 *)
(***************************************************************************)
EXTENDS Integers, FiniteSets, FiniteSetsExt, FiniteSetTheorems, WellFoundedInduction, TLAPS

\* A set of numbers that is not empty has a least one.
LEMMA LeastNat == ASSUME NEW T \in SUBSET Nat, T # {}
                  PROVE  \E n \in T : \A m \in T : n <= m
<1> DEFINE Less == {p \in Nat \X Nat : p[1] < p[2]}
<1>1. IsWellFoundedOn(Less, Nat)
  BY NatLessThanWellFounded DEF OpToRel
<1>. HIDE DEF Less
<1>2. \E n \in T : \A m \in T : <<m, n>> \notin Less
  BY <1>1, WFMin
<1>3. PICK n \in T : \A m \in T : <<m, n>> \notin Less
  BY <1>2
<1>4. \A m \in T : ~ m < n
  BY <1>3 DEF Less
<1>. QED
  BY <1>4

\* Induction on numbers, the predicate as a set.
LEMMA NatSets == ASSUME NEW T \in SUBSET Nat, 0 \in T, \A n \in T : n + 1 \in T
                 PROVE  T = Nat
<1>. SUFFICES ASSUME Nat \ T # {} PROVE FALSE
  OBVIOUS
<1>1. PICK n \in Nat \ T : \A m \in Nat \ T : n <= m
  BY LeastNat
<1>2. n # 0 /\ n - 1 \in Nat
  BY <1>1
<1>3. n - 1 \in T
  BY <1>1, <1>2
<1>. QED
  BY <1>1, <1>3

\* g folds every set of D: the members of s are taken off one by one, as pick says,
\* and each is folded in by its turn.
IsFold(g, D, A, pick, turn, base) ==
    \A s \in D : IF s = {} THEN g[s] = base
                 ELSE g[s \ {pick[s]}] \in A => g[s] = turn[pick[s]][g[s \ {pick[s]}]]

\* pick takes a member of each subset of S that has one.
Picks(pick, S) == \A s \in SUBSET S : s # {} => pick[s] \in s

\* The recursion of a fold has a solution.
LEMMA FoldExists ==
    ASSUME NEW S, IsFiniteSet(S), NEW A, NEW base \in A, NEW pick, NEW turn \in [S -> [A -> A]],
           Picks(pick, S)
    PROVE  \E g \in [SUBSET S -> A] : IsFold(g, SUBSET S, A, pick, turn, base)
<1> DEFINE Small(n) == {s \in SUBSET S : Cardinality(s) <= n}
           T == {n \in Nat : \E g \in [Small(n) -> A] : IsFold(g, Small(n), A, pick, turn, base)}
<1>0. \A s \in SUBSET S : IsFiniteSet(s) /\ Cardinality(s) \in Nat
  BY FS_Subset, FS_CardinalityType
<1>c. \A s \in SUBSET S : s # {} =>
         /\ pick[s] \in s /\ pick[s] \in S
         /\ s \ {pick[s]} \in SUBSET S
         /\ Cardinality(s \ {pick[s]}) = Cardinality(s) - 1
  <2>. SUFFICES ASSUME NEW s \in SUBSET S, s # {}
                PROVE  /\ pick[s] \in s
                       /\ Cardinality(s \ {pick[s]}) = Cardinality(s) - 1
    OBVIOUS
  <2>. QED
    BY <1>0, FS_RemoveElement DEF Picks
<1>1. 0 \in T
  <2>1. \A s \in Small(0) : s = {}
    BY <1>0, FS_EmptySet
  <2>2. IsFold([s \in Small(0) |-> base], Small(0), A, pick, turn, base)
    BY <2>1 DEF IsFold
  <2>. QED
    BY <2>2
<1>2. ASSUME NEW n \in T PROVE n + 1 \in T
  <2>1. PICK g \in [Small(n) -> A] : IsFold(g, Small(n), A, pick, turn, base)
    OBVIOUS
  <2> DEFINE h == [s \in Small(n + 1) |->
                     IF s = {} THEN base ELSE turn[pick[s]][g[s \ {pick[s]}]]]
  <2>2. Small(n) \subseteq Small(n + 1)
    BY <1>0
  <2>3. \A s \in Small(n) : h[s] = g[s]
    <3>1. \A s \in Small(n) : s # {} => g[s \ {pick[s]}] \in A
      BY <1>0, <1>c, <2>1
    <3>2. \A s \in Small(n) : g[s] = IF s = {} THEN base ELSE turn[pick[s]][g[s \ {pick[s]}]]
      <4>. HIDE DEF Small
      <4>. QED
        BY <2>1, <3>1 DEF IsFold
    <3>. QED
      BY <2>2, <3>2
  <2>4. \A s \in Small(n + 1) : s # {} => s \ {pick[s]} \in Small(n)
    BY <1>0, <1>c
  <2>5. IsFold(h, Small(n + 1), A, pick, turn, base)
    BY <2>3, <2>4 DEF IsFold
  <2>6. h \in [Small(n + 1) -> A]
    <3>1. ASSUME NEW s \in Small(n + 1), s # {} PROVE turn[pick[s]][g[s \ {pick[s]}]] \in A
      <4>1. g[s \ {pick[s]}] \in A
        BY <2>1, <2>4, <3>1
      <4>2. turn[pick[s]] \in [A -> A]
        BY <1>c, <3>1
      <4>. HIDE DEF h, Small, T
      <4>. QED
        BY <4>1, <4>2
    <3>. QED
      BY <3>1
  <2>. HIDE DEF h, Small
  <2>. QED
    BY <2>5, <2>6
<1>3. T = Nat
  <2>. HIDE DEF T
  <2>1. T \in SUBSET Nat
    BY DEF T
  <2>. QED
    BY <1>1, <1>2, <2>1, NatSets
<1>4. \E g \in [Small(Cardinality(S)) -> A] : IsFold(g, Small(Cardinality(S)), A, pick, turn, base)
  BY <1>0, <1>3
<1>5. Small(Cardinality(S)) = SUBSET S
  BY <1>0, FS_Subset
<1>. HIDE DEF Small, T
<1>. QED
  BY <1>4, <1>5

\* What a fold computes stays in a set that its turns stay in.
LEMMA FoldStays ==
    ASSUME NEW S, IsFiniteSet(S), NEW A, NEW base \in A, NEW pick, NEW turn \in [S -> [A -> A]],
           Picks(pick, S), NEW g, IsFold(g, SUBSET S, A, pick, turn, base)
    PROVE  g[S] \in A
<1> DEFINE T == {n \in Nat : \A s \in SUBSET S : Cardinality(s) <= n => g[s] \in A}
<1>0. \A s \in SUBSET S : IsFiniteSet(s) /\ Cardinality(s) \in Nat
  BY FS_Subset, FS_CardinalityType
<1>c. \A s \in SUBSET S : s # {} =>
         /\ pick[s] \in S
         /\ s \ {pick[s]} \in SUBSET S
         /\ Cardinality(s \ {pick[s]}) = Cardinality(s) - 1
  <2>. SUFFICES ASSUME NEW s \in SUBSET S, s # {}
                PROVE  /\ pick[s] \in s
                       /\ Cardinality(s \ {pick[s]}) = Cardinality(s) - 1
    OBVIOUS
  <2>. QED
    BY <1>0, FS_RemoveElement DEF Picks
<1>1. 0 \in T
  <2>1. \A s \in SUBSET S : Cardinality(s) <= 0 => s = {}
    BY <1>0, FS_EmptySet
  <2>. QED
    BY <2>1 DEF IsFold
<1>2. ASSUME NEW n \in T PROVE n + 1 \in T
  <2>1. ASSUME NEW s \in SUBSET S, Cardinality(s) <= n + 1, s # {} PROVE g[s] \in A
    <3>1. g[s \ {pick[s]}] \in A
      BY <1>0, <1>c, <2>1
    <3>2. turn[pick[s]] \in [A -> A]
      BY <1>c, <2>1
    <3>3. g[s] = turn[pick[s]][g[s \ {pick[s]}]]
      BY <2>1, <3>1 DEF IsFold
    <3>. HIDE DEF T
    <3>. QED
      BY <3>1, <3>2, <3>3
  <2>2. g[{}] \in A
    BY DEF IsFold
  <2>. QED
    BY <2>1, <2>2, n + 1 \in Nat
<1>3. T = Nat
  <2>. HIDE DEF T
  <2>1. T \in SUBSET Nat
    BY DEF T
  <2>. QED
    BY <1>1, <1>2, <2>1, NatSets
<1>. QED
  BY <1>0, <1>3

\* Taking in a member of X leads from A into B.
Leads(turn, X, A, B) == \A x \in X : \A a \in A : turn[x][a] \in B

\* What one turn brings about and the others keep, the fold has, in whatever order.
LEMMA FoldHas ==
    ASSUME NEW S, IsFiniteSet(S), NEW A, NEW base \in A, NEW pick, NEW turn \in [S -> [A -> A]],
           Picks(pick, S), NEW g, IsFold(g, SUBSET S, A, pick, turn, base),
           NEW c \in S, NEW B \in SUBSET A,
           Leads(turn, {c}, A, B), Leads(turn, S, B, B)
    PROVE  g[S] \in B
<1> DEFINE T == {n \in Nat : \A s \in SUBSET S : c \in s /\ Cardinality(s) <= n => g[s] \in B}
<1>0. \A s \in SUBSET S : IsFiniteSet(s) /\ Cardinality(s) \in Nat
  BY FS_Subset, FS_CardinalityType
<1>c. \A s \in SUBSET S : s # {} =>
         /\ pick[s] \in S
         /\ s \ {pick[s]} \in SUBSET S
         /\ Cardinality(s \ {pick[s]}) = Cardinality(s) - 1
  <2>. SUFFICES ASSUME NEW s \in SUBSET S, s # {}
                PROVE  /\ pick[s] \in s
                       /\ Cardinality(s \ {pick[s]}) = Cardinality(s) - 1
    OBVIOUS
  <2>. QED
    BY <1>0, FS_RemoveElement DEF Picks
<1>t. \A s \in SUBSET S : g[s] \in A
  <2>. SUFFICES ASSUME NEW s \in SUBSET S PROVE g[s] \in A
    OBVIOUS
  <2> DEFINE part == [x \in s |-> turn[x]]
  <2>1. IsFiniteSet(s)
    BY <1>0
  <2>2. part \in [s -> [A -> A]]
    OBVIOUS
  <2>3. Picks(pick, s)
    BY DEF Picks
  <2>4. IsFold(g, SUBSET s, A, pick, part, base)
    <3>1. \A r \in SUBSET s : r \in SUBSET S /\ (r # {} => pick[r] \in s)
      BY <2>3 DEF Picks
    <3>2. \A r \in SUBSET s : r # {} => part[pick[r]] = turn[pick[r]]
      BY <3>1
    <3>. HIDE DEF part
    <3>. QED
      BY <3>1, <3>2 DEF IsFold
  <2>. HIDE DEF part
  <2>. QED
    BY <2>1, <2>2, <2>3, <2>4, FoldStays, Zenon
<1>1. 0 \in T
  <2>1. \A s \in SUBSET S : Cardinality(s) <= 0 => s = {}
    BY <1>0, FS_EmptySet
  <2>. QED
    BY <2>1
<1>2. ASSUME NEW n \in T PROVE n + 1 \in T
  <2>1. ASSUME NEW s \in SUBSET S, Cardinality(s) <= n + 1, c \in s PROVE g[s] \in B
    <3>1. g[s \ {pick[s]}] \in A
      BY <1>c, <1>t, <2>1
    <3>2. pick[s] # c => g[s \ {pick[s]}] \in B
      <4>1. \A r \in SUBSET S : c \in r /\ Cardinality(r) <= n => g[r] \in B
        BY <1>2
      <4>2. n \in Nat
        BY <1>2
      <4>. HIDE DEF T
      <4>. QED
        BY <1>0, <1>c, <2>1, <4>1, <4>2
    <3>3. g[s] = turn[pick[s]][g[s \ {pick[s]}]]
      BY <2>1, <3>1 DEF IsFold
    <3>4. pick[s] \in S
      BY <1>c, <2>1
    <3>. HIDE DEF T
    <3>. QED
      BY <3>1, <3>2, <3>3, <3>4 DEF Leads
  <2>. QED
    BY <2>1, n + 1 \in Nat
<1>3. T = Nat
  <2>. HIDE DEF T
  <2>1. T \in SUBSET Nat
    BY DEF T
  <2>. QED
    BY <1>1, <1>2, <2>1, NatSets
<1>. QED
  BY <1>0, <1>3

\* g sums w over the subsets of S: any member may be taken off.
Sums(g, S, w) ==
    /\ g[{}] = 0
    /\ \A s \in SUBSET S : g[s] \in Nat
    /\ \A s \in SUBSET S : \A c \in s : g[s] = w[c] + g[s \ {c}]

\* The steps of a sum.
Adding(w) == [x \in DOMAIN w |-> [a \in Nat |-> w[x] + a]]

\* Of a sum, any member may be taken off.
LEMMA SumWithout ==
    ASSUME NEW S, IsFiniteSet(S), NEW w \in [S -> Nat], NEW pick, Picks(pick, S),
           NEW g, IsFold(g, SUBSET S, Nat, pick, Adding(w), 0)
    PROVE  Sums(g, S, w)
<1> DEFINE Removes(s) == g[s] \in Nat /\ \A c \in s : g[s] = w[c] + g[s \ {c}]
           T == {n \in Nat : \A s \in SUBSET S : Cardinality(s) <= n => Removes(s)}
<1>0. \A s \in SUBSET S : IsFiniteSet(s) /\ Cardinality(s) \in Nat
  BY FS_Subset, FS_CardinalityType
<1>b. g[{}] = 0
  BY DEF IsFold
<1>c. \A s \in SUBSET S, c \in S : c \in s =>
          /\ s \ {c} \in SUBSET S
          /\ Cardinality(s \ {c}) = Cardinality(s) - 1
  <2>. SUFFICES ASSUME NEW s \in SUBSET S, NEW c \in s
                PROVE  Cardinality(s \ {c}) = Cardinality(s) - 1
    OBVIOUS
  <2>. QED
    BY <1>0, FS_RemoveElement
<1>d. ASSUME NEW s \in SUBSET S, s # {}, g[s \ {pick[s]}] \in Nat
      PROVE  pick[s] \in s /\ g[s] = w[pick[s]] + g[s \ {pick[s]}]
  <2>1. pick[s] \in s /\ pick[s] \in S
    BY <1>d DEF Picks
  <2>2. g[s] = Adding(w)[pick[s]][g[s \ {pick[s]}]]
    BY <1>d DEF IsFold
  <2>. QED
    BY <1>d, <2>1, <2>2 DEF Adding
<1>e. Removes({})
  BY <1>b
<1>1. 0 \in T
  <2>1. \A s \in SUBSET S : Cardinality(s) <= 0 => s = {}
    BY <1>0, FS_EmptySet
  <2>. HIDE DEF Removes
  <2>. QED
    BY <1>e, <2>1
<1>2. ASSUME NEW n \in T PROVE n + 1 \in T
  <2>0. n \in Nat /\ \A r \in SUBSET S : Cardinality(r) <= n => Removes(r)
    BY <1>2
  <2>1. ASSUME NEW s \in SUBSET S, Cardinality(s) <= n + 1, s # {} PROVE Removes(s)
    <3> DEFINE y == pick[s]
    <3>1. y \in s
      BY <2>1 DEF Picks
    <3>2. Cardinality(s \ {y}) <= n /\ s \ {y} \in SUBSET S
      BY <1>0, <1>c, <2>0, <2>1, <3>1
    <3>3. Removes(s \ {y})
      BY <2>0, <3>2
    <3>4. g[s] = w[y] + g[s \ {y}]
      BY <1>d, <2>1, <3>3
    <3>. HIDE DEF y
    <3>5. ASSUME NEW c \in s, c # y PROVE g[s] = w[c] + g[s \ {c}]
      <4>1. Cardinality(s \ {c}) <= n /\ s \ {c} \in SUBSET S
        BY <1>0, <1>c, <2>0, <2>1
      <4>2. g[s \ {c}] = w[y] + g[(s \ {c}) \ {y}]
        BY <2>0, <3>1, <3>5, <4>1
      <4>3. g[s \ {y}] = w[c] + g[(s \ {y}) \ {c}]
        BY <3>3, <3>5
      <4>4. (s \ {c}) \ {y} = (s \ {y}) \ {c}
        OBVIOUS
      <4>5. g[(s \ {y}) \ {c}] \in Nat
        <5>1. Cardinality((s \ {y}) \ {c}) <= n /\ (s \ {y}) \ {c} \in SUBSET S
          BY <1>0, <1>c, <2>0, <3>2, <3>5
        <5>. QED
          BY <2>0, <5>1
      <4>6. w[c] \in Nat /\ w[y] \in Nat
        BY <3>1
      <4>8. g[s] = w[y] + (w[c] + g[(s \ {y}) \ {c}])
        BY <3>4, <4>3, Zenon
      <4>9. g[s \ {c}] = w[y] + g[(s \ {y}) \ {c}]
        BY <4>2, <4>4, Zenon
      <4>10. w[y] + (w[c] + g[(s \ {y}) \ {c}]) = w[c] + (w[y] + g[(s \ {y}) \ {c}])
        <5> DEFINE i == w[y]  j == w[c]  k == g[(s \ {y}) \ {c}]
        <5>1. i \in Nat /\ j \in Nat /\ k \in Nat
          BY <4>5, <4>6
        <5>. HIDE DEF i, j, k
        <5>2. i + (j + k) = j + (i + k)
          BY <5>1
        <5>. QED
          BY <5>2 DEF i, j, k
      <4>11. w[c] + g[s \ {c}] = w[c] + (w[y] + g[(s \ {y}) \ {c}])
        BY <4>9, Zenon
      <4>. QED
        BY <4>8, <4>10, <4>11, Zenon
    <3>6. g[s] \in Nat
      BY <3>1, <3>3, <3>4
    <3>. QED
      BY <3>4, <3>5, <3>6
  <2>. HIDE DEF Removes
  <2>. QED
    BY <1>e, <2>0, <2>1
<1>3. T = Nat
  <2>. HIDE DEF T
  <2>1. T \in SUBSET Nat
    BY DEF T
  <2>. QED
    BY <1>1, <1>2, <2>1, NatSets
<1>4. \A s \in SUBSET S : Removes(s)
  BY <1>0, <1>3
<1>. QED
  BY <1>b, <1>4 DEF Sums

\* The recursion of a sum, its members chosen as the community modules choose them.
Chosen(s) == CHOOSE x \in s : TRUE

SumsUp(g, S, w) == \A s \in SUBSET S : g[s] = IF s = {} THEN 0 ELSE w[Chosen(s)] + g[s \ {Chosen(s)}]

LEMMA SumExists ==
    ASSUME NEW S, IsFiniteSet(S), NEW w \in [S -> Nat]
    PROVE  \E g \in [SUBSET S -> Nat] : SumsUp(g, S, w)
<1> DEFINE pick == [s \in SUBSET S |-> Chosen(s)]
<1>1. Picks(pick, S) /\ \A s \in SUBSET S : pick[s] = Chosen(s)
  BY DEF Picks, Chosen
<1>2. Adding(w) \in [S -> [Nat -> Nat]] /\ \A x \in S, a \in Nat : Adding(w)[x][a] = w[x] + a
  BY DEF Adding
<1>. HIDE DEF pick
<1>3. PICK g \in [SUBSET S -> Nat] : IsFold(g, SUBSET S, Nat, pick, Adding(w), 0)
  <2>1. 0 \in Nat
    OBVIOUS
  <2>. QED
    BY <1>1, <1>2, <2>1, FoldExists, Zenon
<1>4. ASSUME NEW s \in SUBSET S, s # {} PROVE g[s] = w[Chosen(s)] + g[s \ {Chosen(s)}]
  <2>1. Chosen(s) \in S /\ g[s \ {Chosen(s)}] \in Nat
    BY <1>1, <1>4 DEF Picks
  <2>2. g[s] = Adding(w)[Chosen(s)][g[s \ {Chosen(s)}]]
    BY <1>1, <1>3, <1>4, <2>1 DEF IsFold
  <2>. QED
    BY <1>2, <2>1, <2>2
<1>5. g[{}] = 0
  BY <1>3 DEF IsFold
<1>. QED
  BY <1>4, <1>5 DEF SumsUp

LEMMA SumIsSum ==
    ASSUME NEW S, IsFiniteSet(S), NEW w \in [S -> Nat], NEW g, SumsUp(g, S, w)
    PROVE  Sums(g, S, w)
<1> DEFINE pick == [s \in SUBSET S |-> Chosen(s)]
<1>1. Picks(pick, S) /\ \A s \in SUBSET S : pick[s] = Chosen(s)
  BY DEF Picks, Chosen
<1>2. \A x \in S, a \in Nat : Adding(w)[x][a] = w[x] + a
  BY DEF Adding
<1>. HIDE DEF pick
<1>3. ASSUME NEW s \in SUBSET S, s # {}, g[s \ {pick[s]}] \in Nat
      PROVE  g[s] = Adding(w)[pick[s]][g[s \ {pick[s]}]]
  <2>1. pick[s] \in S /\ pick[s] = Chosen(s)
    BY <1>1, <1>3 DEF Picks
  <2>2. g[s] = w[Chosen(s)] + g[s \ {Chosen(s)}]
    BY <1>3 DEF SumsUp
  <2>. QED
    BY <1>2, <1>3, <2>1, <2>2
<1>4. g[{}] = 0
  BY DEF SumsUp
<1>5. IsFold(g, SUBSET S, Nat, pick, Adding(w), 0)
  BY <1>3, <1>4 DEF IsFold
<1>. QED
  BY <1>1, <1>5, SumWithout

\* A sum is that of what its members stand for, one for one, in whatever order
\* either is taken.
LEMMA SumRenamed ==
    ASSUME NEW S, IsFiniteSet(S), NEW w, NEW g, Sums(g, S, w),
           NEW U, NEW v, NEW h, Sums(h, U, v),
           NEW b \in [S -> U], \A x, y \in S : b[x] = b[y] => x = y,
           \A x \in S : w[x] = v[b[x]]
    PROVE  g[S] = h[{b[x] : x \in S}]
<1> DEFINE Renamed(s) == g[s] = h[{b[x] : x \in s}]
           T == {n \in Nat : \A s \in SUBSET S : Cardinality(s) <= n => Renamed(s)}
<1>0. \A s \in SUBSET S : IsFiniteSet(s) /\ Cardinality(s) \in Nat
  BY FS_Subset, FS_CardinalityType
<1>a. g[{}] = 0 /\ \A s \in SUBSET S : \A c \in s : g[s] = w[c] + g[s \ {c}]
  BY DEF Sums
<1>b. h[{}] = 0 /\ \A s \in SUBSET U : \A c \in s : h[s] = v[c] + h[s \ {c}]
  BY DEF Sums
<1>1. 0 \in T
  <2>1. \A s \in SUBSET S : Cardinality(s) <= 0 => s = {}
    BY <1>0, FS_EmptySet
  <2>2. {b[x] : x \in {}} = {}
    OBVIOUS
  <2>. QED
    BY <1>a, <1>b, <2>1, <2>2
<1>2. ASSUME NEW n \in T PROVE n + 1 \in T
  <2>0. n \in Nat /\ \A r \in SUBSET S : Cardinality(r) <= n => Renamed(r)
    BY <1>2
  <2>1. ASSUME NEW s \in SUBSET S, Cardinality(s) <= n + 1, s # {}
        PROVE  Renamed(s)
    <3>1. PICK c \in s : TRUE
      BY <2>1
    <3>2. Cardinality(s \ {c}) = Cardinality(s) - 1 /\ s \ {c} \in SUBSET S
      BY <1>0, FS_RemoveElement
    <3>3. g[s \ {c}] = h[{b[x] : x \in s \ {c}}]
      <4>1. Cardinality(s \ {c}) <= n
        BY <1>0, <2>0, <2>1, <3>2
      <4>. QED
        BY <2>0, <3>2, <4>1
    <3>4. {b[x] : x \in s \ {c}} = {b[x] : x \in s} \ {b[c]}
      OBVIOUS
    <3>5. b[c] \in {b[x] : x \in s} /\ {b[x] : x \in s} \in SUBSET U
      OBVIOUS
    <3>6. h[{b[x] : x \in s}] = v[b[c]] + h[{b[x] : x \in s} \ {b[c]}]
      BY <1>b, <3>5
    <3>7. g[s] = w[c] + g[s \ {c}]
      BY <1>a
    <3>. QED
      BY <3>3, <3>4, <3>6, <3>7
  <2>2. Renamed({})
    <3>1. {b[x] : x \in {}} = {}
      OBVIOUS
    <3>. QED
      BY <1>a, <1>b, <3>1
  <2>. HIDE DEF Renamed
  <2>. QED
    BY <2>0, <2>1, <2>2
<1>3. T = Nat
  <2>. HIDE DEF T
  <2>1. T \in SUBSET Nat
    BY DEF T
  <2>. QED
    BY <1>1, <1>2, <2>1, NatSets
<1>. QED
  BY <1>0, <1>3

\* A finite set of numbers that is not empty has a greatest and a least one.
LEMMA Extremes ==
    ASSUME NEW S \in SUBSET Nat, IsFiniteSet(S), S # {}
    PROVE  /\ Max(S) \in S /\ \A x \in S : x <= Max(S)
           /\ Min(S) \in S /\ \A x \in S : Min(S) <= x
<1> DEFINE Has(s) == \E m \in s : \A x \in s : x <= m
           T == {n \in Nat : \A s \in SUBSET S : Cardinality(s) <= n /\ s # {} => Has(s)}
<1>0. \A s \in SUBSET S : IsFiniteSet(s) /\ Cardinality(s) \in Nat
  BY FS_Subset, FS_CardinalityType
<1>1. 0 \in T
  BY <1>0, FS_EmptySet
<1>2. ASSUME NEW n \in T PROVE n + 1 \in T
  <2>0. n \in Nat /\ \A s \in SUBSET S : Cardinality(s) <= n /\ s # {} => Has(s)
    BY <1>2
  <2>1. ASSUME NEW s \in SUBSET S, Cardinality(s) <= n + 1, s # {} PROVE Has(s)
    <3>1. PICK c \in s : TRUE
      BY <2>1
    <3>2. Cardinality(s \ {c}) = Cardinality(s) - 1 /\ s \ {c} \in SUBSET S
      BY <1>0, FS_RemoveElement
    <3>3. s \ {c} # {} => Has(s \ {c})
      <4>1. Cardinality(s \ {c}) <= n
        BY <1>0, <2>0, <2>1, <3>2
      <4>. QED
        BY <2>0, <3>2, <4>1
    <3>. QED
      BY <3>3
  <2>. HIDE DEF Has
  <2>. QED
    BY <2>0, <2>1
<1>3. T = Nat
  <2>. HIDE DEF T
  <2>1. T \in SUBSET Nat
    BY DEF T
  <2>. QED
    BY <1>1, <1>2, <2>1, NatSets
<1>4. \E m \in S : \A x \in S : m >= x
  <2>1. Has(S)
    <3>. HIDE DEF Has
    <3>. QED
      BY <1>0, <1>3
  <2>. QED
    BY <2>1
<1>5. \E m \in S : \A x \in S : m <= x
  BY LeastNat
<1>6. Max(S) \in S /\ \A x \in S : Max(S) >= x
  BY <1>4 DEF Max
<1>7. Min(S) \in S /\ \A x \in S : Min(S) <= x
  BY <1>5 DEF Min
<1>. QED
  BY <1>6, <1>7

======================================================================================
