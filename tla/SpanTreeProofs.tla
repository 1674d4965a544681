-------------------------------- MODULE SpanTreeProofs -------------------------------
(***************************************************************************)
(* The waterfall of one trace, for any number of spans, with any parents,  *)
(* tokens and order of arrival: every span has one row below its parent's, *)
(* roll-ups add up, a cycle loses one link, a reload shows the same rows   *)
(* and collapsing hides a subtree.  All of it follows from the type        *)
(* invariant, by what the functions of SpanTree compute.                   *)
(***************************************************************************)
EXTENDS SpanTree, FoldLemmas, SequenceTheorems

(***************************************************************************)
(* Recursion over n turns, and sequences as the sets of their members.     *)
(***************************************************************************)

\* Repeating a function from a start has a solution.
LEMMA IterExists ==
    ASSUME NEW A, NEW a \in A, NEW f \in [A -> A]
    PROVE  \E s \in [Nat -> A] : s[0] = a /\ \A k \in Nat : s[k + 1] = f[s[k]]
<1> DEFINE Runs(s, n) == s[0] = a /\ \A k \in 0 .. n - 1 : s[k + 1] = f[s[k]]
           T == {n \in Nat : \E s \in [0 .. n -> A] :
                    Runs(s, n) /\ \A t \in [0 .. n -> A] : Runs(t, n) => t = s}
<1>1. 0 \in T
  <2> DEFINE s == [k \in 0 .. 0 |-> a]
  <2>1. s \in [0 .. 0 -> A] /\ Runs(s, 0)
    OBVIOUS
  <2>2. ASSUME NEW t \in [0 .. 0 -> A], Runs(t, 0) PROVE t = s
    <3>1. \A k \in 0 .. 0 : t[k] = s[k]
      BY <2>2
    <3>. QED
      BY <2>1, <3>1
  <2>. QED
    BY <2>1, <2>2
<1>2. ASSUME NEW n \in T PROVE n + 1 \in T
  <2>1. PICK s \in [0 .. n -> A] : Runs(s, n) /\ \A t \in [0 .. n -> A] : Runs(t, n) => t = s
    OBVIOUS
  <2> DEFINE u == [k \in 0 .. n + 1 |-> IF k = n + 1 THEN f[s[n]] ELSE s[k]]
  <2>2. u \in [0 .. n + 1 -> A] /\ Runs(u, n + 1)
    BY <2>1
  <2>3. ASSUME NEW t \in [0 .. n + 1 -> A], Runs(t, n + 1) PROVE t = u
    <3> DEFINE v == [k \in 0 .. n |-> t[k]]
    <3>1. v \in [0 .. n -> A] /\ Runs(v, n)
      BY <2>3
    <3>2. v = s
      BY <2>1, <3>1
    <3>3. \A k \in 0 .. n : t[k] = s[k]
      BY <3>2
    <3>4. t[n + 1] = f[s[n]]
      BY <2>3, <3>3
    <3>5. \A k \in 0 .. n + 1 : t[k] = u[k]
      BY <3>3, <3>4
    <3>. QED
      BY <2>2, <2>3, <3>5
  <2>. HIDE DEF u, Runs
  <2>. QED
    BY <2>2, <2>3, n + 1 \in Nat
<1>3. T = Nat
  <2>. HIDE DEF T
  <2>1. T \in SUBSET Nat
    BY DEF T
  <2>. QED
    BY <1>1, <1>2, <2>1, NatSets
<1> DEFINE one(n) == CHOOSE s \in [0 .. n -> A] :
                        Runs(s, n) /\ \A t \in [0 .. n -> A] : Runs(t, n) => t = s
<1>4. ASSUME NEW n \in Nat
      PROVE  /\ one(n) \in [0 .. n -> A] /\ Runs(one(n), n)
             /\ \A t \in [0 .. n -> A] : Runs(t, n) => t = one(n)
  BY <1>3
<1> DEFINE all == [n \in Nat |-> one(n)[n]]
<1>. HIDE DEF one, T
<1>5. all \in [Nat -> A] /\ all[0] = a
  BY <1>4
<1>6. ASSUME NEW k \in Nat PROVE all[k + 1] = f[all[k]]
  <2> DEFINE v == [j \in 0 .. k |-> one(k + 1)[j]]
  <2>1. one(k + 1) \in [0 .. k + 1 -> A] /\ Runs(one(k + 1), k + 1)
    BY <1>4
  <2>2. v \in [0 .. k -> A] /\ Runs(v, k)
    BY <2>1
  <2>3. v = one(k)
    BY <1>4, <2>2
  <2>4. one(k + 1)[k + 1] = f[one(k + 1)[k]]
    BY <2>1
  <2>5. one(k + 1)[k] = one(k)[k]
    BY <2>3
  <2>. QED
    BY <2>4, <2>5
<1>. QED
  BY <1>5, <1>6

\* The highest index is a choice to fold by.
LEMMA MaxPicks == ASSUME NEW n \in Nat
                  PROVE  Picks([s \in SUBSET (1 .. n) |-> Max(s)], 1 .. n) /\ IsFiniteSet(1 .. n)
<1>1. IsFiniteSet(1 .. n)
  BY FS_Interval
<1>2. ASSUME NEW s \in SUBSET (1 .. n), s # {} PROVE Max(s) \in s
  <2>1. s \in SUBSET Nat /\ IsFiniteSet(s)
    <3>1. IsFiniteSet(s)
      BY <1>1, FS_Subset
    <3>2. \A x \in s : x \in Nat
      OBVIOUS
    <3>. QED
      BY <3>1, <3>2
  <2>. QED
    BY <1>2, <2>1, Extremes
<1>. QED
  BY <1>1, <1>2 DEF Picks

\* Induction up to n, the predicate as a set.
LEMMA UpTo == ASSUME NEW n \in Nat, NEW T, 0 \in T, \A k \in 1 .. n : k - 1 \in T => k \in T
              PROVE  0 .. n \subseteq T
<1> DEFINE W == {k \in Nat : k <= n => k \in T}
<1>1. 0 \in W
  OBVIOUS
<1>2. ASSUME NEW k \in W PROVE k + 1 \in W
  <2>1. k + 1 \in 1 .. n \/ ~ (k + 1 <= n)
    OBVIOUS
  <2>2. (k + 1) - 1 = k
    OBVIOUS
  <2>. QED
    BY <2>1, <2>2
<1>3. W \in SUBSET Nat
  OBVIOUS
<1>4. W = Nat
  <2>. HIDE DEF W
  <2>. QED
    BY <1>1, <1>2, <1>3, NatSets
<1>5. ASSUME NEW k \in 0 .. n PROVE k \in T
  <2>1. k \in W /\ k <= n
    BY <1>4
  <2>. QED
    BY <2>1
<1>. QED
  BY <1>5

\* s runs through n turns: f[k] is the k-th.
Turns(s, n, a, f) == s[0] = a /\ \A k \in 1 .. n : s[k] = f[k][s[k - 1]]

\* A recursion of n turns has a solution.
LEMMA TurnsExist ==
    ASSUME NEW n \in Nat, NEW A, NEW a \in A, NEW f \in [1 .. n -> [A -> A]]
    PROVE  \E s \in [0 .. n -> A] : Turns(s, n, a, f)
<1> DEFINE Runs(s, m) == s[0] = a /\ \A k \in 1 .. m : s[k] = f[k][s[k - 1]]
           T == {m \in 0 .. n : \E s \in [0 .. m -> A] : Runs(s, m)}
<1>1. 0 \in T
  <2> DEFINE s == [k \in 0 .. 0 |-> a]
  <2>1. s \in [0 .. 0 -> A] /\ Runs(s, 0)
    OBVIOUS
  <2>. HIDE DEF s, Runs
  <2>. QED
    BY <2>1
<1>2. ASSUME NEW m \in 1 .. n, m - 1 \in T PROVE m \in T
  <2>1. PICK s \in [0 .. m - 1 -> A] : Runs(s, m - 1)
    BY <1>2
  <2> DEFINE u == [k \in 0 .. m |-> IF k = m THEN f[m][s[m - 1]] ELSE s[k]]
  <2>2. f[m][s[m - 1]] \in A
    <3>1. f[m] \in [A -> A] /\ s[m - 1] \in A
      OBVIOUS
    <3>. QED
      BY <3>1
  <2>3. u \in [0 .. m -> A]
    BY <2>2
  <2>4. u[0] = a
    BY <2>1
  <2>5. ASSUME NEW k \in 1 .. m PROVE u[k] = f[k][u[k - 1]]
    <3>1. u[k - 1] = s[k - 1]
      OBVIOUS
    <3>2. CASE k = m
      BY <3>1, <3>2
    <3>3. CASE k # m
      <4>1. k \in 1 .. m - 1 /\ u[k] = s[k]
        BY <3>3
      <4>. QED
        BY <2>1, <3>1, <4>1
    <3>. QED
      BY <3>2, <3>3
  <2>6. Runs(u, m)
    <3>. HIDE DEF u
    <3>. QED
      BY <2>4, <2>5
  <2>. HIDE DEF u, Runs
  <2>. QED
    BY <2>3, <2>6
<1>3. 0 .. n \subseteq T
  <2>. HIDE DEF T
  <2>. QED
    BY <1>1, <1>2, UpTo
<1>4. n \in T
  <2>. HIDE DEF T
  <2>. QED
    BY <1>3
<1>. QED
  BY <1>4 DEF Turns

\* What a recursion computes stays in a set that its turns stay in.
LEMMA TurnsStay ==
    ASSUME NEW n \in Nat, NEW A, NEW s, s[0] \in A, \A k \in 1 .. n : s[k - 1] \in A => s[k] \in A
    PROVE  \A k \in 0 .. n : s[k] \in A
<1> DEFINE T == {k \in 0 .. n : s[k] \in A}
<1>1. 0 \in T /\ \A k \in 1 .. n : k - 1 \in T => k \in T
  OBVIOUS
<1>. HIDE DEF T
<1>2. 0 .. n \subseteq T
  BY <1>1, UpTo
<1>. QED
  BY <1>2 DEF T

\* s and t start alike and take the same turns.
InStep(s, t, n) == s[0] = t[0] /\ \A k \in 1 .. n : s[k - 1] = t[k - 1] => s[k] = t[k]

\* Two recursions with the same turns agree.
LEMMA TurnsAgree == ASSUME NEW n \in Nat, NEW s, NEW t, InStep(s, t, n)
                    PROVE  s[n] = t[n]
<1> DEFINE T == {k \in 0 .. n : s[k] = t[k]}
<1>1. 0 \in T /\ \A k \in 1 .. n : k - 1 \in T => k \in T
  BY DEF InStep
<1>. HIDE DEF T
<1>2. 0 .. n \subseteq T
  BY <1>1, UpTo
<1>. QED
  BY <1>2 DEF T

\* A sequence has no more members than places.
LEMMA SetOfSeq ==
    ASSUME NEW n \in Nat, NEW s, DOMAIN s = 1 .. n
    PROVE  IsFiniteSet(ToSet(s)) /\ Cardinality(ToSet(s)) <= n
<1> DEFINE h == [k \in 1 .. n |-> s[k]]
<1>1. h \in Surjection(1 .. n, ToSet(s))
  BY DEF Surjection, ToSet
<1>2. IsFiniteSet(1 .. n) /\ Cardinality(1 .. n) = IF 1 > n THEN 0 ELSE n - 1 + 1
  BY FS_Interval
<1>3. Cardinality(1 .. n) = n
  BY <1>2
<1>. HIDE DEF h
<1>. QED
  BY <1>1, <1>2, <1>3, FS_Surjection

\* Induction over sequences that grow at the end, the predicate as a set.
LEMMA SeqSets ==
    ASSUME NEW X, NEW T \in SUBSET Seq(X), <<>> \in T, \A s \in T : \A x \in X : Append(s, x) \in T
    PROVE  T = Seq(X)
<1> DEFINE W == {n \in Nat : \A s \in Seq(X) : Len(s) = n => s \in T}
<1>1. 0 \in W
  <2>1. ASSUME NEW s \in Seq(X), Len(s) = 0 PROVE s = <<>>
    BY <2>1, EmptySeq
  <2>. QED
    BY <2>1
<1>2. ASSUME NEW n \in W PROVE n + 1 \in W
  <2>1. ASSUME NEW s \in Seq(X), Len(s) = n + 1 PROVE s \in T
    <3>1. s # <<>>
      BY <2>1
    <3>2. PICK r \in Seq(X), x \in X : s = Append(r, x)
      BY <3>1, SequenceEmptyOrAppend
    <3>3. Len(r) = n
      <4>1. Len(Append(r, x)) = Len(r) + 1 /\ Len(r) \in Nat
        BY AppendProperties
      <4>. QED
        BY <2>1, <3>2, <4>1
    <3>. QED
      BY <3>2, <3>3
  <2>. QED
    BY <2>1
<1>3. W \in SUBSET Nat
  OBVIOUS
<1>4. W = Nat
  <2>. HIDE DEF W
  <2>. QED
    BY <1>1, <1>2, <1>3, NatSets
<1>5. ASSUME NEW s \in Seq(X) PROVE s \in T
  <2>1. Len(s) \in W
    BY <1>4
  <2>. QED
    BY <2>1
<1>. QED
  BY <1>5

\* The members of a longer sequence.
LEMMA SetOfLonger ==
    ASSUME NEW X, NEW s \in Seq(X)
    PROVE  /\ ToSet(<<>>) = {} /\ ToSet(s) \subseteq X
           /\ \A x \in X : ToSet(Append(s, x)) = ToSet(s) \cup {x}
           /\ \A t \in Seq(X) : ToSet(s \o t) = ToSet(s) \cup ToSet(t)
<1>1. ToSet(<<>>) = {}
  BY DEF ToSet
<1>2. Len(s) \in Nat /\ DOMAIN s = 1 .. Len(s) /\ ToSet(s) = {s[k] : k \in 1 .. Len(s)}
  BY DEF ToSet
<1>3. ASSUME NEW x \in X PROVE ToSet(Append(s, x)) = ToSet(s) \cup {x}
  <2>1. DOMAIN Append(s, x) = 1 .. Len(s) + 1
    OBVIOUS
  <2>2. \A k \in 1 .. Len(s) : Append(s, x)[k] = s[k]
    OBVIOUS
  <2>3. Append(s, x)[Len(s) + 1] = x
    OBVIOUS
  <2>. QED
    BY <1>2, <2>1, <2>2, <2>3 DEF ToSet
<1>4. ASSUME NEW t \in Seq(X) PROVE ToSet(s \o t) = ToSet(s) \cup ToSet(t)
  <2>1. DOMAIN (s \o t) = 1 .. Len(s) + Len(t) /\ Len(t) \in Nat /\ DOMAIN t = 1 .. Len(t)
    OBVIOUS
  <2>2. \A k \in 1 .. Len(s) : (s \o t)[k] = s[k]
    BY <1>2, ConcatProperties
  <2>3. ASSUME NEW k \in 1 .. Len(t) PROVE (s \o t)[Len(s) + k] = t[k]
    <3>1. Len(s) + k \in 1 .. Len(s) + Len(t) /\ ~(Len(s) + k <= Len(s)) /\ Len(s) + k - Len(s) = k
      BY <1>2, <2>1
    <3>. QED
      BY <3>1, ConcatProperties
  <2>4. \A k \in 1 .. Len(s) + Len(t) : k \in 1 .. Len(s) \/ \E j \in 1 .. Len(t) : k = Len(s) + j
    <3>1. ASSUME NEW k \in 1 .. Len(s) + Len(t), k \notin 1 .. Len(s)
          PROVE  \E j \in 1 .. Len(t) : k = Len(s) + j
      <4>1. k - Len(s) \in 1 .. Len(t) /\ k = Len(s) + (k - Len(s))
        BY <1>2, <2>1, <3>1
      <4>. QED
        BY <4>1
    <3>. QED
      BY <3>1
  <2>5. \A k \in 1 .. Len(t) : Len(s) + k \in 1 .. Len(s) + Len(t)
    BY <1>2, <2>1
  <2>6. \A k \in 1 .. Len(s) : k \in 1 .. Len(s) + Len(t)
    BY <1>2, <2>1
  <2>7. ToSet(t) = {t[k] : k \in 1 .. Len(t)} /\ ToSet(s \o t) = {(s \o t)[k] : k \in 1 .. Len(s) + Len(t)}
    BY <2>1 DEF ToSet
  <2>8. ASSUME NEW z PROVE z \in ToSet(s \o t) <=> z \in ToSet(s) \/ z \in ToSet(t)
    <3>1. ASSUME z \in ToSet(s \o t) PROVE z \in ToSet(s) \/ z \in ToSet(t)
      <4>1. PICK k \in 1 .. Len(s) + Len(t) : z = (s \o t)[k]
        BY <2>7, <3>1
      <4>. QED
        BY <1>2, <2>2, <2>3, <2>4, <2>7, <4>1
    <3>2. ASSUME z \in ToSet(s) PROVE z \in ToSet(s \o t)
      BY <1>2, <2>2, <2>6, <2>7, <3>2
    <3>3. ASSUME z \in ToSet(t) PROVE z \in ToSet(s \o t)
      <4>1. PICK k \in 1 .. Len(t) : z = t[k]
        BY <2>7, <3>3
      <4>. QED
        BY <2>3, <2>5, <2>7, <4>1
    <3>. QED
      BY <3>1, <3>2, <3>3
  <2>. QED
    BY <2>8
<1>5. ToSet(s) \subseteq X
  BY <1>2
<1>. QED
  BY <1>1, <1>3, <1>4, <1>5

\* Sequences without repetition that grow.
LEMMA LongerInjective ==
    ASSUME NEW X, NEW s \in Seq(X)
    PROVE  /\ IsInjective(<<>>)
           /\ \A x \in X : IsInjective(Append(s, x)) <=> IsInjective(s) /\ x \notin ToSet(s)
           /\ \A t \in Seq(X) : IsInjective(s) /\ IsInjective(t) /\ ToSet(s) \cap ToSet(t) = {}
                  => IsInjective(s \o t)
<1>1. IsInjective(<<>>)
  BY DEF IsInjective
<1>2. Len(s) \in Nat /\ DOMAIN s = 1 .. Len(s) /\ ToSet(s) = {s[k] : k \in 1 .. Len(s)}
  BY DEF ToSet
<1>3. ASSUME NEW x \in X
      PROVE  IsInjective(Append(s, x)) <=> IsInjective(s) /\ x \notin ToSet(s)
  <2>1. DOMAIN Append(s, x) = 1 .. Len(s) + 1
    OBVIOUS
  <2>2. \A k \in 1 .. Len(s) : Append(s, x)[k] = s[k]
    OBVIOUS
  <2>3. Append(s, x)[Len(s) + 1] = x
    OBVIOUS
  <2>4. ASSUME IsInjective(Append(s, x)) PROVE IsInjective(s) /\ x \notin ToSet(s)
    <3>1. \A j, k \in 1 .. Len(s) + 1 : Append(s, x)[j] = Append(s, x)[k] => j = k
      BY <2>1, <2>4 DEF IsInjective
    <3>2. \A j, k \in 1 .. Len(s) : s[j] = s[k] => j = k
      BY <1>2, <2>2, <3>1
    <3>3. \A k \in 1 .. Len(s) : s[k] # x
      BY <1>2, <2>2, <2>3, <3>1
    <3>. QED
      BY <1>2, <3>2, <3>3 DEF IsInjective
  <2>5. ASSUME IsInjective(s), x \notin ToSet(s) PROVE IsInjective(Append(s, x))
    <3>1. \A j, k \in 1 .. Len(s) : s[j] = s[k] => j = k
      BY <1>2, <2>5 DEF IsInjective
    <3>2. \A k \in 1 .. Len(s) : s[k] # x
      BY <1>2, <2>5
    <3>3. \A k \in 1 .. Len(s) + 1 : k \in 1 .. Len(s) \/ k = Len(s) + 1
      BY <1>2
    <3>4. \A j, k \in 1 .. Len(s) + 1 : Append(s, x)[j] = Append(s, x)[k] => j = k
      BY <2>2, <2>3, <3>1, <3>2, <3>3
    <3>. QED
      BY <2>1, <3>4 DEF IsInjective
  <2>. QED
    BY <2>4, <2>5
<1>4. ASSUME NEW t \in Seq(X), IsInjective(s), IsInjective(t), ToSet(s) \cap ToSet(t) = {}
      PROVE  IsInjective(s \o t)
  <2>1. DOMAIN (s \o t) = 1 .. Len(s) + Len(t) /\ Len(t) \in Nat /\ DOMAIN t = 1 .. Len(t)
    OBVIOUS
  <2>2. \A k \in 1 .. Len(s) : (s \o t)[k] = s[k] /\ (s \o t)[k] \in ToSet(s)
    BY <1>2, ConcatProperties
  <2>3. ASSUME NEW k \in 1 .. Len(s) + Len(t), k \notin 1 .. Len(s)
        PROVE  /\ k - Len(s) \in 1 .. Len(t) /\ (s \o t)[k] = t[k - Len(s)]
               /\ (s \o t)[k] \in ToSet(t)
    <3>1. k - Len(s) \in 1 .. Len(t) /\ ~(k <= Len(s))
      BY <1>2, <2>1, <2>3
    <3>2. (s \o t)[k] = t[k - Len(s)]
      BY <3>1, ConcatProperties
    <3>. QED
      BY <2>1, <3>1, <3>2 DEF ToSet
  <2>4. ASSUME NEW j \in 1 .. Len(s) + Len(t), NEW k \in 1 .. Len(s) + Len(t),
               (s \o t)[j] = (s \o t)[k]
        PROVE  j = k
    <3>1. CASE j \in 1 .. Len(s) /\ k \in 1 .. Len(s)
      BY <1>2, <1>4, <2>2, <2>4, <3>1 DEF IsInjective
    <3>2. CASE j \notin 1 .. Len(s) /\ k \notin 1 .. Len(s)
      <4>1. t[j - Len(s)] = t[k - Len(s)] /\ j - Len(s) \in DOMAIN t /\ k - Len(s) \in DOMAIN t
        BY <2>1, <2>3, <2>4, <3>2
      <4>2. j - Len(s) = k - Len(s)
        BY <1>4, <4>1 DEF IsInjective
      <4>. QED
        BY <1>2, <4>2
    <3>3. CASE (j \in 1 .. Len(s)) # (k \in 1 .. Len(s))
      BY <1>4, <2>2, <2>3, <2>4, <3>3
    <3>. QED
      BY <3>1, <3>2, <3>3
  <2>. QED
    BY <2>1, <2>4 DEF IsInjective
<1>. QED
  BY <1>1, <1>3, <1>4

\* Longer by one behind a concatenation.
LEMMA ConcatSnoc ==
    ASSUME NEW X, NEW s \in Seq(X), NEW t \in Seq(X), NEW x \in X
    PROVE  s \o Append(t, x) = Append(s \o t, x)
<1>1. Append(t, x) = t \o <<x>> /\ <<x>> \in Seq(X) /\ s \o t \in Seq(X)
  BY AppendIsConcat, ConcatProperties
<1>2. Append(s \o t, x) = (s \o t) \o <<x>>
  BY <1>1, AppendIsConcat
<1>3. (s \o t) \o <<x>> = s \o (t \o <<x>>)
  BY <1>1, ConcatAssociative
<1>. QED
  BY <1>1, <1>2, <1>3

\* A sequence over its own members.
LEMMA SeqOfSet == ASSUME NEW X, NEW s \in Seq(X) PROVE s \in Seq(ToSet(s))
<1>1. Len(s) \in Nat /\ DOMAIN s = 1 .. Len(s) /\ s = [k \in 1 .. Len(s) |-> s[k]]
  OBVIOUS
<1>2. \A k \in 1 .. Len(s) : s[k] \in ToSet(s)
  BY <1>1 DEF ToSet
<1>3. s \in [1 .. Len(s) -> ToSet(s)]
  BY <1>1, <1>2
<1>. QED
  BY <1>1, <1>3, SeqDef

\* A sequence without repetition is as long as its set is large.
LEMMA LenIsSize ==
    ASSUME NEW X, NEW s \in Seq(X), IsInjective(s)
    PROVE  IsFiniteSet(ToSet(s)) /\ Cardinality(ToSet(s)) = Len(s)
<1> DEFINE T == {t \in Seq(X) : IsInjective(t) => IsFiniteSet(ToSet(t)) /\ Cardinality(ToSet(t)) = Len(t)}
<1>1. <<>> \in T
  <2>1. ToSet(<<>>) = {} /\ Len(<<>>) = 0 /\ <<>> \in Seq(X)
    BY DEF ToSet
  <2>. QED
    BY <2>1, FS_EmptySet
<1>2. ASSUME NEW t \in T, NEW x \in X PROVE Append(t, x) \in T
  <2>1. t \in Seq(X)
    OBVIOUS
  <2>2. /\ Append(t, x) \in Seq(X) /\ Len(Append(t, x)) = Len(t) + 1
        /\ IsInjective(Append(t, x)) <=> IsInjective(t) /\ x \notin ToSet(t)
        /\ ToSet(Append(t, x)) = ToSet(t) \cup {x}
    BY <2>1, LongerInjective, SetOfLonger
  <2>3. ASSUME IsInjective(Append(t, x))
        PROVE  IsFiniteSet(ToSet(Append(t, x))) /\ Cardinality(ToSet(Append(t, x))) = Len(Append(t, x))
    <3>1. IsFiniteSet(ToSet(t)) /\ Cardinality(ToSet(t)) = Len(t) /\ x \notin ToSet(t)
      BY <2>2, <2>3
    <3>2. IsFiniteSet(ToSet(t) \cup {x}) /\ Cardinality(ToSet(t) \cup {x}) = Cardinality(ToSet(t)) + 1
      BY <3>1, FS_AddElement
    <3>. QED
      BY <2>2, <3>1, <3>2
  <2>. QED
    BY <2>2, <2>3
<1>3. T \in SUBSET Seq(X)
  OBVIOUS
<1>. HIDE DEF T
<1>4. s \in T
  BY <1>1, <1>2, <1>3, SeqSets
<1>. QED
  BY <1>4 DEF T

\* Z has what following G from i leads to, as far as it is known where R's members lead.
Follows(G, R, i, Z) == \A z \in ({i} \cup Z) \cap R : G[z] \in Z

\* up's rounds follow G from i, one step in each.
Rounds(up, G, R, i) ==
    /\ up[0] = {}
    /\ \A k \in Nat : \A x : x \in up[k + 1] <=>
           x \in up[k] \/ \E j \in ({i} \cup up[k]) \cap R : x = G[j]

\* A closure of as many rounds as there are members to follow is closed, and the
\* least that is.
LEMMA LeastClosure ==
    ASSUME NEW R, IsFiniteSet(R), NEW n \in Nat, Cardinality(R) <= n, NEW G, NEW i, NEW up,
           Rounds(up, G, R, i)
    PROVE  /\ Follows(G, R, i, up[n])
           /\ \A Z : Follows(G, R, i, Z) => up[n] \subseteq Z
<1> DEFINE Y == {G[j] : j \in R}
           More(s) == s \cup {G[j] : j \in ({i} \cup s) \cap R}
<1>1. IsFiniteSet(Y) /\ Cardinality(Y) <= n /\ Cardinality(Y) \in Nat
  <2> DEFINE h == [j \in R |-> G[j]]
  <2>1. h \in Surjection(R, Y)
    BY DEF Surjection
  <2>. HIDE DEF h, Y
  <2>2. IsFiniteSet(Y) /\ Cardinality(Y) <= Cardinality(R)
    BY <2>1, FS_Surjection
  <2>3. Cardinality(R) \in Nat /\ Cardinality(Y) \in Nat
    BY <2>2, FS_CardinalityType
  <2>. QED
    BY <2>2, <2>3
<1>4. up[0] = {} /\ \A k \in Nat : up[k + 1] = More(up[k])
  BY DEF Rounds
\* What is not closed grows.
<1>5. n \in {d \in Nat : up[d] \in SUBSET Y /\ (More(up[d]) = up[d] \/ Cardinality(up[d]) >= d)}
  <2> DEFINE T == {d \in Nat : up[d] \in SUBSET Y /\ (More(up[d]) = up[d] \/ Cardinality(up[d]) >= d)}
  <2>1. 0 \in T
    <3>1. 0 >= 0 /\ Cardinality({}) = 0
      BY FS_EmptySet
    <3>. QED
      BY <1>4, <3>1
  <2>2. ASSUME NEW d \in T PROVE d + 1 \in T
    <3>1. up[d + 1] = More(up[d]) /\ up[d] \in SUBSET Y
      BY <1>4
    <3>2. up[d + 1] \in SUBSET Y
      BY <3>1
    <3>3. CASE More(up[d]) = up[d]
      BY <3>1, <3>2, <3>3
    <3>4. CASE More(up[d]) # up[d]
      <4>1. Cardinality(up[d]) >= d
        BY <3>4
      <4>2. up[d] \subseteq up[d + 1] /\ up[d] # up[d + 1] /\ IsFiniteSet(up[d + 1])
        BY <1>1, <3>1, <3>2, <3>4, FS_Subset
      <4>3. IsFiniteSet(up[d]) /\ Cardinality(up[d]) < Cardinality(up[d + 1])
        <5>1. /\ IsFiniteSet(up[d]) /\ Cardinality(up[d]) <= Cardinality(up[d + 1])
              /\ Cardinality(up[d]) # Cardinality(up[d + 1])
          BY <4>2, FS_Subset
        <5>2. Cardinality(up[d]) \in Nat /\ Cardinality(up[d + 1]) \in Nat
          BY <4>2, <5>1, FS_CardinalityType
        <5>. QED
          BY <5>1, <5>2
      <4>4. Cardinality(up[d]) \in Nat /\ Cardinality(up[d + 1]) \in Nat
        BY <4>2, <4>3, FS_CardinalityType
      <4>5. Cardinality(up[d + 1]) >= d + 1
        BY <4>1, <4>3, <4>4
      <4>. QED
        BY <3>2, <4>5
    <3>. QED
      BY <3>3, <3>4
  <2>3. T \in SUBSET Nat
    OBVIOUS
  <2>. HIDE DEF T
  <2>4. T = Nat
    BY <2>1, <2>2, <2>3, NatSets
  <2>. QED
    BY <2>4 DEF T
<1>6. More(up[n]) = up[n]
  <2>. SUFFICES ASSUME Cardinality(up[n]) >= n PROVE More(up[n]) = up[n]
    BY <1>5
  <2>1. up[n] \in SUBSET Y
    BY <1>5
  <2>2. Cardinality(up[n]) <= Cardinality(Y) /\ Cardinality(up[n]) \in Nat
    BY <1>1, <2>1, FS_Subset, FS_CardinalityType
  <2>3. Cardinality(up[n]) = Cardinality(Y)
    BY <1>1, <2>2
  <2>4. up[n] = Y
    BY <1>1, <2>1, <2>3, FS_Subset
  <2>. QED
    BY <2>4
<1>7. Follows(G, R, i, up[n])
  BY <1>6 DEF Follows
<1>8. ASSUME NEW Z, Follows(G, R, i, Z)
      PROVE  up[n] \subseteq Z
  <2> DEFINE T == {d \in Nat : up[d] \subseteq Z}
  <2>1. 0 \in T
    BY <1>4
  <2>2. ASSUME NEW d \in T PROVE d + 1 \in T
    BY <1>4, <1>8 DEF Follows
  <2>3. T \in SUBSET Nat
    OBVIOUS
  <2>. HIDE DEF T
  <2>4. T = Nat
    BY <2>1, <2>2, <2>3, NatSets
  <2>. QED
    BY <2>4 DEF T
<1>. QED
  BY <1>7, <1>8

(***************************************************************************)
(* What Kept, Laid, AddedUp and Sorted compute.                            *)
(***************************************************************************)

\* The turns of Kept.
KeptBy(f, seq, S) ==
    /\ f[0] = <<>>
    /\ \A k \in 1 .. Len(seq) :
           f[k] = IF seq[k] \in S THEN Append(f[k - 1], seq[k]) ELSE f[k - 1]

\* Kept has its turns.
LEMMA KeptTurns ==
    ASSUME NEW X, NEW seq \in Seq(X), NEW S
    PROVE  \E f \in [0 .. Len(seq) -> Seq(X)] : KeptBy(f, seq, S) /\ Kept(seq, S) = f[Len(seq)]
<1> DEFINE n == Len(seq)
           A == Seq(X)
           Turn(k, s) == IF seq[k] \in S THEN Append(s, seq[k]) ELSE s
           turn == [k \in 1 .. n |-> [s \in A |-> Turn(k, s)]]
           Body(g) == [k \in 0 .. n |-> IF k = 0 THEN <<>> ELSE Turn(k, g[k - 1])]
           loop == CHOOSE g : g = Body(g)
<1>1. n \in Nat /\ \A k \in 1 .. n : seq[k] \in X
  OBVIOUS
<1>2. <<>> \in A /\ \A k \in 1 .. n : \A s \in A : Turn(k, s) \in A
  OBVIOUS
<1>3. Kept(seq, S) = loop[n]
  BY DEF Kept
<1>. HIDE DEF n, A, Turn
<1>4. turn \in [1 .. n -> [A -> A]] /\ \A k \in 1 .. n : \A s \in A : turn[k][s] = Turn(k, s)
  BY <1>2
<1>. HIDE DEF turn
<1>5. PICK g \in [0 .. n -> A] : Turns(g, n, <<>>, turn)
  <2>. HIDE DEF loop, Body
  <2>1. n \in Nat /\ <<>> \in A /\ turn \in [1 .. n -> [A -> A]]
    BY <1>1, <1>2, <1>4
  <2>. QED
    BY <2>1, TurnsExist
<1>6. g = Body(g)
  <2>1. ASSUME NEW k \in 1 .. n PROVE g[k] = Turn(k, g[k - 1])
    <3>1. k - 1 \in 0 .. n
      BY <1>1
    <3>. QED
      BY <1>4, <1>5, <3>1 DEF Turns
  <2>2. ASSUME NEW k \in 0 .. n PROVE g[k] = IF k = 0 THEN <<>> ELSE Turn(k, g[k - 1])
    <3>1. k = 0 \/ k \in 1 .. n
      BY <1>1
    <3>. QED
      BY <1>5, <2>1, <3>1 DEF Turns
  <2>. QED
    BY <1>5, <2>2
<1>7. loop = Body(loop)
  <2>. HIDE DEF Body
  <2>. QED
    BY <1>6
<1>8. DOMAIN loop = 0 .. n /\ loop[0] = <<>> /\ \A k \in 1 .. n : loop[k] = Turn(k, loop[k - 1])
  <2>. HIDE DEF loop
  <2>1. \A k \in 0 .. n : loop[k] = IF k = 0 THEN <<>> ELSE Turn(k, loop[k - 1])
    BY <1>7
  <2>2. DOMAIN loop = 0 .. n
    BY <1>7
  <2>3. loop[0] = <<>>
    BY <1>1, <2>1
  <2>4. ASSUME NEW k \in 1 .. n PROVE loop[k] = Turn(k, loop[k - 1])
    <3>1. k \in 0 .. n /\ k # 0
      BY <1>1
    <3>. QED
      BY <2>1, <3>1
  <2>. QED
    BY <2>2, <2>3, <2>4
<1>9. loop = [k \in 0 .. n |-> loop[k]]
  <2>. HIDE DEF loop
  <2>. QED
    BY <1>7
<1>. HIDE DEF loop
<1>10. \A k \in 0 .. n : loop[k] \in A
  BY <1>1, <1>2, <1>8, TurnsStay
<1>11. loop \in [0 .. n -> A]
  BY <1>9, <1>10
<1>12. KeptBy(loop, seq, S)
  BY <1>8 DEF KeptBy, Turn, n
<1>. QED
  BY <1>3, <1>11, <1>12 DEF n, A

\* One more.
LEMMA KeptEmpty ==
    ASSUME NEW X, NEW S
    PROVE  Kept(<<>>, S) = <<>>
<1>1. <<>> \in Seq(X) /\ Len(<<>>) = 0
  OBVIOUS
<1>2. PICK f \in [0 .. Len(<<>>) -> Seq(X)] :
          KeptBy(f, <<>>, S) /\ Kept(<<>>, S) = f[Len(<<>>)]
  BY <1>1, KeptTurns
<1>. QED
  BY <1>1, <1>2 DEF KeptBy

\* What is kept has the members' type.
LEMMA KeptIn ==
    ASSUME NEW X, NEW S, NEW s \in Seq(X)
    PROVE  Kept(s, S) \in Seq(X)
BY KeptTurns

\* Kept of one more.
LEMMA KeptLonger ==
    ASSUME NEW X, NEW S, NEW s \in Seq(X), NEW x \in X
    PROVE  Kept(Append(s, x), S) = IF x \in S THEN Append(Kept(s, S), x) ELSE Kept(s, S)
<1>1. PICK f \in [0 .. Len(s) -> Seq(X)] : KeptBy(f, s, S) /\ Kept(s, S) = f[Len(s)]
  BY KeptTurns
<1> DEFINE r == Append(s, x)
<1>2. /\ r \in Seq(X) /\ Len(s) \in Nat /\ Len(r) = Len(s) + 1
      /\ (\A k \in 1 .. Len(s) : r[k] = s[k]) /\ r[Len(r)] = x
  BY AppendProperties
<1>. HIDE DEF r
<1>3. PICK g \in [0 .. Len(r) -> Seq(X)] : KeptBy(g, r, S) /\ Kept(r, S) = g[Len(r)]
  BY <1>2, KeptTurns
<1>4. ASSUME NEW k \in 1 .. Len(s), f[k - 1] = g[k - 1] PROVE f[k] = g[k]
  <2>1. k \in 1 .. Len(r) /\ r[k] = s[k]
    BY <1>2
  <2>2. f[k] = IF s[k] \in S THEN Append(f[k - 1], s[k]) ELSE f[k - 1]
    BY <1>1 DEF KeptBy
  <2>3. g[k] = IF r[k] \in S THEN Append(g[k - 1], r[k]) ELSE g[k - 1]
    BY <1>3, <2>1 DEF KeptBy
  <2>. QED
    BY <1>4, <2>1, <2>2, <2>3
<1>5. f[0] = g[0]
  BY <1>1, <1>3 DEF KeptBy
<1>6. f[Len(s)] = g[Len(s)]
  <2>1. InStep(f, g, Len(s))
    BY <1>4, <1>5 DEF InStep
  <2>. QED
    BY <1>2, <2>1, TurnsAgree
<1>7. g[Len(r)] = IF x \in S THEN Append(g[Len(s)], x) ELSE g[Len(s)]
  <2>1. Len(r) \in 1 .. Len(r) /\ Len(r) - 1 = Len(s)
    BY <1>2
  <2>. QED
    BY <1>2, <1>3, <2>1 DEF KeptBy
<1>. QED
  BY <1>1, <1>3, <1>6, <1>7 DEF r

\* Kept has the members that are in S, and none twice.
LEMMA KeptMembers ==
    ASSUME NEW X, NEW S, NEW s \in Seq(X)
    PROVE  /\ Kept(s, S) \in Seq(X) /\ ToSet(Kept(s, S)) = ToSet(s) \cap S
           /\ IsInjective(s) => IsInjective(Kept(s, S))
<1> DEFINE T == {t \in Seq(X) : /\ ToSet(Kept(t, S)) = ToSet(t) \cap S
                                /\ IsInjective(t) => IsInjective(Kept(t, S))}
<1>1. <<>> \in T
  <2>1. <<>> \in Seq(X) /\ Kept(<<>>, S) = <<>>
    BY KeptEmpty
  <2>2. ToSet(<<>>) = {} /\ IsInjective(<<>>)
    BY <2>1, SetOfLonger, LongerInjective
  <2>3. PICK e : e = <<>>
    OBVIOUS
  <2>4. e \in Seq(X) /\ Kept(e, S) = e /\ ToSet(e) = {} /\ IsInjective(e)
    BY <2>1, <2>2, <2>3
  <2>5. e \in T
    BY <2>4
  <2>. HIDE DEF T
  <2>. QED
    BY <2>3, <2>5
<1>2. ASSUME NEW t \in T, NEW x \in X PROVE Append(t, x) \in T
  <2>0. t \in Seq(X)
    OBVIOUS
  <2>1. t \in Seq(X) /\ Append(t, x) \in Seq(X) /\ Kept(t, S) \in Seq(X)
    <3>. HIDE DEF T
    <3>. QED
      BY <2>0, KeptIn
  <2>2. ToSet(Append(t, x)) = ToSet(t) \cup {x} /\ ToSet(Append(Kept(t, S), x)) = ToSet(Kept(t, S)) \cup {x}
    BY <2>1, SetOfLonger
  <2>3. /\ IsInjective(Append(t, x)) <=> IsInjective(t) /\ x \notin ToSet(t)
        /\ IsInjective(Append(Kept(t, S), x)) <=> IsInjective(Kept(t, S)) /\ x \notin ToSet(Kept(t, S))
    BY <2>1, LongerInjective
  <2>4. Kept(Append(t, x), S) = IF x \in S THEN Append(Kept(t, S), x) ELSE Kept(t, S)
    <3>. HIDE DEF T
    <3>. QED
      BY <2>1, KeptLonger
  <2>5. ToSet(Kept(t, S)) = ToSet(t) \cap S /\ (IsInjective(t) => IsInjective(Kept(t, S)))
    OBVIOUS
  <2>6. CASE x \in S
    <3>1. Kept(Append(t, x), S) = Append(Kept(t, S), x)
      BY <2>4, <2>6
    <3>2. ToSet(Kept(Append(t, x), S)) = ToSet(Append(t, x)) \cap S
      BY <2>2, <2>5, <2>6, <3>1
    <3>3. IsInjective(Append(t, x)) => IsInjective(Kept(Append(t, x), S))
      BY <2>3, <2>5, <3>1
    <3>. QED
      BY <2>1, <3>2, <3>3
  <2>7. CASE x \notin S
    <3>1. Kept(Append(t, x), S) = Kept(t, S)
      BY <2>4, <2>7
    <3>2. ToSet(Kept(Append(t, x), S)) = ToSet(Append(t, x)) \cap S
      BY <2>2, <2>5, <2>7, <3>1
    <3>3. IsInjective(Append(t, x)) => IsInjective(Kept(Append(t, x), S))
      BY <2>3, <2>5, <3>1
    <3>. QED
      BY <2>1, <3>2, <3>3
  <2>. QED
    BY <2>6, <2>7
<1>3. T \in SUBSET Seq(X)
  OBVIOUS
<1>4. s \in T
  <2>. HIDE DEF T
  <2>. QED
    BY <1>1, <1>2, <1>3, SeqSets
<1>. QED
  BY <1>4, KeptIn

\* Kept of two sequences end to end.
LEMMA KeptConcat ==
    ASSUME NEW X, NEW S, NEW s \in Seq(X), NEW t \in Seq(X)
    PROVE  Kept(s \o t, S) = Kept(s, S) \o Kept(t, S)
<1> DEFINE T == {r \in Seq(X) : Kept(s \o r, S) = Kept(s, S) \o Kept(r, S)}
<1>0. Kept(s, S) \in Seq(X)
  BY KeptIn
<1>1. <<>> \in T
  <2>1. <<>> \in Seq(X) /\ Kept(<<>>, S) = <<>>
    BY KeptEmpty
  <2>2. s \o <<>> = s /\ Kept(s, S) \o <<>> = Kept(s, S)
    BY <1>0, ConcatEmptySeq, Zenon
  <2>3. PICK e : e = <<>>
    OBVIOUS
  <2>4. e \in Seq(X) /\ Kept(e, S) = e /\ s \o e = s /\ Kept(s, S) \o e = Kept(s, S)
    BY <2>1, <2>2, <2>3
  <2>5. e \in T
    BY <2>4
  <2>. HIDE DEF T
  <2>. QED
    BY <2>3, <2>5
<1>2. ASSUME NEW r \in T, NEW x \in X PROVE Append(r, x) \in T
  <2>1. r \in Seq(X) /\ Append(r, x) \in Seq(X) /\ Kept(r, S) \in Seq(X) /\ s \o r \in Seq(X)
    <3>1. r \in Seq(X)
      OBVIOUS
    <3>. HIDE DEF T
    <3>. QED
      BY <3>1, KeptIn, ConcatProperties
  <2>2. /\ Kept(Append(r, x), S) = IF x \in S THEN Append(Kept(r, S), x) ELSE Kept(r, S)
        /\ Kept(Append(s \o r, x), S) = IF x \in S THEN Append(Kept(s \o r, S), x) ELSE Kept(s \o r, S)
    <3>. HIDE DEF T
    <3>1. Kept(Append(r, x), S) = IF x \in S THEN Append(Kept(r, S), x) ELSE Kept(r, S)
      BY <2>1, KeptLonger
    <3>2. Kept(Append(s \o r, x), S) = IF x \in S THEN Append(Kept(s \o r, S), x) ELSE Kept(s \o r, S)
      <4>1. PICK q : q = s \o r
        OBVIOUS
      <4>2. q \in Seq(X)
        BY <2>1, <4>1
      <4>3. Kept(Append(q, x), S) = IF x \in S THEN Append(Kept(q, S), x) ELSE Kept(q, S)
        BY <4>2, KeptLonger
      <4>. QED
        BY <4>1, <4>3
    <3>. QED
      BY <3>1, <3>2
  <2>3. s \o Append(r, x) = Append(s \o r, x)
    BY <2>1, ConcatSnoc
  <2>4. Kept(s, S) \o Append(Kept(r, S), x) = Append(Kept(s, S) \o Kept(r, S), x)
    BY <1>0, <2>1, ConcatSnoc
  <2>5. Kept(s \o r, S) = Kept(s, S) \o Kept(r, S)
    OBVIOUS
  <2>6. Kept(s \o Append(r, x), S) = Kept(s, S) \o Kept(Append(r, x), S)
    BY <2>2, <2>3, <2>4, <2>5
  <2>. QED
    BY <2>1, <2>6
<1>3. T \in SUBSET Seq(X)
  OBVIOUS
<1>4. t \in T
  <2>. HIDE DEF T
  <2>. QED
    BY <1>1, <1>2, <1>3, SeqSets
<1>. QED
  BY <1>4

\* All is kept, or nothing.
LEMMA KeptAllOrNone ==
    ASSUME NEW X, NEW S, NEW s \in Seq(X)
    PROVE  /\ ToSet(s) \subseteq S => Kept(s, S) = s
           /\ ToSet(s) \cap S = {} => Kept(s, S) = <<>>
<1> DEFINE T == {t \in Seq(X) : /\ ToSet(t) \subseteq S => Kept(t, S) = t
                                /\ ToSet(t) \cap S = {} => Kept(t, S) = <<>>}
<1>1. <<>> \in T
  <2>1. <<>> \in Seq(X) /\ Kept(<<>>, S) = <<>>
    BY KeptEmpty
  <2>2. PICK e : e = <<>>
    OBVIOUS
  <2>3. e \in Seq(X) /\ Kept(e, S) = e
    BY <2>1, <2>2
  <2>4. e \in T
    BY <2>2, <2>3
  <2>. HIDE DEF T
  <2>. QED
    BY <2>2, <2>4
<1>2. ASSUME NEW t \in T, NEW x \in X PROVE Append(t, x) \in T
  <2>1. t \in Seq(X) /\ Append(t, x) \in Seq(X)
    OBVIOUS
  <2>2. ToSet(Append(t, x)) = ToSet(t) \cup {x}
    BY <2>1, SetOfLonger
  <2>3. Kept(Append(t, x), S) = IF x \in S THEN Append(Kept(t, S), x) ELSE Kept(t, S)
    <3>. HIDE DEF T
    <3>. QED
      BY <2>1, KeptLonger
  <2>4. /\ ToSet(t) \subseteq S => Kept(t, S) = t
        /\ ToSet(t) \cap S = {} => Kept(t, S) = <<>>
    OBVIOUS
  <2>5. /\ ToSet(Append(t, x)) \subseteq S => Kept(Append(t, x), S) = Append(t, x)
        /\ ToSet(Append(t, x)) \cap S = {} => Kept(Append(t, x), S) = <<>>
    BY <2>2, <2>3, <2>4
  <2>. QED
    BY <2>1, <2>5
<1>3. T \in SUBSET Seq(X)
  OBVIOUS
<1>4. s \in T
  <2>. HIDE DEF T
  <2>. QED
    BY <1>1, <1>2, <1>3, SeqSets
<1>. QED
  BY <1>4

\* The turns of Laid.
LaidBy(f, seq, rowsOf) ==
    /\ f[0] = <<>>
    /\ \A k \in 1 .. Len(seq) : f[k] = f[k - 1] \o <<seq[k]>> \o rowsOf[seq[k]]

\* Laid has its turns.
LEMMA LaidTurns ==
    ASSUME NEW X, NEW seq \in Seq(X), NEW rowsOf, \A x \in X : rowsOf[x] \in Seq(X)
    PROVE  \E f \in [0 .. Len(seq) -> Seq(X)] : LaidBy(f, seq, rowsOf) /\ Laid(seq, rowsOf) = f[Len(seq)]
<1> DEFINE n == Len(seq)
           A == Seq(X)
           Turn(k, s) == s \o <<seq[k]>> \o rowsOf[seq[k]]
           turn == [k \in 1 .. n |-> [s \in A |-> Turn(k, s)]]
           Body(g) == [k \in 0 .. n |-> IF k = 0 THEN <<>> ELSE Turn(k, g[k - 1])]
           loop == CHOOSE g : g = Body(g)
<1>1. n \in Nat /\ \A k \in 1 .. n : seq[k] \in X
  OBVIOUS
<1>2. <<>> \in A /\ \A k \in 1 .. n : \A s \in A : Turn(k, s) \in A
  BY <1>1
<1>3. Laid(seq, rowsOf) = loop[n]
  BY DEF Laid
<1>. HIDE DEF n, A, Turn
<1>4. turn \in [1 .. n -> [A -> A]] /\ \A k \in 1 .. n : \A s \in A : turn[k][s] = Turn(k, s)
  BY <1>2
<1>. HIDE DEF turn
<1>5. PICK g \in [0 .. n -> A] : Turns(g, n, <<>>, turn)
  <2>. HIDE DEF loop, Body
  <2>1. n \in Nat /\ <<>> \in A /\ turn \in [1 .. n -> [A -> A]]
    BY <1>1, <1>2, <1>4
  <2>. QED
    BY <2>1, TurnsExist
<1>6. g = Body(g)
  <2>1. ASSUME NEW k \in 1 .. n PROVE g[k] = Turn(k, g[k - 1])
    <3>1. k - 1 \in 0 .. n
      BY <1>1
    <3>. QED
      BY <1>4, <1>5, <3>1 DEF Turns
  <2>2. ASSUME NEW k \in 0 .. n PROVE g[k] = IF k = 0 THEN <<>> ELSE Turn(k, g[k - 1])
    <3>1. k = 0 \/ k \in 1 .. n
      BY <1>1
    <3>. QED
      BY <1>5, <2>1, <3>1 DEF Turns
  <2>. QED
    BY <1>5, <2>2
<1>7. loop = Body(loop)
  <2>. HIDE DEF Body
  <2>. QED
    BY <1>6
<1>8. DOMAIN loop = 0 .. n /\ loop[0] = <<>> /\ \A k \in 1 .. n : loop[k] = Turn(k, loop[k - 1])
  <2>. HIDE DEF loop
  <2>1. \A k \in 0 .. n : loop[k] = IF k = 0 THEN <<>> ELSE Turn(k, loop[k - 1])
    BY <1>7
  <2>2. DOMAIN loop = 0 .. n
    BY <1>7
  <2>3. loop[0] = <<>>
    BY <1>1, <2>1
  <2>4. ASSUME NEW k \in 1 .. n PROVE loop[k] = Turn(k, loop[k - 1])
    <3>1. k \in 0 .. n /\ k # 0
      BY <1>1
    <3>. QED
      BY <2>1, <3>1
  <2>. QED
    BY <2>2, <2>3, <2>4
<1>9. loop = [k \in 0 .. n |-> loop[k]]
  <2>. HIDE DEF loop
  <2>. QED
    BY <1>7
<1>. HIDE DEF loop
<1>10. \A k \in 0 .. n : loop[k] \in A
  <2>1. \A k \in 1 .. n : loop[k - 1] \in A => loop[k] \in A
    BY <1>2, <1>8
  <2>2. loop[0] \in A
    BY <1>2, <1>8
  <2>. QED
    BY <1>1, <2>1, <2>2, TurnsStay
<1>11. loop \in [0 .. n -> A]
  BY <1>9, <1>10
<1>12. LaidBy(loop, seq, rowsOf)
  BY <1>8 DEF LaidBy, Turn, n
<1>. QED
  BY <1>3, <1>11, <1>12 DEF n, A

\* Laid of nothing.
LEMMA LaidEmpty ==
    ASSUME NEW X, NEW rowsOf, \A x \in X : rowsOf[x] \in Seq(X)
    PROVE  Laid(<<>>, rowsOf) = <<>>
<1>1. <<>> \in Seq(X) /\ Len(<<>>) = 0
  OBVIOUS
<1>2. PICK f \in [0 .. Len(<<>>) -> Seq(X)] :
          LaidBy(f, <<>>, rowsOf) /\ Laid(<<>>, rowsOf) = f[Len(<<>>)]
  BY <1>1, LaidTurns
<1>. QED
  BY <1>1, <1>2 DEF LaidBy

\* What is laid has the members' type.
LEMMA LaidIn ==
    ASSUME NEW X, NEW rowsOf, \A x \in X : rowsOf[x] \in Seq(X), NEW s \in Seq(X)
    PROVE  Laid(s, rowsOf) \in Seq(X)
<1>1. PICK f \in [0 .. Len(s) -> Seq(X)] : LaidBy(f, s, rowsOf) /\ Laid(s, rowsOf) = f[Len(s)]
  BY LaidTurns
<1>. QED
  BY <1>1

\* Laid of one more.
LEMMA LaidLonger ==
    ASSUME NEW X, NEW rowsOf,
           \A e \in X : rowsOf[e] \in Seq(X), NEW s \in Seq(X), NEW x \in X
    PROVE  Laid(Append(s, x), rowsOf) = Laid(s, rowsOf) \o <<x>> \o rowsOf[x]
<1>1. PICK f \in [0 .. Len(s) -> Seq(X)] : LaidBy(f, s, rowsOf) /\ Laid(s, rowsOf) = f[Len(s)]
  BY LaidTurns
<1> DEFINE r == Append(s, x)
<1>2. /\ r \in Seq(X) /\ Len(s) \in Nat /\ Len(r) = Len(s) + 1
      /\ (\A k \in 1 .. Len(s) : r[k] = s[k]) /\ r[Len(r)] = x
  BY AppendProperties
<1>. HIDE DEF r
<1>3. PICK g \in [0 .. Len(r) -> Seq(X)] : LaidBy(g, r, rowsOf) /\ Laid(r, rowsOf) = g[Len(r)]
  BY <1>2, LaidTurns
<1>4. ASSUME NEW k \in 1 .. Len(s), f[k - 1] = g[k - 1] PROVE f[k] = g[k]
  <2>1. k \in 1 .. Len(r) /\ r[k] = s[k]
    BY <1>2
  <2>2. f[k] = f[k - 1] \o <<s[k]>> \o rowsOf[s[k]]
    BY <1>1 DEF LaidBy
  <2>3. g[k] = g[k - 1] \o <<r[k]>> \o rowsOf[r[k]]
    BY <1>3, <2>1 DEF LaidBy
  <2>. QED
    BY <1>4, <2>1, <2>2, <2>3
<1>5. f[0] = g[0]
  BY <1>1, <1>3 DEF LaidBy
<1>6. f[Len(s)] = g[Len(s)]
  <2>1. InStep(f, g, Len(s))
    BY <1>4, <1>5 DEF InStep
  <2>. QED
    BY <1>2, <2>1, TurnsAgree
<1>7. g[Len(r)] = g[Len(s)] \o <<x>> \o rowsOf[x]
  <2>1. Len(r) \in 1 .. Len(r) /\ Len(r) - 1 = Len(s)
    BY <1>2
  <2>. QED
    BY <1>2, <1>3, <2>1 DEF LaidBy
<1>. QED
  BY <1>1, <1>3, <1>6, <1>7 DEF r

\* The turns of AddedUp.
AddedUpBy(f, seq, weight) ==
    /\ f[0] = 0
    /\ \A k \in 1 .. Len(seq) : f[k] = f[k - 1] + weight[seq[k]]

\* AddedUp has its turns.
LEMMA AddedUpTurns ==
    ASSUME NEW X, NEW seq \in Seq(X), NEW weight, \A x \in X : weight[x] \in Nat
    PROVE  \E f \in [0 .. Len(seq) -> Nat] : AddedUpBy(f, seq, weight) /\ AddedUp(seq, weight) = f[Len(seq)]
<1> DEFINE n == Len(seq)
           A == Nat
           Turn(k, s) == s + weight[seq[k]]
           turn == [k \in 1 .. n |-> [s \in A |-> Turn(k, s)]]
           Body(g) == [k \in 0 .. n |-> IF k = 0 THEN 0 ELSE Turn(k, g[k - 1])]
           loop == CHOOSE g : g = Body(g)
<1>1. n \in Nat /\ \A k \in 1 .. n : seq[k] \in X
  OBVIOUS
<1>2. 0 \in A /\ \A k \in 1 .. n : \A s \in A : Turn(k, s) \in A
  BY <1>1
<1>3. AddedUp(seq, weight) = loop[n]
  BY DEF AddedUp
<1>. HIDE DEF n, A, Turn
<1>4. turn \in [1 .. n -> [A -> A]] /\ \A k \in 1 .. n : \A s \in A : turn[k][s] = Turn(k, s)
  BY <1>2
<1>. HIDE DEF turn
<1>5. PICK g \in [0 .. n -> A] : Turns(g, n, 0, turn)
  <2>. HIDE DEF loop, Body
  <2>1. n \in Nat /\ 0 \in A /\ turn \in [1 .. n -> [A -> A]]
    BY <1>1, <1>2, <1>4
  <2>. QED
    BY <2>1, TurnsExist
<1>6. g = Body(g)
  <2>1. ASSUME NEW k \in 1 .. n PROVE g[k] = Turn(k, g[k - 1])
    <3>1. k - 1 \in 0 .. n
      BY <1>1
    <3>. QED
      BY <1>4, <1>5, <3>1 DEF Turns
  <2>2. ASSUME NEW k \in 0 .. n PROVE g[k] = IF k = 0 THEN 0 ELSE Turn(k, g[k - 1])
    <3>1. k = 0 \/ k \in 1 .. n
      BY <1>1
    <3>. QED
      BY <1>5, <2>1, <3>1 DEF Turns
  <2>. QED
    BY <1>5, <2>2
<1>7. loop = Body(loop)
  <2>. HIDE DEF Body
  <2>. QED
    BY <1>6
<1>8. DOMAIN loop = 0 .. n /\ loop[0] = 0 /\ \A k \in 1 .. n : loop[k] = Turn(k, loop[k - 1])
  <2>. HIDE DEF loop
  <2>1. \A k \in 0 .. n : loop[k] = IF k = 0 THEN 0 ELSE Turn(k, loop[k - 1])
    BY <1>7
  <2>2. DOMAIN loop = 0 .. n
    BY <1>7
  <2>3. loop[0] = 0
    BY <1>1, <2>1
  <2>4. ASSUME NEW k \in 1 .. n PROVE loop[k] = Turn(k, loop[k - 1])
    <3>1. k \in 0 .. n /\ k # 0
      BY <1>1
    <3>. QED
      BY <2>1, <3>1
  <2>. QED
    BY <2>2, <2>3, <2>4
<1>9. loop = [k \in 0 .. n |-> loop[k]]
  <2>. HIDE DEF loop
  <2>. QED
    BY <1>7
<1>. HIDE DEF loop
<1>10. \A k \in 0 .. n : loop[k] \in A
  <2>1. \A k \in 1 .. n : loop[k - 1] \in A => loop[k] \in A
    BY <1>2, <1>8
  <2>2. loop[0] \in A
    BY <1>2, <1>8
  <2>. QED
    BY <1>1, <2>1, <2>2, TurnsStay
<1>11. loop \in [0 .. n -> A]
  BY <1>9, <1>10
<1>12. AddedUpBy(loop, seq, weight)
  BY <1>8 DEF AddedUpBy, Turn, n
<1>. QED
  BY <1>3, <1>11, <1>12 DEF n, A

\* The sum of nothing.
LEMMA AddedUpEmpty ==
    ASSUME NEW X, NEW weight, \A x \in X : weight[x] \in Nat
    PROVE  AddedUp(<<>>, weight) = 0
<1>1. <<>> \in Seq(X) /\ Len(<<>>) = 0
  OBVIOUS
<1>2. PICK f \in [0 .. Len(<<>>) -> Nat] :
          AddedUpBy(f, <<>>, weight) /\ AddedUp(<<>>, weight) = f[Len(<<>>)]
  BY <1>1, AddedUpTurns
<1>. QED
  BY <1>1, <1>2 DEF AddedUpBy

\* A sum of naturals is one.
LEMMA AddedUpIn ==
    ASSUME NEW X, NEW weight, \A x \in X : weight[x] \in Nat, NEW s \in Seq(X)
    PROVE  AddedUp(s, weight) \in Nat
<1>1. PICK f \in [0 .. Len(s) -> Nat] : AddedUpBy(f, s, weight) /\ AddedUp(s, weight) = f[Len(s)]
  BY AddedUpTurns
<1>. QED
  BY <1>1

\* The sum with one more.
LEMMA AddedUpLonger ==
    ASSUME NEW X, NEW weight,
           \A e \in X : weight[e] \in Nat, NEW s \in Seq(X), NEW x \in X
    PROVE  AddedUp(Append(s, x), weight) = AddedUp(s, weight) + weight[x]
<1>1. PICK f \in [0 .. Len(s) -> Nat] : AddedUpBy(f, s, weight) /\ AddedUp(s, weight) = f[Len(s)]
  BY AddedUpTurns
<1> DEFINE r == Append(s, x)
<1>2. /\ r \in Seq(X) /\ Len(s) \in Nat /\ Len(r) = Len(s) + 1
      /\ (\A k \in 1 .. Len(s) : r[k] = s[k]) /\ r[Len(r)] = x
  BY AppendProperties
<1>. HIDE DEF r
<1>3. PICK g \in [0 .. Len(r) -> Nat] : AddedUpBy(g, r, weight) /\ AddedUp(r, weight) = g[Len(r)]
  BY <1>2, AddedUpTurns
<1>4. ASSUME NEW k \in 1 .. Len(s), f[k - 1] = g[k - 1] PROVE f[k] = g[k]
  <2>1. k \in 1 .. Len(r) /\ r[k] = s[k]
    BY <1>2
  <2>2. f[k] = f[k - 1] + weight[s[k]]
    BY <1>1 DEF AddedUpBy
  <2>3. g[k] = g[k - 1] + weight[r[k]]
    BY <1>3, <2>1 DEF AddedUpBy
  <2>. QED
    BY <1>4, <2>1, <2>2, <2>3
<1>5. f[0] = g[0]
  BY <1>1, <1>3 DEF AddedUpBy
<1>6. f[Len(s)] = g[Len(s)]
  <2>1. InStep(f, g, Len(s))
    BY <1>4, <1>5 DEF InStep
  <2>. QED
    BY <1>2, <2>1, TurnsAgree
<1>7. g[Len(r)] = g[Len(s)] + weight[x]
  <2>1. Len(r) \in 1 .. Len(r) /\ Len(r) - 1 = Len(s)
    BY <1>2
  <2>. QED
    BY <1>2, <1>3, <2>1 DEF AddedUpBy
<1>. QED
  BY <1>1, <1>3, <1>6, <1>7 DEF r

\* Both weights come to the same.
Agree(s, v, w) == AddedUp(s, v) = AddedUp(s, w)

\* Every weight is a natural.
Natural(w, X) == \A x \in X : w[x] \in Nat

\* The two weights agree on S.
Alike(v, w, S) == \A x \in S : v[x] = w[x]

\* Weights that agree where they are added up.
LEMMA AddedUpAlike ==
    ASSUME NEW X, NEW w, Natural(w, X), NEW v, Natural(v, X), NEW s \in Seq(X), Alike(v, w, ToSet(s))
    PROVE  Agree(s, v, w)
<1> DEFINE P(t) == (\A x \in ToSet(t) : v[x] = w[x]) => AddedUp(t, v) = AddedUp(t, w)
           T == {t \in Seq(X) : P(t)}
<1>0. (\A x \in X : w[x] \in Nat) /\ (\A x \in X : v[x] \in Nat) /\ \A x \in ToSet(s) : v[x] = w[x]
  BY DEF Natural, Alike
<1>1. <<>> \in Seq(X) /\ P(<<>>)
  <2>1. AddedUp(<<>>, v) = 0 /\ AddedUp(<<>>, w) = 0
    BY <1>0, AddedUpEmpty
  <2>. QED
    BY <2>1
<1>2. ASSUME NEW t \in Seq(X), NEW x \in X, P(t) PROVE P(Append(t, x))
  <2>1. AddedUp(Append(t, x), v) = AddedUp(t, v) + v[x]
    BY <1>0, AddedUpLonger
  <2>2. AddedUp(Append(t, x), w) = AddedUp(t, w) + w[x]
    BY <1>0, AddedUpLonger
  <2>3. ToSet(Append(t, x)) = ToSet(t) \cup {x}
    BY SetOfLonger
  <2>. QED
    BY <1>2, <2>1, <2>2, <2>3
<1>. HIDE DEF P
<1>3. T \in SUBSET Seq(X) /\ <<>> \in T /\ \A t \in T : \A x \in X : Append(t, x) \in T
  BY <1>1, <1>2
<1>. HIDE DEF T
<1>4. s \in T
  BY <1>3, SeqSets
<1>. QED
  BY <1>0, <1>4 DEF T, P, Agree

\* Every part of S has a first member.
Ranked(S, before) ==
    \A Z \in SUBSET S : Z # {} => \E i \in Z : \A j \in Z \ {i} : <<i, j>> \in before

\* The turns of Sorted.
SortedBy(f, S, before) ==
    /\ f[0] = <<>>
    /\ \A k \in 1 .. Cardinality(S) : f[k] = Append(f[k - 1], FirstOf(S \ ToSet(f[k - 1]), before))

\* The first of a set is in it.
LEMMA FirstIsIn ==
    ASSUME NEW S, NEW before, Ranked(S, before), NEW Z \in SUBSET S, Z # {}
    PROVE  FirstOf(Z, before) \in Z
<1>1. \E i \in Z : \A j \in Z \ {i} : <<i, j>> \in before
  BY DEF Ranked
<1>. QED
  BY <1>1 DEF FirstOf

\* Sorted has its turns.
LEMMA SortedTurns ==
    ASSUME NEW S, IsFiniteSet(S), NEW before, Ranked(S, before)
    PROVE  \E f : SortedBy(f, S, before) /\ Sorted(S, before) = f[Cardinality(S)]
<1>n. PICK n, none : n = Cardinality(S) /\ none = FirstOf({}, before)
  OBVIOUS
<1> DEFINE A == Seq(S \cup {none})
           Turn(s) == Append(s, FirstOf(S \ ToSet(s), before))
           turn == [k \in 1 .. n |-> [s \in A |-> Turn(s)]]
           Body(g) == [k \in 0 .. n |-> IF k = 0 THEN <<>> ELSE Turn(g[k - 1])]
           loop == CHOOSE g : g = Body(g)
<1>1. n \in Nat
  BY <1>n, FS_CardinalityType
<1>2. <<>> \in A /\ \A s \in A : Turn(s) \in A
  <2>1. ASSUME NEW s \in A PROVE FirstOf(S \ ToSet(s), before) \in S \cup {none}
    <3>1. CASE S \ ToSet(s) = {}
      BY <1>n, <3>1
    <3>2. CASE S \ ToSet(s) # {}
      <4>1. FirstOf(S \ ToSet(s), before) \in S \ ToSet(s)
        BY <3>2, FirstIsIn
      <4>. QED
        BY <4>1
    <3>. QED
      BY <3>1, <3>2
  <2>. QED
    BY <2>1
<1>3. Sorted(S, before) = loop[n]
  BY <1>n DEF Sorted
<1>. HIDE DEF A, Turn
<1>4. turn \in [1 .. n -> [A -> A]] /\ \A k \in 1 .. n : \A s \in A : turn[k][s] = Turn(s)
  BY <1>2
<1>. HIDE DEF turn
<1>5. PICK g \in [0 .. n -> A] : Turns(g, n, <<>>, turn)
  <2>. HIDE DEF loop, Body
  <2>1. n \in Nat /\ <<>> \in A /\ turn \in [1 .. n -> [A -> A]]
    BY <1>1, <1>2, <1>4
  <2>. QED
    BY <2>1, TurnsExist
<1>6. g = Body(g)
  <2>1. ASSUME NEW k \in 1 .. n PROVE g[k] = Turn(g[k - 1])
    <3>1. k - 1 \in 0 .. n
      BY <1>1
    <3>. QED
      BY <1>4, <1>5, <3>1 DEF Turns
  <2>2. ASSUME NEW k \in 0 .. n PROVE g[k] = IF k = 0 THEN <<>> ELSE Turn(g[k - 1])
    <3>1. k = 0 \/ k \in 1 .. n
      BY <1>1
    <3>. QED
      BY <1>5, <2>1, <3>1 DEF Turns
  <2>. QED
    BY <1>5, <2>2
<1>7. loop = Body(loop)
  <2>. HIDE DEF Body
  <2>. QED
    BY <1>6
<1>8. loop[0] = <<>> /\ \A k \in 1 .. n : loop[k] = Turn(loop[k - 1])
  <2>. HIDE DEF loop
  <2>1. \A k \in 0 .. n : loop[k] = IF k = 0 THEN <<>> ELSE Turn(loop[k - 1])
    BY <1>7
  <2>3. loop[0] = <<>>
    BY <1>1, <2>1
  <2>4. ASSUME NEW k \in 1 .. n PROVE loop[k] = Turn(loop[k - 1])
    <3>1. k \in 0 .. n /\ k # 0
      BY <1>1
    <3>. QED
      BY <2>1, <3>1
  <2>. QED
    BY <2>3, <2>4
<1>. HIDE DEF loop
<1>9. SortedBy(loop, S, before)
  BY <1>8, <1>n DEF SortedBy, Turn
<1>. QED
  BY <1>3, <1>9, <1>n

\* Sorting leaves nothing out and has nothing twice.
Sorts(s, S) == s \in Seq(S) /\ ToSet(s) = S /\ IsInjective(s)

\* Sorting by an order that ranks every part of S sorts S.
LEMMA SortedSorts ==
    ASSUME NEW S, IsFiniteSet(S), NEW before, Ranked(S, before)
    PROVE  Sorts(Sorted(S, before), S)
<1>1. PICK f : SortedBy(f, S, before) /\ Sorted(S, before) = f[Cardinality(S)]
  BY SortedTurns
<1>n. PICK n : n = Cardinality(S)
  OBVIOUS
<1>2. n \in Nat
  BY <1>n, FS_CardinalityType
<1> DEFINE Good(k) == f[k] \in Seq(S) /\ IsInjective(f[k]) /\ Len(f[k]) = k
           T == {k \in 0 .. n : Good(k)}
<1>3. Good(0)
  BY <1>1 DEF SortedBy, IsInjective
<1>4. ASSUME NEW k \in 1 .. n, Good(k - 1) PROVE Good(k)
  <2>1. PICK s, x : s = f[k - 1] /\ x = FirstOf(S \ ToSet(s), before)
    OBVIOUS
  <2>2. s \in Seq(S) /\ IsInjective(s) /\ Len(s) = k - 1 /\ f[k] = Append(s, x)
    BY <1>1, <1>4, <1>n, <2>1 DEF SortedBy
  <2>3. ToSet(s) \subseteq S /\ IsFiniteSet(ToSet(s)) /\ Cardinality(ToSet(s)) = k - 1
    <3>1. ToSet(s) \subseteq S
      BY <2>2 DEF ToSet
    <3>2. IsFiniteSet(ToSet(s)) /\ Cardinality(ToSet(s)) = Len(s)
      BY <2>2, LenIsSize
    <3>. QED
      BY <2>2, <3>1, <3>2
  <2>4. S \ ToSet(s) # {}
    <3>1. ASSUME S = ToSet(s) PROVE FALSE
      BY <1>2, <1>n, <2>3, <3>1
    <3>. QED
      BY <2>3, <3>1
  <2>5. x \in S \ ToSet(s)
    <3>1. PICK Z : Z = S \ ToSet(s)
      OBVIOUS
    <3>2. Z \in SUBSET S /\ Z # {}
      BY <2>4, <3>1
    <3>3. FirstOf(Z, before) \in Z
      BY <3>2, FirstIsIn
    <3>. QED
      BY <2>1, <3>1, <3>3
  <2>6. Append(s, x) \in Seq(S) /\ Len(Append(s, x)) = k /\ IsInjective(Append(s, x))
    <3>1. IsInjective(Append(s, x)) <=> IsInjective(s) /\ x \notin ToSet(s)
      BY <2>2, <2>5, LongerInjective
    <3>2. Append(s, x) \in Seq(S) /\ Len(Append(s, x)) = Len(s) + 1
      BY <2>2, <2>5
    <3>3. (k - 1) + 1 = k
      BY <1>2
    <3>. QED
      BY <2>2, <2>5, <3>1, <3>2, <3>3
  <2>. QED
    BY <2>2, <2>6
<1>. HIDE DEF Good
<1>5. 0 \in T /\ \A k \in 1 .. n : k - 1 \in T => k \in T
  BY <1>2, <1>3, <1>4
<1>6. n \in T
  <2>. HIDE DEF T
  <2>1. 0 .. n \subseteq T
    BY <1>2, <1>5, UpTo
  <2>. QED
    BY <1>2, <2>1
<1>7. f[n] \in Seq(S) /\ IsInjective(f[n]) /\ Len(f[n]) = n
  BY <1>6 DEF T, Good
<1>8. ToSet(f[n]) = S
  <2>1. Cardinality(ToSet(f[n])) = n /\ ToSet(f[n]) \in SUBSET S
    <3>1. ToSet(f[n]) \subseteq S
      BY <1>7 DEF ToSet
    <3>2. Cardinality(ToSet(f[n])) = Len(f[n])
      BY <1>7, LenIsSize
    <3>. QED
      BY <1>7, <3>1, <3>2
  <2>. QED
    BY <1>n, <2>1, FS_Subset
<1>. QED
  BY <1>1, <1>7, <1>8, <1>n DEF Sorts

(***************************************************************************)
(* Sums over sets: a set weighs what the parts of a partition weigh.       *)
(***************************************************************************)

\* What the members of D weigh, each as often as seq has it.
Total(seq, D, w) == AddedUp(Kept(seq, D), w)

\* The weight of nothing.
LEMMA TotalEmpty == ASSUME NEW X, NEW w \in [X -> Nat], NEW D
                    PROVE  Total(<<>>, D, w) = 0
<1>1. Kept(<<>>, D) = <<>>
  BY KeptEmpty
<1>2. \A x \in X : w[x] \in Nat
  OBVIOUS
<1>3. AddedUp(<<>>, w) = 0
  BY <1>2, AddedUpEmpty
<1>. QED
  BY <1>1, <1>3 DEF Total

\* A weight is a natural.
LEMMA TotalIn == ASSUME NEW X, NEW w \in [X -> Nat], NEW D, NEW s \in Seq(X)
                 PROVE  Total(s, D, w) \in Nat
<1>1. PICK r : r = Kept(s, D)
  OBVIOUS
<1>2. r \in Seq(X) /\ \A x \in X : w[x] \in Nat
  BY <1>1, KeptIn
<1>3. AddedUp(r, w) \in Nat
  BY <1>2, AddedUpIn
<1>. QED
  BY <1>1, <1>3 DEF Total

\* The weight with one more.
LEMMA TotalSnoc ==
    ASSUME NEW X, NEW w \in [X -> Nat], NEW D, NEW s \in Seq(X), NEW x \in X
    PROVE  Total(Append(s, x), D, w) = IF x \in D THEN Total(s, D, w) + w[x] ELSE Total(s, D, w)
<1>1. PICK r : r = Kept(s, D)
  OBVIOUS
<1>2. r \in Seq(X) /\ \A z \in X : w[z] \in Nat
  BY <1>1, KeptIn
<1>3. AddedUp(Append(r, x), w) = AddedUp(r, w) + w[x]
  BY <1>2, AddedUpLonger
<1>4. Kept(Append(s, x), D) = IF x \in D THEN Append(r, x) ELSE r
  BY <1>1, KeptLonger
<1>. QED
  BY <1>1, <1>3, <1>4 DEF Total

\* Nothing is in both.
Apart(D, E) == D \cap E = {}

\* The two weigh together what each weighs.
Splits(s, D, E, w) == Total(s, D \cup E, w) = Total(s, D, w) + Total(s, E, w)

\* Disjoint sets weigh together what each weighs.
LEMMA TotalSplit ==
    ASSUME NEW X, NEW w \in [X -> Nat], NEW D, NEW E, NEW s \in Seq(X), Apart(D, E)
    PROVE  Splits(s, D, E, w)
<1> DEFINE P(t) == Total(t, D \cup E, w) = Total(t, D, w) + Total(t, E, w)
           T == {t \in Seq(X) : P(t)}
<1>1. <<>> \in Seq(X) /\ P(<<>>)
  <2>1. Total(<<>>, D \cup E, w) = 0 /\ Total(<<>>, D, w) = 0 /\ Total(<<>>, E, w) = 0
    BY TotalEmpty
  <2>. QED
    BY <2>1
<1>2. ASSUME NEW t \in Seq(X), NEW x \in X, P(t) PROVE P(Append(t, x))
  <2>1. Total(t, D, w) \in Nat /\ Total(t, E, w) \in Nat /\ w[x] \in Nat
    BY TotalIn
  <2>2. /\ Total(Append(t, x), D, w) = IF x \in D THEN Total(t, D, w) + w[x] ELSE Total(t, D, w)
        /\ Total(Append(t, x), E, w) = IF x \in E THEN Total(t, E, w) + w[x] ELSE Total(t, E, w)
    BY TotalSnoc
  <2>3. Total(Append(t, x), D \cup E, w)
            = IF x \in D \cup E THEN Total(t, D \cup E, w) + w[x] ELSE Total(t, D \cup E, w)
    BY TotalSnoc
  <2>. QED
    BY <1>2, <2>1, <2>2, <2>3 DEF Apart
<1>. HIDE DEF P
<1>3. T \in SUBSET Seq(X) /\ <<>> \in T /\ \A t \in T : \A x \in X : Append(t, x) \in T
  BY <1>1, <1>2
<1>. HIDE DEF T
<1>4. s \in T
  BY <1>3, SeqSets
<1>. QED
  BY <1>4 DEF T, P, Splits

\* Where nothing weighs.
LEMMA TotalNothing ==
    ASSUME NEW X, NEW w \in [X -> Nat], NEW D, \A x \in D \cap X : w[x] = 0, NEW s \in Seq(X)
    PROVE  Total(s, D, w) = 0
<1> DEFINE P(t) == Total(t, D, w) = 0
           T == {t \in Seq(X) : P(t)}
<1>1. <<>> \in Seq(X) /\ P(<<>>)
  BY TotalEmpty
<1>2. ASSUME NEW t \in Seq(X), NEW x \in X, P(t) PROVE P(Append(t, x))
  <2>1. Total(Append(t, x), D, w) = IF x \in D THEN Total(t, D, w) + w[x] ELSE Total(t, D, w)
    BY TotalSnoc
  <2>. QED
    BY <1>2, <2>1
<1>. HIDE DEF P
<1>3. T \in SUBSET Seq(X) /\ <<>> \in T /\ \A t \in T : \A x \in X : Append(t, x) \in T
  BY <1>1, <1>2
<1>. HIDE DEF T
<1>4. s \in T
  BY <1>3, SeqSets
<1>. QED
  BY <1>4 DEF T, P

\* One member of a sequence that has nothing twice.
LEMMA TotalOne ==
    ASSUME NEW X, NEW w \in [X -> Nat], NEW s \in Seq(X), IsInjective(s), NEW z \in X
    PROVE  Total(s, {z}, w) = IF z \in ToSet(s) THEN w[z] ELSE 0
<1> DEFINE P(t) == IsInjective(t) => Total(t, {z}, w) = IF z \in ToSet(t) THEN w[z] ELSE 0
           T == {t \in Seq(X) : P(t)}
<1>1. <<>> \in Seq(X) /\ P(<<>>)
  <2>1. Total(<<>>, {z}, w) = 0 /\ ToSet(<<>>) = {}
    BY TotalEmpty DEF ToSet
  <2>. QED
    BY <2>1
<1>2. ASSUME NEW t \in Seq(X), NEW x \in X, P(t) PROVE P(Append(t, x))
  <2>1. Total(Append(t, x), {z}, w) = IF x = z THEN Total(t, {z}, w) + w[x] ELSE Total(t, {z}, w)
    BY TotalSnoc
  <2>2. /\ IsInjective(Append(t, x)) <=> IsInjective(t) /\ x \notin ToSet(t)
        /\ ToSet(Append(t, x)) = ToSet(t) \cup {x}
    BY LongerInjective, SetOfLonger
  <2>3. w[x] \in Nat
    OBVIOUS
  <2>. QED
    BY <1>2, <2>1, <2>2, <2>3
<1>. HIDE DEF P
<1>3. T \in SUBSET Seq(X) /\ <<>> \in T /\ \A t \in T : \A x \in X : Append(t, x) \in T
  BY <1>1, <1>2
<1>. HIDE DEF T
<1>4. s \in T
  BY <1>3, SeqSets
<1>. QED
  BY <1>4 DEF T, P

\* All that is in the heaps of S.
Heaped(heap, S) == UNION {heap[x] : x \in S}

\* One heap more.
LEMMA HeapedMore ==
    /\ \A heap : Heaped(heap, {}) = {}
    /\ \A heap, S, x : Heaped(heap, S \cup {x}) = Heaped(heap, S) \cup heap[x]
BY DEF Heaped

\* v is what the heaps weigh, and no two of them share anything.
Weighs(v, S, order, heap, w) ==
    /\ \A x \in S : v[x] = Total(order, heap[x], w)
    /\ \A x, y \in S : x # y => heap[x] \cap heap[y] = {}

\* v adds up to what the heaps of s weigh.
Gathers(s, v, order, heap, w) == AddedUp(s, v) = Total(order, Heaped(heap, ToSet(s)), w)

\* Heaps that share nothing add up to all there is in them.
LEMMA AddedUpHeaps ==
    ASSUME NEW X, NEW w \in [X -> Nat], NEW order \in Seq(X),
           NEW s \in Seq(X), IsInjective(s), NEW heap, NEW v \in [X -> Nat],
           Weighs(v, ToSet(s), order, heap, w)
    PROVE  Gathers(s, v, order, heap, w)
<1>0. \A x \in X : v[x] \in Nat
  OBVIOUS
<1>e. AddedUp(<<>>, v) = 0
  BY <1>0, AddedUpEmpty
<1>l. ASSUME NEW t \in Seq(X), NEW x \in X
      PROVE  AddedUp(Append(t, x), v) = AddedUp(t, v) + v[x]
  BY <1>0, AddedUpLonger
<1>n. Total(order, {}, w) = 0
  <2>1. \A x \in {} \cap X : w[x] = 0
    OBVIOUS
  <2>. QED
    BY <2>1, TotalNothing, Zenon
<1> DEFINE All(t) == Heaped(heap, ToSet(t))
           P(t) == IsInjective(t) /\ ToSet(t) \subseteq ToSet(s) => AddedUp(t, v) = Total(order, All(t), w)
           T == {t \in Seq(X) : P(t)}
<1>1. <<>> \in Seq(X) /\ P(<<>>)
  <2>1. AddedUp(<<>>, v) = 0 /\ ToSet(<<>>) = {}
    BY <1>e DEF ToSet
  <2>2. All(<<>>) = {}
    BY <2>1, HeapedMore
  <2>3. PICK e : e = <<>>
    OBVIOUS
  <2>4. e \in Seq(X) /\ AddedUp(e, v) = 0 /\ All(e) = {}
    BY <2>1, <2>2, <2>3
  <2>5. P(e)
    BY <1>n, <2>4
  <2>. HIDE DEF P
  <2>. QED
    BY <2>3, <2>4, <2>5
<1>2. ASSUME NEW t \in Seq(X), NEW x \in X, P(t) PROVE P(Append(t, x))
  <2>1. AddedUp(Append(t, x), v) = AddedUp(t, v) + v[x]
    BY <1>l
  <2>2. /\ IsInjective(Append(t, x)) <=> IsInjective(t) /\ x \notin ToSet(t)
        /\ ToSet(Append(t, x)) = ToSet(t) \cup {x}
    BY LongerInjective, SetOfLonger
  <2>. SUFFICES ASSUME IsInjective(t), x \notin ToSet(t), ToSet(t) \subseteq ToSet(s), x \in ToSet(s)
                PROVE  AddedUp(Append(t, x), v) = Total(order, All(Append(t, x)), w)
    BY <2>2
  <2>3. AddedUp(t, v) = Total(order, All(t), w) /\ v[x] = Total(order, heap[x], w)
    BY <1>2 DEF Weighs
  <2>4. All(Append(t, x)) = All(t) \cup heap[x]
    BY <2>2, HeapedMore
  <2>5. Apart(All(t), heap[x])
    <3>1. \A y \in ToSet(t) : heap[y] \cap heap[x] = {}
      BY DEF Weighs
    <3>. QED
      BY <3>1 DEF Heaped, Apart
  <2>. HIDE DEF All
  <2>6. Total(order, All(t) \cup heap[x], w) = Total(order, All(t), w) + Total(order, heap[x], w)
    <3>. HIDE DEF P, T
    <3>1. Splits(order, All(t), heap[x], w)
      BY <2>5, TotalSplit
    <3>. QED
      BY <3>1 DEF Splits
  <2>. QED
    BY <2>1, <2>3, <2>4, <2>6
<1>3. P(s) => AddedUp(s, v) = Total(order, All(s), w)
  OBVIOUS
<1>. HIDE DEF P, All
<1>4. T \in SUBSET Seq(X) /\ <<>> \in T /\ \A t \in T : \A x \in X : Append(t, x) \in T
  BY <1>1, <1>2
<1>5. P(s)
  <2>. HIDE DEF T
  <2>1. s \in T
    BY <1>4, SeqSets
  <2>. QED
    BY <2>1 DEF T
<1>. QED
  BY <1>3, <1>5 DEF All, Gathers

(***************************************************************************)
(* Rows in which every parent comes first, and laying branches end to end. *)
(***************************************************************************)

\* Each row's parent is in P or is a row above it.
Led(rows, par, P) == \A k \in DOMAIN rows : par[rows[k]] \in P \cup {rows[j] : j \in 1 .. k - 1}

\* No rows at all.
LEMMA LedEmpty == ASSUME NEW par, NEW P PROVE Led(<<>>, par, P)
BY DEF Led

\* Rows end to end, when what the second hang from is in the first.
LEMMA LedConcat ==
    ASSUME NEW X, NEW s \in Seq(X), NEW t \in Seq(X), NEW par, NEW P, NEW Q,
           Led(s, par, P), Led(t, par, Q), Q \subseteq P \cup ToSet(s)
    PROVE  Led(s \o t, par, P)
<1>1. /\ Len(s) \in Nat /\ Len(t) \in Nat /\ DOMAIN s = 1 .. Len(s) /\ DOMAIN t = 1 .. Len(t)
      /\ DOMAIN (s \o t) = 1 .. Len(s) + Len(t)
  OBVIOUS
<1>2. \A k \in 1 .. Len(s) : (s \o t)[k] = s[k]
  BY <1>1, ConcatProperties
<1>3. ASSUME NEW k \in 1 .. Len(t) PROVE (s \o t)[Len(s) + k] = t[k]
  <2>1. Len(s) + k \in 1 .. Len(s) + Len(t) /\ ~(Len(s) + k <= Len(s)) /\ Len(s) + k - Len(s) = k
    BY <1>1
  <2>. QED
    BY <2>1, ConcatProperties
<1>4. ASSUME NEW k \in 1 .. Len(s) + Len(t)
      PROVE  par[(s \o t)[k]] \in P \cup {(s \o t)[j] : j \in 1 .. k - 1}
  <2>1. CASE k \in 1 .. Len(s)
    <3>1. par[s[k]] \in P \cup {s[j] : j \in 1 .. k - 1}
      BY <1>1, <2>1 DEF Led
    <3>2. \A j \in 1 .. k - 1 : (s \o t)[j] = s[j]
      BY <1>1, <1>2, <2>1
    <3>. QED
      BY <1>2, <2>1, <3>1, <3>2
  <2>2. CASE k \notin 1 .. Len(s)
    <3>1. PICK m \in 1 .. Len(t) : k = Len(s) + m
      <4>1. k - Len(s) \in 1 .. Len(t) /\ k = Len(s) + (k - Len(s))
        BY <1>1, <2>2
      <4>. QED
        BY <4>1
    <3>2. par[t[m]] \in Q \cup {t[j] : j \in 1 .. m - 1}
      BY <1>1 DEF Led
    <3>3. \A j \in 1 .. m - 1 : Len(s) + j \in 1 .. k - 1 /\ (s \o t)[Len(s) + j] = t[j]
      <4>1. ASSUME NEW j \in 1 .. m - 1
            PROVE  Len(s) + j \in 1 .. k - 1 /\ (s \o t)[Len(s) + j] = t[j]
        <5>1. j \in 1 .. Len(t) /\ Len(s) + j \in 1 .. k - 1
          BY <1>1, <3>1
        <5>. QED
          BY <1>3, <5>1
      <4>. QED
        BY <4>1
    <3>4. \A q \in Q : q \in P \/ \E j \in 1 .. k - 1 : q = (s \o t)[j]
      <4>1. ASSUME NEW q \in ToSet(s) PROVE \E j \in 1 .. k - 1 : q = (s \o t)[j]
        <5>1. PICK j \in 1 .. Len(s) : q = s[j]
          BY <1>1 DEF ToSet
        <5>2. j \in 1 .. k - 1
          BY <1>1, <3>1
        <5>. QED
          BY <1>2, <5>1, <5>2
      <4>. QED
        BY <4>1
    <3>5. (s \o t)[k] = t[m]
      BY <1>3, <3>1
    <3>6. CASE par[t[m]] \in Q
      BY <3>4, <3>5, <3>6
    <3>7. ASSUME NEW j \in 1 .. m - 1, par[t[m]] = t[j]
          PROVE  par[(s \o t)[k]] \in {(s \o t)[h] : h \in 1 .. k - 1}
      <4>1. Len(s) + j \in 1 .. k - 1 /\ (s \o t)[Len(s) + j] = t[j]
        BY <3>3
      <4>. QED
        BY <3>5, <3>7, <4>1
    <3>. QED
      BY <3>2, <3>6, <3>7
  <2>. QED
    BY <2>1, <2>2
<1>. QED
  BY <1>1, <1>4 DEF Led

\* rows are what hangs below c of the heap H.
Branch(rows, c, par, H) ==
    IsInjective(rows) /\ c \in H /\ ToSet(rows) = H \ {c} /\ Led(rows, par, {c})

\* rows hold all of H, below P.
Whole(rows, par, H, P) == IsInjective(rows) /\ ToSet(rows) = H /\ Led(rows, par, P)

\* What is below the ids, and the ids, are branches apart.
Branches(ids, rowsOf, par, heap, p) ==
    /\ \A c \in ToSet(ids) : Branch(rowsOf[c], c, par, heap[c]) /\ par[c] = p
    /\ \A c, e \in ToSet(ids) : c # e => heap[c] \cap heap[e] = {}

\* One branch more.
LEMMA BranchLaid ==
    ASSUME NEW X, NEW s \in Seq(X), NEW c \in X, NEW r \in Seq(X), NEW par, NEW G, NEW H, NEW p,
           Whole(s, par, G, {p}), Branch(r, c, par, H), par[c] = p, Apart(G, H)
    PROVE  Whole(s \o <<c>> \o r, par, G \cup H, {p})
<1> DEFINE u == Append(s, c)
<1>1. u \in Seq(X) /\ s \o <<c>> = u
  BY AppendIsConcat
<1>2. ToSet(u) = ToSet(s) \cup {c} /\ (IsInjective(u) <=> IsInjective(s) /\ c \notin ToSet(s))
  BY SetOfLonger, LongerInjective
<1>3. c \notin ToSet(s) /\ ToSet(u) \cap ToSet(r) = {}
  BY <1>2 DEF Whole, Branch, Apart
<1>4. Led(u, par, {p})
  <2>1. <<c>> \in Seq(X) /\ Led(<<c>>, par, {p})
    BY DEF Led
  <2>. QED
    BY <1>1, <2>1, LedConcat DEF Whole
<1>. HIDE DEF u
<1>5. IsInjective(u \o r)
  BY <1>1, <1>2, <1>3, LongerInjective DEF Whole, Branch
<1>6. ToSet(u \o r) = G \cup H
  <2>1. ToSet(u \o r) = ToSet(u) \cup ToSet(r)
    BY <1>1, SetOfLonger
  <2>. QED
    BY <1>2, <2>1 DEF Whole, Branch
<1>7. Led(u \o r, par, {p})
  <2>1. Led(r, par, {c}) /\ {c} \subseteq {p} \cup ToSet(u)
    BY <1>2 DEF Branch
  <2>. QED
    BY <1>1, <1>4, <2>1, LedConcat
<1>. QED
  BY <1>1, <1>5, <1>6, <1>7 DEF Whole

\* The ids, each followed by its rows, make a whole.
LEMMA LaidWhole ==
    ASSUME NEW X, NEW rowsOf, \A x \in X : rowsOf[x] \in Seq(X), NEW ids \in Seq(X),
           IsInjective(ids), NEW par, NEW heap, NEW p, Branches(ids, rowsOf, par, heap, p)
    PROVE  Whole(Laid(ids, rowsOf), par, Heaped(heap, ToSet(ids)), {p})
<1>e. Laid(<<>>, rowsOf) = <<>>
  BY LaidEmpty
<1>l. ASSUME NEW t \in Seq(X), NEW x \in X
      PROVE  /\ Laid(t, rowsOf) \in Seq(X)
             /\ Laid(Append(t, x), rowsOf) = Laid(t, rowsOf) \o <<x>> \o rowsOf[x]
  BY LaidIn, LaidLonger
<1> DEFINE P(t) == IsInjective(t) /\ ToSet(t) \subseteq ToSet(ids)
                       => Whole(Laid(t, rowsOf), par, Heaped(heap, ToSet(t)), {p})
           T == {t \in Seq(X) : P(t)}
<1>1. <<>> \in Seq(X) /\ P(<<>>)
  <2>1. ToSet(<<>>) = {} /\ IsInjective(<<>>)
    BY DEF ToSet, IsInjective
  <2>2. Heaped(heap, {}) = {}
    BY HeapedMore
  <2>3. Whole(<<>>, par, {}, {p})
    BY <2>1, LedEmpty DEF Whole
  <2>4. PICK e : e = <<>>
    OBVIOUS
  <2>5. e \in Seq(X) /\ Laid(e, rowsOf) = e /\ ToSet(e) = {} /\ Whole(e, par, {}, {p})
    BY <1>e, <2>1, <2>3, <2>4
  <2>6. P(e)
    BY <2>2, <2>5
  <2>. HIDE DEF P
  <2>. QED
    BY <2>4, <2>5, <2>6
<1>2. ASSUME NEW t \in Seq(X), NEW x \in X, P(t) PROVE P(Append(t, x))
  <2>1. /\ IsInjective(Append(t, x)) <=> IsInjective(t) /\ x \notin ToSet(t)
        /\ ToSet(Append(t, x)) = ToSet(t) \cup {x}
    BY LongerInjective, SetOfLonger
  <2>. SUFFICES ASSUME IsInjective(t), x \notin ToSet(t), ToSet(t) \subseteq ToSet(ids), x \in ToSet(ids)
                PROVE  Whole(Laid(Append(t, x), rowsOf), par, Heaped(heap, ToSet(Append(t, x))), {p})
    BY <2>1
  <2>2. Whole(Laid(t, rowsOf), par, Heaped(heap, ToSet(t)), {p})
    BY <1>2
  <2>. HIDE DEF P, T
  <2>3. Heaped(heap, ToSet(Append(t, x))) = Heaped(heap, ToSet(t)) \cup heap[x]
    BY <2>1, HeapedMore
  <2>4. Apart(Heaped(heap, ToSet(t)), heap[x])
    <3>1. \A y \in ToSet(t) : heap[y] \cap heap[x] = {}
      BY DEF Branches
    <3>. QED
      BY <3>1 DEF Heaped, Apart
  <2>5. Branch(rowsOf[x], x, par, heap[x]) /\ par[x] = p
    BY DEF Branches
  <2>6. PICK s, r, G, H : s = Laid(t, rowsOf) /\ r = rowsOf[x] /\ G = Heaped(heap, ToSet(t)) /\ H = heap[x]
    OBVIOUS
  <2>7. /\ s \in Seq(X) /\ r \in Seq(X) /\ Whole(s, par, G, {p}) /\ Branch(r, x, par, H)
        /\ par[x] = p /\ Apart(G, H)
    BY <1>l, <2>2, <2>4, <2>5, <2>6
  <2>8. Whole(s \o <<x>> \o r, par, G \cup H, {p})
    BY <2>7, BranchLaid
  <2>9. Laid(Append(t, x), rowsOf) = s \o <<x>> \o r
    BY <1>l, <2>6
  <2>. QED
    BY <2>3, <2>6, <2>8, <2>9
<1>3. P(ids) => Whole(Laid(ids, rowsOf), par, Heaped(heap, ToSet(ids)), {p})
  OBVIOUS
<1>. HIDE DEF P
<1>4. T \in SUBSET Seq(X) /\ <<>> \in T /\ \A t \in T : \A x \in X : Append(t, x) \in T
  BY <1>1, <1>2
<1>5. P(ids)
  <2>. HIDE DEF T
  <2>1. ids \in T
    BY <1>4, SeqSets
  <2>. QED
    BY <2>1 DEF T
<1>. QED
  BY <1>3, <1>5

\* other has of each id's rows what S keeps.
KeptOf(ids, rowsOf, other, S) == \A c \in ToSet(ids) : c \in S /\ Kept(rowsOf[c], S) = other[c]

\* What is kept of rows laid out is laid out of what is kept of each id's.
LEMMA LaidKept ==
    ASSUME NEW X, NEW rowsOf, \A x \in X : rowsOf[x] \in Seq(X),
           NEW other, \A x \in X : other[x] \in Seq(X), NEW ids \in Seq(X), NEW S,
           KeptOf(ids, rowsOf, other, S)
    PROVE  Kept(Laid(ids, rowsOf), S) = Laid(ids, other)
<1>e. Laid(<<>>, rowsOf) = <<>> /\ Laid(<<>>, other) = <<>>
  BY LaidEmpty
<1>l. ASSUME NEW t \in Seq(X), NEW x \in X
      PROVE  /\ Laid(t, rowsOf) \in Seq(X) /\ Laid(t, other) \in Seq(X)
             /\ Laid(Append(t, x), rowsOf) = Laid(t, rowsOf) \o <<x>> \o rowsOf[x]
             /\ Laid(Append(t, x), other) = Laid(t, other) \o <<x>> \o other[x]
  BY LaidIn, LaidLonger
<1> DEFINE P(t) == ToSet(t) \subseteq ToSet(ids) => Kept(Laid(t, rowsOf), S) = Laid(t, other)
           T == {t \in Seq(X) : P(t)}
<1>1. <<>> \in Seq(X) /\ P(<<>>)
  <2>1. Kept(<<>>, S) = <<>>
    BY KeptEmpty
  <2>2. PICK e : e = <<>>
    OBVIOUS
  <2>3. e \in Seq(X) /\ Laid(e, rowsOf) = e /\ Laid(e, other) = e /\ Kept(e, S) = e
    BY <1>e, <2>1, <2>2
  <2>4. P(e)
    BY <2>3
  <2>. HIDE DEF P
  <2>. QED
    BY <2>2, <2>3, <2>4
<1>2. ASSUME NEW t \in Seq(X), NEW x \in X, P(t) PROVE P(Append(t, x))
  <2>1. ToSet(Append(t, x)) = ToSet(t) \cup {x}
    BY SetOfLonger
  <2>. SUFFICES ASSUME ToSet(t) \subseteq ToSet(ids), x \in ToSet(ids)
                PROVE  Kept(Laid(Append(t, x), rowsOf), S) = Laid(Append(t, x), other)
    BY <2>1
  <2>2. Kept(Laid(t, rowsOf), S) = Laid(t, other)
    BY <1>2
  <2>. HIDE DEF P, T
  <2>3. x \in S /\ Kept(rowsOf[x], S) = other[x]
    BY DEF KeptOf
  <2>4. PICK s, r : s = Laid(t, rowsOf) /\ r = rowsOf[x]
    OBVIOUS
  <2>5. s \in Seq(X) /\ r \in Seq(X) /\ Append(s, x) \in Seq(X) /\ s \o <<x>> = Append(s, x)
    <3>1. s \in Seq(X) /\ r \in Seq(X)
      BY <1>l, <2>4
    <3>. QED
      BY <3>1, AppendIsConcat, AppendProperties
  <2>6. Kept(Append(s, x) \o r, S) = Kept(Append(s, x), S) \o Kept(r, S)
    BY <2>5, KeptConcat
  <2>7. Kept(Append(s, x), S) = Append(Kept(s, S), x) /\ Kept(s, S) \in Seq(X)
    BY <2>3, <2>5, KeptLonger, KeptIn
  <2>8. Append(Kept(s, S), x) = Kept(s, S) \o <<x>>
    BY <2>7, AppendIsConcat
  <2>9. /\ Laid(Append(t, x), rowsOf) = s \o <<x>> \o r
        /\ Laid(Append(t, x), other) = Laid(t, other) \o <<x>> \o other[x]
    BY <1>l, <2>4
  <2>. QED
    BY <2>2, <2>3, <2>4, <2>5, <2>6, <2>7, <2>8, <2>9
<1>3. P(ids) => Kept(Laid(ids, rowsOf), S) = Laid(ids, other)
  OBVIOUS
<1>. HIDE DEF P
<1>4. T \in SUBSET Seq(X) /\ <<>> \in T /\ \A t \in T : \A x \in X : Append(t, x) \in T
  BY <1>1, <1>2
<1>5. P(ids)
  <2>. HIDE DEF T
  <2>1. ids \in T
    BY <1>4, SeqSets
  <2>. QED
    BY <2>1 DEF T
<1>. QED
  BY <1>3, <1>5

(***************************************************************************)
(* The type invariant, and the nodes of the tree.                          *)
(***************************************************************************)

\* The type invariant holds at first.
LEMMA TreeTypeInit == TreeInit => TreeTypeOK
<1>. SUFFICES ASSUME TreeInit PROVE TreeTypeOK
  OBVIOUS
<1>1. names \in [TreeSpans -> ParentIds \cup {NoParent}]
  BY DEF TreeInit
<1>2. arrived \in Seq(TreeSpans) /\ IsInjective(arrived)
  BY DEF TreeInit, IsInjective
<1>. QED
  BY <1>1, <1>2 DEF TreeInit, TreeTypeOK

\* Arrivals and clicks keep the type invariant.
LEMMA TreeTypeStep == TreeTypeOK /\ [TreeNext]_treeVars => TreeTypeOK'
<1>. SUFFICES ASSUME TreeTypeOK, [TreeNext]_treeVars PROVE TreeTypeOK'
  OBVIOUS
<1>1. ASSUME NEW i \in TreeSpans, NEW p \in ParentIds \cup {NoParent}, Arrive(i, p) PROVE TreeTypeOK'
  <2>1. names' \in [TreeSpans -> ParentIds \cup {NoParent}]
    BY <1>1 DEF Arrive, TreeTypeOK
  <2>2. arrived' \in Seq(TreeSpans) /\ Len(arrived') = Len(arrived) + 1
        /\ \A k \in 1 .. Len(arrived') : arrived'[k] = IF k = Len(arrived') THEN i ELSE arrived[k]
    BY <1>1 DEF Arrive, TreeTypeOK
  <2>3. IsInjective(arrived')
    <3>1. Len(arrived) \in Nat /\ DOMAIN arrived' = 1 .. Len(arrived) + 1
          /\ DOMAIN arrived = 1 .. Len(arrived)
      BY <2>2 DEF TreeTypeOK
    <3>2. \A k \in 1 .. Len(arrived) : arrived[k] # i
      BY <1>1 DEF Arrive, Contains
    <3>3. \A j, k \in 1 .. Len(arrived) : arrived[j] = arrived[k] => j = k
      BY <3>1 DEF TreeTypeOK, IsInjective
    <3>. QED
      BY <2>2, <3>1, <3>2, <3>3 DEF IsInjective
  <2>4. ToSet(arrived) \subseteq ToSet(arrived')
    <3>1. Len(arrived) \in Nat /\ DOMAIN arrived' = 1 .. Len(arrived) + 1
          /\ DOMAIN arrived = 1 .. Len(arrived)
      BY <2>2 DEF TreeTypeOK
    <3>2. \A k \in 1 .. Len(arrived) : arrived'[k] = arrived[k]
      BY <2>2, <3>1
    <3>. QED
      BY <3>1, <3>2 DEF ToSet
  <2>5. running' \in BOOLEAN
    BY <1>1 DEF Arrive, TreeTypeOK
  <2>6. collapsed' \subseteq ToSet(arrived')
    BY <1>1, <2>4 DEF Arrive, TreeTypeOK
  <2>. QED
    BY <2>1, <2>2, <2>3, <2>5, <2>6 DEF TreeTypeOK
<1>2. ASSUME NEW i \in TreeSpans, ToggleRow(i) PROVE TreeTypeOK'
  <2>1. i \in ToSet(arrived)
    BY <1>2 DEF ToggleRow, Contains, ToSet, TreeTypeOK
  <2>2. collapsed' \subseteq ToSet(arrived)
    BY <1>2, <2>1 DEF ToggleRow, TreeTypeOK
  <2>3. names' = names /\ arrived' = arrived /\ running' = running
    BY <1>2 DEF ToggleRow
  <2>. QED
    BY <2>2, <2>3 DEF TreeTypeOK
<1>3. CASE UNCHANGED treeVars
  BY <1>3 DEF treeVars, TreeTypeOK
<1>. QED
  BY <1>1, <1>2, <1>3 DEF TreeNext

\* Being in the sequence and in its set are the same.
LEMMA ContainsIsIn ==
    ASSUME TreeTypeOK, NEW x
    PROVE  Contains(arrived, x) <=> x \in ToSet(arrived)
BY DEF TreeTypeOK, Contains, ToSet

\* The nodes buildSpanTree makes.
Nodes == ToSet(ById(arrived))

\* The parents that are named and not there, while the trace runs.
Stubs ==
    {names[i] : i \in {j \in ToSet(arrived) :
        running /\ names[j] # NoParent /\ names[j] # j /\ names[j] \notin ToSet(arrived)}}

\* buildSpanTree's nodes, in whatever order the rows come.
LEMMA NodesExact ==
    ASSUME TreeTypeOK, NEW rows \in Seq(TreeSpans), ToSet(rows) = ToSet(arrived)
    PROVE  ById(rows) \in Seq(ParentIds) /\ ToSet(ById(rows)) = ToSet(arrived) \cup Stubs
<1> DEFINE n == Len(rows)
           S == 1 .. n
           A == {seq \in Seq(ParentIds) : /\ ToSet(arrived) \subseteq ToSet(seq)
                                          /\ ToSet(seq) \subseteq ToSet(arrived) \cup Stubs}
           Turn(seq, i) == IF running /\ Missing(rows, i) /\ ~Contains(seq, names[i])
                           THEN Append(seq, names[i]) ELSE seq
           pick == [s \in SUBSET S |-> Max(s)]
           turn == [m \in S |-> [seq \in A |-> Turn(seq, rows[m])]]
<1>1. /\ n \in Nat /\ DOMAIN rows = S /\ \A m \in S : rows[m] \in TreeSpans /\ rows[m] \in ToSet(arrived)
      /\ \A x : Contains(rows, x) <=> x \in ToSet(arrived)
  <2>1. n \in Nat /\ DOMAIN rows = S /\ \A m \in S : rows[m] \in TreeSpans
    OBVIOUS
  <2>2. \A m \in S : rows[m] \in ToSet(rows)
    BY <2>1 DEF ToSet
  <2>3. \A x : Contains(rows, x) <=> x \in ToSet(rows)
    BY <2>1 DEF ToSet, Contains
  <2>. QED
    BY <2>1, <2>2, <2>3
<1>m. \A i \in ToSet(arrived) : running /\ Missing(rows, i) => names[i] \in Stubs /\ names[i] \in ParentIds
  <2>1. \A i \in ToSet(arrived) : i \in TreeSpans
    BY DEF TreeTypeOK, ToSet
  <2>. QED
    BY <1>1, <2>1 DEF Missing, Stubs, TreeTypeOK
<1>2. rows \in A
  BY DEF ParentIds
<1>3. Picks(pick, S) /\ IsFiniteSet(S) /\ \A s \in SUBSET S : pick[s] = Max(s)
  <2>1. n \in Nat
    BY <1>1
  <2>. HIDE DEF n
  <2>. QED
    BY <2>1, MaxPicks
<1>4. ASSUME NEW seq \in A, NEW i \in ToSet(arrived)
      PROVE  /\ Turn(seq, i) \in A /\ ToSet(seq) \subseteq ToSet(Turn(seq, i))
             /\ running /\ Missing(rows, i) => names[i] \in ToSet(Turn(seq, i))
  <2>0. seq \in Seq(ParentIds)
    OBVIOUS
  <2>1. CASE running /\ Missing(rows, i) /\ ~Contains(seq, names[i])
    <3>1. names[i] \in ParentIds /\ names[i] \in Stubs
      BY <1>m, <2>1
    <3>2. /\ Append(seq, names[i]) \in Seq(ParentIds)
          /\ ToSet(Append(seq, names[i])) = ToSet(seq) \cup {names[i]}
      BY <2>0, <3>1, SetOfLonger
    <3>3. Turn(seq, i) = Append(seq, names[i])
      BY <2>1
    <3>. HIDE DEF Turn
    <3>. QED
      BY <3>1, <3>2, <3>3
  <2>2. CASE ~(running /\ Missing(rows, i) /\ ~Contains(seq, names[i]))
    <3>1. \A x : Contains(seq, x) => x \in ToSet(seq)
      BY <2>0 DEF Contains, ToSet
    <3>2. Turn(seq, i) = seq
      BY <2>2
    <3>. HIDE DEF Turn
    <3>. QED
      BY <2>2, <3>1, <3>2
  <2>. QED
    BY <2>1, <2>2
<1>5. /\ turn \in [S -> [A -> A]]
      /\ \A m \in S : \A seq \in A : turn[m][seq] = Turn(seq, rows[m])
  <2>. HIDE DEF A, Turn, S
  <2>. QED
    BY <1>1, <1>4
<1> DEFINE Body(iter) == [s \in SUBSET S |-> IF s = {} THEN rows
                             ELSE Turn(iter[s \ {Max(s)}], rows[Max(s)])]
           loop == CHOOSE iter : iter = Body(iter)
<1>6. ById(rows) = loop[S]
  BY <1>1 DEF ById, FoldLeft, MapThenFoldSet
<1>a. A \subseteq Seq(ParentIds) /\ \A seq \in A : ToSet(arrived) \subseteq ToSet(seq) /\ ToSet(seq) \subseteq ToSet(arrived) \cup Stubs
  OBVIOUS
<1>. HIDE DEF A, Turn, S, pick, turn, n
<1>7. PICK g \in [SUBSET S -> A] : IsFold(g, SUBSET S, A, pick, turn, rows)
  BY <1>2, <1>3, <1>5, FoldExists, Zenon
<1>p. \A s \in SUBSET S : s # {} => pick[s] \in S
  BY <1>3 DEF Picks
<1>8. g = Body(g)
  <2>1. ASSUME NEW s \in SUBSET S
        PROVE  g[s] = IF s = {} THEN rows ELSE Turn(g[s \ {Max(s)}], rows[Max(s)])
    <3>1. /\ s = {} => g[s] = rows
          /\ s # {} => g[s] = turn[pick[s]][g[s \ {pick[s]}]]
      BY <1>7 DEF IsFold
    <3>2. s # {} => pick[s] \in S /\ g[s \ {pick[s]}] \in A
      BY <1>p
    <3>. QED
      BY <3>1, <3>2, <1>3, <1>5
  <2>. QED
    BY <1>7, <2>1
<1>9. loop = Body(loop)
  <2>. HIDE DEF Body
  <2>. QED
    BY <1>8
<1>10. \A s \in SUBSET S : loop[s] = IF s = {} THEN rows
                                     ELSE Turn(loop[s \ {Max(s)}], rows[Max(s)])
  <2>. HIDE DEF loop
  <2>. QED
    BY <1>9
<1>. HIDE DEF loop
<1>11. IsFold(loop, SUBSET S, A, pick, turn, rows)
  <2>1. ASSUME NEW s \in SUBSET S, s # {}, loop[s \ {pick[s]}] \in A
        PROVE  loop[s] = turn[pick[s]][loop[s \ {pick[s]}]]
    <3>1. loop[s] = Turn(loop[s \ {pick[s]}], rows[pick[s]])
      BY <1>3, <1>10, <2>1
    <3>. QED
      BY <1>5, <1>p, <2>1, <3>1
  <2>2. loop[{}] = rows
    BY <1>10
  <2>. QED
    BY <2>1, <2>2 DEF IsFold
<1>12. loop[S] \in A
  BY <1>2, <1>3, <1>5, <1>11, FoldStays, Zenon
<1>13. ASSUME NEW c \in S, running, Missing(rows, rows[c]) PROVE names[rows[c]] \in ToSet(loop[S])
  <2> DEFINE B == {seq \in A : names[rows[c]] \in ToSet(seq)}
  <2>1. Leads(turn, {c}, A, B)
    BY <1>1, <1>4, <1>5, <1>13 DEF Leads
  <2>2. Leads(turn, S, B, B)
    <3>1. \A m \in S : \A seq \in A : turn[m][seq] \in A /\ ToSet(seq) \subseteq ToSet(turn[m][seq])
      BY <1>1, <1>4, <1>5
    <3>. QED
      BY <3>1 DEF Leads
  <2>3. B \in SUBSET A
    OBVIOUS
  <2>. HIDE DEF B
  <2>4. loop[S] \in B
    BY <1>2, <1>3, <1>5, <1>11, <2>1, <2>2, <2>3, FoldHas, Zenon
  <2>. QED
    BY <2>4 DEF B
<1>14. Stubs \subseteq ToSet(loop[S])
  <2>1. ASSUME NEW x \in Stubs PROVE x \in ToSet(loop[S])
    <3>1. PICK i \in ToSet(arrived) : /\ x = names[i] /\ running /\ names[i] # NoParent /\ names[i] # i
                                      /\ names[i] \notin ToSet(arrived)
      BY DEF Stubs
    <3>2. PICK c \in S : i = rows[c]
      BY <1>1 DEF ToSet
    <3>3. Missing(rows, i)
      BY <1>1, <3>1 DEF Missing
    <3>. QED
      BY <1>13, <3>1, <3>2, <3>3
  <2>. QED
    BY <2>1
<1>. QED
  BY <1>6, <1>12, <1>14, <1>a

\* A placeholder is added behind the nodes that are there.
LEMMA NodesAreThere ==
    ASSUME TreeTypeOK
    PROVE  ById(arrived) \in Seq(ParentIds) /\ ToSet(arrived) \subseteq Nodes
<1>1. arrived \in Seq(TreeSpans)
  BY DEF TreeTypeOK
<1>2. ById(arrived) \in Seq(ParentIds) /\ ToSet(ById(arrived)) = ToSet(arrived) \cup Stubs
  BY <1>1, NodesExact
<1>. QED
  BY <1>2 DEF Nodes

\* What the proofs take the nodes to be.
NodesOK ==
    /\ IsFiniteSet(Nodes) /\ NoParent \notin Nodes /\ ToSet(arrived) \subseteq Nodes
    /\ Named(arrived) \in [Nodes -> Nodes \cup {NoParent}]
    /\ \A x \in Nodes : Named(arrived)[x] =
           IF x \in ToSet(arrived) /\ names[x] \in Nodes \ {x} THEN names[x] ELSE NoParent

\* The nodes are what the proofs take them to be.
LEMMA NodesAreOK == TreeTypeOK => NodesOK
<1>. SUFFICES ASSUME TreeTypeOK PROVE NodesOK
  OBVIOUS
<1>1. ById(arrived) \in Seq(ParentIds) /\ ToSet(arrived) \subseteq Nodes
  BY NodesAreThere
<1>2. Len(ById(arrived)) \in Nat /\ DOMAIN ById(arrived) = 1 .. Len(ById(arrived))
  BY <1>1
<1>3. IsFiniteSet(Nodes)
  BY <1>2, SetOfSeq DEF Nodes
<1>4. NoParent \notin Nodes
  <2>1. NoParent \notin ParentIds
    BY TreeAssumption DEF NoParent, ParentIds, TreeSpans
  <2>2. Nodes \subseteq ParentIds
    BY <1>1, <1>2 DEF Nodes, ToSet
  <2>. QED
    BY <2>1, <2>2
<1>5. Named(arrived) = [x \in Nodes |->
          IF x \in ToSet(arrived) /\ names[x] \in Nodes \ {x} THEN names[x] ELSE NoParent]
  BY ContainsIsIn DEF Named, Nodes
<1>. QED
  BY <1>1, <1>3, <1>4, <1>5 DEF NodesOK

\* A span starts when it says, a placeholder with a span that is there.
LEMMA StartsAreTimes ==
    ASSUME TreeTypeOK, NEW i \in Nodes
    PROVE  StartOf(arrived, i) \in Nat /\ i \in Nat
<1>1. ToSet(arrived) \subseteq TreeSpans /\ arrived \in Seq(TreeSpans)
  BY DEF TreeTypeOK, ToSet
<1>2. TreeSpans \subseteq Nat /\ Lost \subseteq Nat
  BY TreeAssumption DEF TreeSpans
<1>3. i \in ToSet(arrived) \cup Stubs
  BY <1>1, NodesExact DEF Nodes
<1>4. CASE i \in ToSet(arrived)
  BY <1>1, <1>2, <1>4, ContainsIsIn DEF StartOf
<1>5. CASE i \notin ToSet(arrived)
  <2>1. PICK j \in ToSet(arrived) : i = names[j] /\ names[j] # NoParent
    BY <1>3, <1>5 DEF Stubs
  <2> DEFINE Z == {c \in ToSet(arrived) : names[c] = i}
  <2>2. Z # {} /\ Z \in SUBSET Nat
    BY <1>1, <1>2, <2>1
  <2>3. IsFiniteSet(Z)
    <3>1. IsFiniteSet(ToSet(arrived))
      BY <1>1, SetOfSeq
    <3>. QED
      BY <3>1, FS_Subset
  <2>4. StartOf(arrived, i) = Min(Z)
    BY <1>5, ContainsIsIn DEF StartOf
  <2>. HIDE DEF Z
  <2>5. Min(Z) \in Nat
    BY <2>2, <2>3, Extremes
  <2>6. i \in Nat
    BY <1>1, <1>2, <2>1 DEF TreeTypeOK, ParentIds
  <2>. QED
    BY <2>4, <2>5, <2>6
<1>. QED
  BY <1>4, <1>5

\* byStartThenId ranks every part of the nodes.
LEMMA BeforeRanks == ASSUME TreeTypeOK PROVE Ranked(Nodes, Before(arrived))
<1>1. ASSUME NEW i \in Nodes, NEW j \in Nodes
      PROVE  <<i, j>> \in Before(arrived) <=>
                 \/ StartOf(arrived, i) < StartOf(arrived, j)
                 \/ StartOf(arrived, i) = StartOf(arrived, j) /\ i < j
  BY DEF Before, Nodes
<1>2. ASSUME NEW Z \in SUBSET Nodes, Z # {}
      PROVE  \E i \in Z : \A j \in Z \ {i} : <<i, j>> \in Before(arrived)
  <2>0. \A i \in Z : StartOf(arrived, i) \in Nat /\ i \in Nat
    BY StartsAreTimes
  <2>1. PICK m \in {StartOf(arrived, i) : i \in Z} :
            \A k \in {StartOf(arrived, i) : i \in Z} : m <= k
    <3> DEFINE T == {StartOf(arrived, i) : i \in Z}
    <3>1. T \in SUBSET Nat /\ T # {}
      BY <1>2, <2>0
    <3>. HIDE DEF T
    <3>2. \E m \in T : \A k \in T : m <= k
      BY <3>1, LeastNat
    <3>. QED
      BY <3>2 DEF T
  <2>2. PICK i \in {c \in Z : StartOf(arrived, c) = m} : \A k \in {c \in Z : StartOf(arrived, c) = m} : i <= k
    <3> DEFINE T == {c \in Z : StartOf(arrived, c) = m}
    <3>1. T \in SUBSET Nat /\ T # {}
      BY <2>0, <2>1
    <3>. HIDE DEF T
    <3>2. \E c \in T : \A k \in T : c <= k
      BY <3>1, LeastNat
    <3>. QED
      BY <3>2 DEF T
  <2>3. i \in Z /\ StartOf(arrived, i) = m
    BY <2>2
  <2>4. ASSUME NEW j \in Z \ {i} PROVE <<i, j>> \in Before(arrived)
    <3>1. i \in Nat /\ j \in Nat /\ StartOf(arrived, j) \in Nat /\ m \in Nat
      BY <2>0, <2>3
    <3>2. m <= StartOf(arrived, j)
      BY <2>1
    <3>3. StartOf(arrived, j) = m => i <= j
      BY <2>2
    <3>. QED
      BY <1>1, <2>3, <3>1, <3>2, <3>3
  <2>. QED
    BY <2>3, <2>4
<1>. QED
  BY <1>2 DEF Ranked

(***************************************************************************)
(* Cutting cycles: ancestors by the ids the spans name, and walks up them. *)
(***************************************************************************)

\* Chain follows the ids the spans name, and meets nothing else.
LEMMA ChainIsLeast ==
    ASSUME TreeTypeOK, NEW i
    PROVE  /\ Follows(names, ToSet(arrived), i, Chain(i))
           /\ \A Z : Follows(names, ToSet(arrived), i, Z) => Chain(i) \subseteq Z
<1>p. PICK G, R, n : G = names /\ R = ToSet(arrived) /\ n = Len(arrived)
  OBVIOUS
<1>1. Len(arrived) \in Nat /\ DOMAIN arrived = 1 .. Len(arrived)
  BY DEF TreeTypeOK
<1>2. IsFiniteSet(ToSet(arrived)) /\ Cardinality(ToSet(arrived)) <= Len(arrived)
  BY <1>1, SetOfSeq
<1> DEFINE Y == {G[j] : j \in R}
           More(s) == s \cup {G[j] : j \in ({i} \cup s) \cap R}
           f == [s \in SUBSET Y |-> More(s)]
           Body(g) == [d \in Nat |-> IF d = 0 THEN {} ELSE More(g[d - 1])]
           up == CHOOSE g : g = [d \in Nat |->
                        IF d = 0 THEN {}
                        ELSE LET shorter == g[d - 1] IN
                             shorter \cup {G[j] : j \in ({i} \cup shorter) \cap R}]
<1>8. f \in [SUBSET Y -> SUBSET Y] /\ {} \in SUBSET Y
  OBVIOUS
<1>3. up = Body(up)
  <2>1. PICK g \in [Nat -> SUBSET Y] : g[0] = {} /\ \A k \in Nat : g[k + 1] = f[g[k]]
    <3> DEFINE A == SUBSET Y
    <3>1. {} \in A /\ f \in [A -> A]
      BY <1>8
    <3>. HIDE DEF f, A
    <3>2. \E g \in [Nat -> A] : g[0] = {} /\ \A k \in Nat : g[k + 1] = f[g[k]]
      BY <3>1, IterExists
    <3>. QED
      BY <3>2 DEF A
  <2>2. ASSUME NEW d \in Nat, d # 0 PROVE g[d] = More(g[d - 1])
    <3>1. d - 1 \in Nat /\ (d - 1) + 1 = d
      BY <2>2
    <3>2. g[d] = f[g[d - 1]] /\ g[d - 1] \in SUBSET Y
      BY <2>1, <3>1
    <3>. QED
      BY <3>2
  <2>3. g = Body(g)
    <3>. HIDE DEF More, up
    <3>. QED
      BY <2>1, <2>2
  <2>4. up = CHOOSE h : h = Body(h)
    OBVIOUS
  <2>. HIDE DEF Body, up
  <2>. QED
    BY <2>3, <2>4
<1>4. /\ up[0] = {}
      /\ \A k \in Nat : up[k + 1] = More(up[k])
  <2>1. \A d \in Nat : up[d] = IF d = 0 THEN {} ELSE More(up[d - 1])
    <3>. HIDE DEF More, up
    <3>. QED
      BY <1>3
  <2>. HIDE DEF More, up
  <2>2. up[0] = {}
    BY <2>1
  <2>3. ASSUME NEW k \in Nat PROVE up[k + 1] = More(up[k])
    <3>1. k + 1 \in Nat /\ k + 1 # 0 /\ (k + 1) - 1 = k
      OBVIOUS
    <3>. QED
      BY <2>1, <3>1
  <2>. QED
    BY <2>2, <2>3
<1>5. Chain(i) = up[n]
  BY <1>p DEF Chain
<1>6. Rounds(up, G, R, i)
  <2>1. \A k \in Nat : \A x : x \in More(up[k]) <=>
           x \in up[k] \/ \E j \in ({i} \cup up[k]) \cap R : x = G[j]
    <3>. HIDE DEF up
    <3>. QED
      OBVIOUS
  <2>2. \A k \in Nat : \A x : x \in up[k + 1] <=>
           x \in up[k] \/ \E j \in ({i} \cup up[k]) \cap R : x = G[j]
    <3>. HIDE DEF up, More
    <3>1. ASSUME NEW k \in Nat, NEW x
          PROVE  x \in up[k + 1] <=>
                    x \in up[k] \/ \E j \in ({i} \cup up[k]) \cap R : x = G[j]
      <4>1. up[k + 1] = More(up[k])
        BY <1>4
      <4>2. x \in More(up[k]) <=>
                    x \in up[k] \/ \E j \in ({i} \cup up[k]) \cap R : x = G[j]
        BY <2>1
      <4>. QED
        BY <4>1, <4>2, Zenon
    <3>. QED
      BY <3>1
  <2>3. up[0] = {}
    BY <1>4
  <2>. HIDE DEF up, More
  <2>. QED
    BY <2>2, <2>3, Zenon DEF Rounds
<1>. HIDE DEF up, Y, More, f, Body
<1>7. n \in Nat /\ IsFiniteSet(R) /\ Cardinality(R) <= n
  BY <1>1, <1>2, <1>p
<1>9. Follows(G, R, i, up[n]) /\ \A Z : Follows(G, R, i, Z) => up[n] \subseteq Z
  BY <1>6, <1>7, LeastClosure
<1>. QED
  BY <1>5, <1>9, <1>p

\* x is on a cycle of parents, of two spans or more.
OnRing(x) == x \in ToSet(arrived) /\ x \in Chain(x) /\ names[x] # x

\* What an ancestor's chain meets, the span's chain meets.
LEMMA ChainOfAncestor ==
    ASSUME TreeTypeOK, NEW x, NEW y \in Chain(x)
    PROVE  Chain(y) \subseteq Chain(x)
<1>1. Follows(names, ToSet(arrived), y, Chain(x))
  BY ChainIsLeast DEF Follows
<1>. QED
  BY <1>1, ChainIsLeast

\* The chain of a span is its parent and the parent's chain.
LEMMA ChainByStep ==
    ASSUME TreeTypeOK, NEW x
    PROVE  /\ x \in ToSet(arrived) => names[x] \in Chain(x)
           /\ x \in ToSet(arrived) => Chain(x) \subseteq {names[x]} \cup Chain(names[x])
           /\ x \notin ToSet(arrived) => Chain(x) = {}
<1>1. x \in ToSet(arrived) => names[x] \in Chain(x)
  BY ChainIsLeast DEF Follows
<1>2. ASSUME x \in ToSet(arrived) PROVE Chain(x) \subseteq {names[x]} \cup Chain(names[x])
  <2>1. Follows(names, ToSet(arrived), names[x], Chain(names[x]))
    BY ChainIsLeast
  <2>2. Follows(names, ToSet(arrived), x, {names[x]} \cup Chain(names[x]))
    BY <2>1 DEF Follows
  <2>. QED
    BY <2>2, ChainIsLeast
<1>3. ASSUME x \notin ToSet(arrived) PROVE Chain(x) = {}
  <2>1. Follows(names, ToSet(arrived), x, {})
    BY <1>3 DEF Follows
  <2>. QED
    BY <2>1, ChainIsLeast
<1>. QED
  BY <1>1, <1>2, <1>3

\* Everything on a cycle is an ancestor of everything on it.
LEMMA RingIsOne ==
    ASSUME TreeTypeOK, NEW x, x \in Chain(x), NEW y \in Chain(x)
    PROVE  x \in Chain(y)
<1> DEFINE Z == {z \in Chain(x) : x \in Chain(z)}
<1>1. ASSUME NEW z \in ({x} \cup Z) \cap ToSet(arrived) PROVE names[z] \in Z
  <2>1. x \in Chain(z) /\ z \in Chain(x)
    OBVIOUS
  <2>2. names[z] \in Chain(x)
    BY <2>1, ChainIsLeast DEF Follows
  <2>3. x \in {names[z]} \cup Chain(names[z])
    BY <2>1, ChainByStep
  <2>. QED
    BY <2>1, <2>2, <2>3
<1>2. Follows(names, ToSet(arrived), x, Z)
  BY <1>1 DEF Follows
<1>3. Chain(x) \subseteq Z
  BY <1>2, ChainIsLeast
<1>. QED
  BY <1>3

\* All of a cycle is on the cycle, and has the same chain.
LEMMA RingWhole ==
    ASSUME TreeTypeOK, NEW x, OnRing(x), NEW y \in Chain(x)
    PROVE  OnRing(y) /\ Chain(y) = Chain(x) /\ names[y] \in Chain(x)
<1>1. x \in Chain(y) /\ y \in Chain(x) /\ x \in Chain(x)
  BY RingIsOne DEF OnRing
<1>2. Chain(y) = Chain(x)
  BY <1>1, ChainOfAncestor
<1>3. y \in ToSet(arrived)
  BY <1>1, ChainByStep
<1>4. names[y] \in Chain(x)
  BY <1>2, <1>3, ChainByStep
<1>5. ASSUME names[y] = y PROVE FALSE
  <2>1. Follows(names, ToSet(arrived), y, {y})
    BY <1>5 DEF Follows
  <2>2. Chain(y) \subseteq {y}
    BY <2>1, ChainIsLeast
  <2>3. x = y
    BY <1>1, <2>2
  <2>. QED
    BY <1>5, <2>3 DEF OnRing
<1>. QED
  BY <1>1, <1>2, <1>3, <1>4, <1>5 DEF OnRing

\* p walks up from start until it meets what is safe, a root, or itself.
IsWalk(p, n, N, parent, safe, start) ==
    /\ n \in Nat /\ p \in [Nat -> N \cup {NoParent}] /\ p[0] = start
    /\ \A k \in 0 .. n - 1 : p[k] \in N \ safe /\ p[k + 1] = parent[p[k]]
    /\ p[n] \in safe \cup {NoParent} \cup {p[k] : k \in 0 .. n - 1}

\* What the walk p comes to.
Outcome(walk, p, n) == walk.path = {p[k] : k \in 0 .. n - 1} /\ walk.at = p[n]

\* Walk ends: more steps than there are nodes meet one of them again.
LEMMA WalkIsWalk ==
    ASSUME NEW N, IsFiniteSet(N), NoParent \notin N, NEW parent \in [N -> N \cup {NoParent}],
           NEW safe \in SUBSET N, NEW start \in N
    PROVE  \E p, n : /\ IsWalk(p, n, N, parent, safe, start)
                     /\ Outcome(Walk(parent, safe, start), p, n)
<1> DEFINE A == N \cup {NoParent}
           f == [x \in A |-> IF x \in safe \cup {NoParent} THEN NoParent ELSE parent[x]]
           Body(g) == [k \in Nat |->
                         IF k = 0 THEN start
                         ELSE IF g[k - 1] \in safe \cup {NoParent} THEN NoParent
                              ELSE parent[g[k - 1]]]
           step == CHOOSE g : g = Body(g)
           Stops(k) == step[k] \in safe \cup {NoParent} \cup {step[j] : j \in 0 .. k - 1}
           Goes(k) == step[k] \notin safe \cup {NoParent} \cup {step[h] : h \in 0 .. k - 1}
           length == CHOOSE k \in 0 .. Cardinality(DOMAIN parent) :
                        Stops(k) /\ \A j \in 0 .. k - 1 : Goes(j)
<1>1. f \in [A -> A] /\ start \in A
  OBVIOUS
<1>2. step = Body(step) /\ step \in [Nat -> A]
  <2>1. PICK g \in [Nat -> A] : g[0] = start /\ \A k \in Nat : g[k + 1] = f[g[k]]
    <3>. HIDE DEF f, A
    <3>. QED
      BY <1>1, IterExists
  <2>2. ASSUME NEW k \in Nat, k # 0
        PROVE  g[k] = IF g[k - 1] \in safe \cup {NoParent} THEN NoParent ELSE parent[g[k - 1]]
    <3>1. k - 1 \in Nat /\ (k - 1) + 1 = k
      BY <2>2
    <3>2. g[k] = f[g[k - 1]] /\ g[k - 1] \in A
      BY <2>1, <3>1
    <3>. QED
      BY <3>2
  <2>3. g = Body(g)
    BY <2>1, <2>2
  <2>4. step = Body(step)
    <3>. HIDE DEF Body
    <3>. QED
      BY <2>3
  <2>5. \A k \in Nat : step[k] \in A
    <3> DEFINE T == {k \in Nat : step[k] \in A}
    <3>1. step[0] = start
      <4>. HIDE DEF step
      <4>. QED
        BY <2>4
    <3>2. ASSUME NEW k \in T PROVE k + 1 \in T
      <4>1. step[k + 1] = IF step[k] \in safe \cup {NoParent} THEN NoParent ELSE parent[step[k]]
        <5>1. k + 1 \in Nat /\ k + 1 # 0 /\ (k + 1) - 1 = k
          OBVIOUS
        <5>. HIDE DEF step, T
        <5>. QED
          BY <2>4, <5>1
      <4>. HIDE DEF step
      <4>. QED
        BY <4>1
    <3>3. T \in SUBSET Nat /\ 0 \in T
      BY <1>1, <3>1
    <3>. HIDE DEF T
    <3>4. T = Nat
      BY <3>2, <3>3, NatSets
    <3>. QED
      BY <3>4 DEF T
  <2>. HIDE DEF A
  <2>6. DOMAIN step = Nat
    <3>. HIDE DEF step
    <3>. QED
      BY <2>4
  <2>7. step = [k \in Nat |-> step[k]]
    <3>. HIDE DEF step
    <3>. QED
      BY <2>4
  <2>. HIDE DEF step
  <2>. QED
    BY <2>4, <2>5, <2>7
<1>. HIDE DEF step
<1>3. step[0] = start
  BY <1>2
<1>4. ASSUME NEW k \in Nat
      PROVE  step[k + 1] = IF step[k] \in safe \cup {NoParent} THEN NoParent ELSE parent[step[k]]
  <2>1. k + 1 \in Nat /\ k + 1 # 0 /\ (k + 1) - 1 = k
    OBVIOUS
  <2>. QED
    BY <1>2, <2>1
\* More steps than there are nodes cannot all be different.
<1>5. \E k \in 0 .. Cardinality(N) : Stops(k)
  <2>. SUFFICES ASSUME \A k \in 0 .. Cardinality(N) : ~ Stops(k) PROVE FALSE
    OBVIOUS
  <2> DEFINE D == 0 .. Cardinality(N)
             h == [k \in D |-> step[k]]
  <2>1. Cardinality(N) \in Nat
    BY FS_CardinalityType
  <2>2. IsFiniteSet(D) /\ Cardinality(D) > Cardinality(N)
    <3>. HIDE DEF h
    <3>1. IsFiniteSet(0 .. Cardinality(N))
          /\ Cardinality(0 .. Cardinality(N)) = IF 0 > Cardinality(N) THEN 0
                                                ELSE Cardinality(N) - 0 + 1
      BY <2>1, FS_Interval
    <3>. QED
      BY <2>1, <3>1
  <2>3. h \in [D -> N]
    BY <1>2, <2>1
  <2>4. \E x, y \in D : x # y /\ h[x] = h[y]
    <3>. HIDE DEF D, h
    <3>1. Cardinality(N) < Cardinality(D)
      <4>1. Cardinality(D) \in Nat
        BY <2>2, FS_CardinalityType
      <4>. QED
        BY <2>1, <2>2, <4>1
    <3>. QED
      BY <2>2, <2>3, <3>1, FS_PigeonHole
  <2>5. PICK x, y \in D : x < y /\ step[x] = step[y]
    BY <2>1, <2>4
  <2>. QED
    BY <2>1, <2>5
<1>6. \E k \in 0 .. Cardinality(N) : Stops(k) /\ \A j \in 0 .. k - 1 : ~ Stops(j)
  <2> DEFINE T == {k \in Nat : Stops(k)}
  <2>1. Cardinality(N) \in Nat
    BY FS_CardinalityType
  <2>2. PICK k \in 0 .. Cardinality(N) : Stops(k)
    BY <1>5
  <2>3. T \in SUBSET Nat /\ k \in T
    BY <2>1, <2>2
  <2>4. \E m \in T : \A j \in T : m <= j
    <3>. HIDE DEF T
    <3>. QED
      BY <2>3, LeastNat
  <2>5. PICK m \in T : \A j \in T : m <= j
    BY <2>4
  <2>6. m <= k /\ m \in Nat /\ Stops(m)
    BY <2>3, <2>5
  <2>7. \A j \in 0 .. m - 1 : ~ Stops(j)
    BY <2>5, <2>6
  <2>8. m \in 0 .. Cardinality(N)
    BY <2>1, <2>6
  <2>. HIDE DEF Stops
  <2>. QED
    BY <2>6, <2>7, <2>8
<1>7. \A k : ~ Stops(k) <=> Goes(k)
  OBVIOUS
<1>8. DOMAIN parent = N
  OBVIOUS
<1>9. /\ length \in 0 .. Cardinality(N) /\ Stops(length)
      /\ \A j \in 0 .. length - 1 : Goes(j)
  <2>. HIDE DEF Stops, Goes
  <2>. QED
    BY <1>6, <1>7, <1>8
<1>10. /\ Walk(parent, safe, start).path = {step[k] : k \in 0 .. length - 1}
       /\ Walk(parent, safe, start).at = step[length]
  BY DEF Walk, step
<1>. HIDE DEF length
<1>11. IsWalk(step, length, N, parent, safe, start)
  <2>1. length \in Nat
    BY <1>9, FS_CardinalityType
  <2>2. ASSUME NEW k \in 0 .. length - 1
        PROVE  step[k] \in N \ safe /\ step[k + 1] = parent[step[k]]
    <3>1. k \in Nat /\ Goes(k)
      BY <1>9, <2>1
    <3>2. step[k] \in N \ safe
      BY <1>2, <3>1
    <3>. QED
      BY <1>4, <3>1, <3>2
  <2>. QED
    BY <1>2, <1>3, <1>9, <2>1, <2>2 DEF IsWalk
<1>12. Outcome(Walk(parent, safe, start), step, length)
  BY <1>10 DEF Outcome
<1>. QED
  BY <1>11, <1>12

\* What cutting cycles leaves behind each walk: only links on cycles are cut, one on each
\* cycle that has been walked; and nothing that has been walked can go round.
Walked ==
    {a \in [parent : [Nodes -> Nodes \cup {NoParent}], safe : SUBSET Nodes] :
        /\ \A x \in Nodes : a.parent[x] # Named(arrived)[x] =>
               a.parent[x] = NoParent /\ x \in a.safe /\ x \in Chain(x)
        /\ \A x \in a.safe : Named(arrived)[x] \in a.safe \cup {NoParent}
        /\ \A x \in a.safe : OnRing(x) =>
               \E c \in Chain(x) : \A y \in Chain(x) : a.parent[y] # Named(arrived)[y] <=> y = c
        /\ \A Z \in SUBSET a.safe : Z # {} => \E z \in Z : a.parent[z] \notin Z}

\* One turn of buildSpanTree's loop.
OneWalk(a, start) ==
    LET walk == Walk(a.parent, a.safe, start) IN
    [parent |-> IF walk.at \in walk.path THEN [a.parent EXCEPT ![walk.at] = NoParent] ELSE a.parent,
     safe   |-> a.safe \cup walk.path]

\* On a cycle every span names a node.
LEMMA NamedOnRing ==
    ASSUME TreeTypeOK, NodesOK, NEW x, OnRing(x), NEW y \in {x} \cup Chain(x)
    PROVE  y \in Nodes /\ Named(arrived)[y] = names[y] /\ names[y] \in Nodes /\ names[y] # NoParent
<1>1. OnRing(y) /\ names[y] \in Chain(x)
  <2>1. x \in Chain(x)
    BY DEF OnRing
  <2>. QED
    BY <2>1, RingWhole
<1>2. OnRing(names[y])
  BY <1>1, RingWhole
<1>. QED
  BY <1>1, <1>2 DEF NodesOK, OnRing

\* The nodes of a walk are ancestors of those before them.
LEMMA WalkClimbs ==
    ASSUME TreeTypeOK, NodesOK, NEW a \in Walked, NEW start \in Nodes,
           NEW p, NEW n, IsWalk(p, n, Nodes, a.parent, a.safe, start)
    PROVE  \A m \in 0 .. n - 1 : \A k \in m + 1 .. n : p[k] # NoParent => p[k] \in Chain(p[m])
<1>0. n \in Nat
  BY DEF IsWalk
<1>1. ASSUME NEW k \in 0 .. n - 1, p[k + 1] # NoParent
      PROVE  p[k] \in ToSet(arrived) /\ p[k + 1] = names[p[k]]
  <2>1. p[k] \in Nodes \ a.safe /\ p[k + 1] = a.parent[p[k]]
    BY DEF IsWalk
  <2>2. a.parent[p[k]] = Named(arrived)[p[k]]
    BY <2>1 DEF Walked
  <2>. QED
    BY <1>1, <2>1, <2>2 DEF NodesOK
<1>2. ASSUME NEW m \in 0 .. n - 1
      PROVE  \A k \in m + 1 .. n : p[k] # NoParent => p[k] \in Chain(p[m])
  <2> DEFINE T == {d \in Nat : m + 1 + d <= n /\ p[m + 1 + d] # NoParent => p[m + 1 + d] \in Chain(p[m])}
  <2>1. 0 \in T
    <3>1. ASSUME p[m + 1] # NoParent PROVE p[m + 1] \in Chain(p[m])
      <4>1. p[m] \in ToSet(arrived) /\ p[m + 1] = names[p[m]]
        BY <1>1, <3>1
      <4>. QED
        BY <4>1, ChainByStep
    <3>2. m + 1 + 0 = m + 1
      BY <1>0
    <3>. QED
      BY <3>1, <3>2
  <2>2. ASSUME NEW d \in T PROVE d + 1 \in T
    <3> DEFINE k == m + 1 + d
    <3>1. k \in Nat /\ m + 1 + (d + 1) = k + 1 /\ d + 1 \in Nat
      BY <1>0
    <3>2. ASSUME k + 1 <= n, p[k + 1] # NoParent PROVE p[k + 1] \in Chain(p[m])
      <4>1. p[k] \in ToSet(arrived) /\ p[k + 1] = names[p[k]] /\ k \in 0 .. n - 1
        BY <1>0, <1>1, <3>1, <3>2
      <4>2. p[k] # NoParent
        BY <4>1 DEF NodesOK
      <4>3. p[k] \in Chain(p[m])
        BY <1>0, <3>1, <4>1, <4>2
      <4>. QED
        BY <4>1, <4>3, ChainIsLeast DEF Follows
    <3>. QED
      BY <3>1, <3>2
  <2>3. T \in SUBSET Nat
    OBVIOUS
  <2>4. T = Nat
    <3>. HIDE DEF T
    <3>. QED
      BY <2>1, <2>2, <2>3, NatSets
  <2>5. ASSUME NEW k \in m + 1 .. n, p[k] # NoParent PROVE p[k] \in Chain(p[m])
    <3>1. k - (m + 1) \in Nat /\ m + 1 + (k - (m + 1)) = k /\ k <= n
      BY <1>0
    <3>2. k - (m + 1) \in T
      BY <2>4, <3>1
    <3>. QED
      BY <2>5, <3>1, <3>2
  <2>. QED
    BY <2>5
<1>. QED
  BY <1>2

\* A cycle has been walked as a whole or not at all.
LEMMA RingWalked ==
    ASSUME TreeTypeOK, NodesOK, NEW a \in Walked, NEW x \in a.safe, OnRing(x)
    PROVE  Chain(x) \subseteq a.safe
<1>1. ASSUME NEW z \in {x} \cup (a.safe \cap Chain(x))
      PROVE  names[z] \in a.safe \cap Chain(x)
  <2>1. z \in Chain(x) /\ z \in a.safe
    BY DEF OnRing
  <2>2. Named(arrived)[z] = names[z] /\ names[z] # NoParent
    BY <2>1, NamedOnRing
  <2>3. Named(arrived)[z] \in a.safe \cup {NoParent}
    BY <2>1 DEF Walked
  <2>4. names[z] \in Chain(x)
    BY <2>1, RingWhole
  <2>. QED
    BY <2>2, <2>3, <2>4
<1>2. Follows(names, ToSet(arrived), x, a.safe \cap Chain(x))
  BY <1>1 DEF Follows
<1>. QED
  BY <1>2, ChainIsLeast

\* A walk that ends where an earlier one has been, or at a root, was not on a cycle.
LEMMA NoRingOnOpenWalk ==
    ASSUME TreeTypeOK, NodesOK, NEW a \in Walked, NEW start \in Nodes,
           NEW p, NEW n, IsWalk(p, n, Nodes, a.parent, a.safe, start),
           p[n] \notin {p[k] : k \in 0 .. n - 1}, NEW m \in 0 .. n - 1
    PROVE  ~ OnRing(p[m])
<1>. SUFFICES ASSUME OnRing(p[m]) PROVE FALSE
  OBVIOUS
<1>0. n \in Nat /\ n - 1 \in 0 .. n - 1 /\ (n - 1) + 1 = n
  BY DEF IsWalk
<1>1. p[n] \in a.safe \cup {NoParent}
  BY DEF IsWalk
<1>2. p[n - 1] \in {p[m]} \cup Chain(p[m])
  <2>1. p[n - 1] # NoParent
    BY <1>0 DEF IsWalk, NodesOK
  <2>2. n - 1 = m \/ n - 1 \in m + 1 .. n
    BY <1>0
  <2>. QED
    BY <2>1, <2>2, WalkClimbs
<1>3. p[n] = Named(arrived)[p[n - 1]]
  <2>1. p[n - 1] \in Nodes \ a.safe /\ p[n] = a.parent[p[n - 1]]
    BY <1>0 DEF IsWalk
  <2>. QED
    BY <2>1 DEF Walked
<1>4. p[n] # NoParent
  BY <1>2, <1>3, NamedOnRing
<1>5. p[n] \in Chain(p[m]) /\ p[n] \in a.safe
  <2>1. n \in m + 1 .. n
    BY <1>0
  <2>. QED
    BY <1>1, <1>4, <2>1, WalkClimbs
<1>6. Chain(p[n]) = Chain(p[m]) /\ p[m] \in Chain(p[n]) /\ OnRing(p[n])
  BY <1>5, RingWhole DEF OnRing
<1>7. p[m] \in a.safe
  BY <1>5, <1>6, RingWalked
<1>. QED
  BY <1>7 DEF IsWalk

\* One turn of buildSpanTree's loop keeps Walked, and walks its start.
LEMMA TurnStaysWalked ==
    ASSUME TreeTypeOK, NodesOK, NEW a \in Walked, NEW start \in Nodes
    PROVE  OneWalk(a, start) \in Walked /\ start \in OneWalk(a, start).safe
<1>0. a.parent \in [Nodes -> Nodes \cup {NoParent}] /\ a.safe \in SUBSET Nodes
  BY DEF Walked
<1>1. PICK p, n : /\ IsWalk(p, n, Nodes, a.parent, a.safe, start)
                  /\ Outcome(Walk(a.parent, a.safe, start), p, n)
  <2>1. IsFiniteSet(Nodes) /\ NoParent \notin Nodes
    BY DEF NodesOK
  <2>2. PICK N, parent, safe : N = Nodes /\ parent = a.parent /\ safe = a.safe
    OBVIOUS
  <2>3. /\ IsFiniteSet(N) /\ NoParent \notin N /\ parent \in [N -> N \cup {NoParent}]
        /\ safe \in SUBSET N /\ start \in N
    BY <1>0, <2>1, <2>2
  <2>4. \E p, n : /\ IsWalk(p, n, N, parent, safe, start)
                  /\ Outcome(Walk(parent, safe, start), p, n)
    BY <2>3, WalkIsWalk, Zenon
  <2>. QED
    BY <2>2, <2>4
<1> DEFINE path == {p[k] : k \in 0 .. n - 1}
           cut == IF p[n] \in path THEN [a.parent EXCEPT ![p[n]] = NoParent] ELSE a.parent
           new == [parent |-> cut, safe |-> a.safe \cup path]
<1>2. OneWalk(a, start) = new
  BY <1>1 DEF OneWalk, Outcome
<1>3. /\ n \in Nat /\ p \in [Nat -> Nodes \cup {NoParent}] /\ p[0] = start
      /\ \A k \in 0 .. n - 1 : p[k] \in Nodes \ a.safe /\ p[k + 1] = a.parent[p[k]]
      /\ p[n] \in a.safe \cup {NoParent} \cup path
  BY <1>1 DEF IsWalk
<1>4. path \subseteq Nodes \ a.safe
  BY <1>3
<1>5. /\ cut \in [Nodes -> Nodes \cup {NoParent}]
      /\ \A x \in Nodes : cut[x] = IF x = p[n] /\ p[n] \in path THEN NoParent ELSE a.parent[x]
  BY <1>0, <1>4
<1>6. new.parent = cut /\ new.safe = a.safe \cup path
      /\ new \in [parent : [Nodes -> Nodes \cup {NoParent}], safe : SUBSET Nodes]
  BY <1>0, <1>4, <1>5
<1>7. \A x \in Nodes \ a.safe : a.parent[x] = Named(arrived)[x]
  BY DEF Walked
<1>8. ASSUME p[n] \in path PROVE p[n] \in Chain(p[n])
  <2>1. PICK m \in 0 .. n - 1 : p[n] = p[m]
    BY <1>8
  <2>2. n \in m + 1 .. n /\ p[n] # NoParent
    BY <1>3, <1>4, <1>8 DEF NodesOK
  <2>. QED
    BY <1>1, <2>1, <2>2, WalkClimbs
<1>. HIDE DEF cut, new
<1>9. ASSUME NEW x \in Nodes, cut[x] # Named(arrived)[x]
      PROVE  cut[x] = NoParent /\ x \in new.safe /\ x \in Chain(x)
  <2>1. CASE x = p[n] /\ p[n] \in path
    BY <1>5, <1>6, <1>8, <2>1
  <2>2. CASE ~ (x = p[n] /\ p[n] \in path)
    <3>1. cut[x] = a.parent[x]
      BY <1>5, <2>2
    <3>. QED
      BY <1>6, <1>9, <3>1 DEF Walked
  <2>. QED
    BY <2>1, <2>2
<1>10. ASSUME NEW x \in new.safe PROVE Named(arrived)[x] \in new.safe \cup {NoParent}
  <2>1. CASE x \in a.safe
    BY <1>6, <2>1 DEF Walked
  <2>2. CASE x \in path
    <3>1. PICK k \in 0 .. n - 1 : x = p[k]
      BY <2>2
    <3>2. Named(arrived)[x] = p[k + 1]
      BY <1>3, <1>7, <3>1
    <3>3. k + 1 \in 0 .. n - 1 \/ k + 1 = n
      BY <1>3
    <3>4. p[k + 1] \in a.safe \cup {NoParent} \cup path
      BY <1>3, <3>3
    <3>. QED
      BY <1>6, <3>2, <3>4
  <2>. QED
    BY <1>6, <2>1, <2>2
<1>11. ASSUME NEW x \in new.safe, OnRing(x)
       PROVE  \E c \in Chain(x) : \A y \in Chain(x) : cut[y] # Named(arrived)[y] <=> y = c
  <2>1. CASE x \in a.safe
    <3>1. PICK c \in Chain(x) : \A y \in Chain(x) : a.parent[y] # Named(arrived)[y] <=> y = c
      BY <1>11, <2>1 DEF Walked
    <3>2. Chain(x) \subseteq a.safe
      BY <1>11, <2>1, RingWalked
    <3>3. \A y \in Chain(x) : cut[y] = a.parent[y]
      BY <1>0, <1>4, <1>5, <3>2
    <3>. QED
      BY <3>1, <3>3
  <2>2. CASE x \in path
    <3>1. PICK m \in 0 .. n - 1 : x = p[m]
      BY <2>2
    <3>2. p[n] \in path
      BY <1>1, <1>11, <3>1, NoRingOnOpenWalk
    <3>3. p[n] \in Chain(x)
      <4>1. n \in m + 1 .. n /\ p[n] # NoParent
        BY <1>3, <1>4, <3>2 DEF NodesOK
      <4>. QED
        BY <1>1, <3>1, <4>1, WalkClimbs
    <3>4. cut[p[n]] # Named(arrived)[p[n]]
      BY <1>5, <1>11, <3>2, <3>3, NamedOnRing
    <3>5. ASSUME NEW y \in Chain(x), cut[y] # Named(arrived)[y], y # p[n] PROVE FALSE
      <4>1. y \in Nodes
        BY <1>11, NamedOnRing
      <4>2. a.parent[y] # Named(arrived)[y]
        BY <1>5, <3>5, <4>1
      <4>3. y \in a.safe
        BY <4>1, <4>2 DEF Walked
      <4>4. OnRing(y) /\ Chain(y) = Chain(x)
        BY <1>11, RingWhole
      <4>5. x \in a.safe
        BY <1>11, <4>3, <4>4, RingWalked DEF OnRing
      <4>. QED
        BY <1>4, <2>2, <4>5
    <3>. QED
      BY <3>3, <3>4, <3>5
  <2>. QED
    BY <1>6, <2>1, <2>2
<1>12. ASSUME NEW Z \in SUBSET new.safe, Z # {}, \A z \in Z : cut[z] \in Z PROVE FALSE
  <2>0. Z \subseteq Nodes /\ NoParent \notin Z
    BY <1>6, <1>12 DEF NodesOK
  <2>1. ASSUME NEW z \in Z, p[n] \in path PROVE z # p[n]
    BY <1>5, <1>12, <2>0, <2>1
  <2>2. \A z \in Z : cut[z] = a.parent[z]
    BY <1>5, <2>0, <2>1
  <2>3. CASE Z \cap path = {}
    <3>1. Z \in SUBSET a.safe
      BY <1>6, <2>3
    <3>. QED
      BY <1>12, <2>2, <3>1 DEF Walked
  <2>4. CASE Z \cap path # {}
    <3>1. PICK m \in 0 .. n - 1 : p[m] \in Z
      BY <2>4
    <3>2. p[n] \in Z
      <4> DEFINE T == {d \in Nat : m + d <= n => p[m + d] \in Z}
      <4>1. 0 \in T
        <5>1. m + 0 = m
          BY <1>3
        <5>. QED
          BY <3>1, <5>1
      <4>2. ASSUME NEW d \in T PROVE d + 1 \in T
        <5> DEFINE k == m + d
        <5>1. k \in Nat /\ m + (d + 1) = k + 1 /\ d + 1 \in Nat
          BY <1>3
        <5>2. ASSUME k + 1 <= n PROVE p[k + 1] \in Z
          <6>1. k \in 0 .. n - 1 /\ k <= n
            BY <1>3, <5>1, <5>2
          <6>2. p[k] \in Z
            BY <6>1
          <6>3. p[k + 1] = a.parent[p[k]]
            BY <1>3, <6>1
          <6>. QED
            BY <1>12, <2>2, <6>2, <6>3
        <5>. QED
          BY <5>1, <5>2
      <4>3. T \in SUBSET Nat
        OBVIOUS
      <4>4. T = Nat
        <5>. HIDE DEF T
        <5>. QED
          BY <4>1, <4>2, <4>3, NatSets
      <4>5. n - m \in Nat /\ m + (n - m) = n
        BY <1>3
      <4>6. n - m \in T
        BY <4>4, <4>5
      <4>. QED
        BY <1>3, <4>5, <4>6
    <3>3. p[n] \in a.safe
      BY <1>3, <2>0, <2>1, <3>2
    <3> DEFINE Y == Z \cap a.safe
    <3>4. ASSUME NEW z \in Y PROVE a.parent[z] \in Y
      <4>1. a.parent[z] \in Z
        BY <1>12, <2>2
      <4>2. a.parent[z] # NoParent
        BY <2>0, <4>1
      <4>3. a.parent[z] = Named(arrived)[z]
        BY <1>0, <4>2 DEF Walked
      <4>4. Named(arrived)[z] \in a.safe \cup {NoParent}
        BY DEF Walked
      <4>. QED
        BY <4>1, <4>2, <4>3, <4>4
    <3>5. Y \in SUBSET a.safe /\ Y # {}
      BY <3>2, <3>3
    <3>. HIDE DEF Y
    <3>. QED
      BY <3>4, <3>5 DEF Walked
  <2>. QED
    BY <2>3, <2>4
<1>13. new \in Walked
  <2>. HIDE DEF path
  <2>1. \A Z \in SUBSET new.safe : Z # {} => \E z \in Z : cut[z] \notin Z
    BY <1>12
  <2>. QED
    BY <1>6, <1>9, <1>10, <1>11, <2>1 DEF Walked
<1>14. start \in new.safe
  <2>1. CASE n = 0
    BY <1>3, <1>6, <2>1 DEF NodesOK
  <2>2. CASE n # 0
    <3>1. 0 \in 0 .. n - 1
      BY <1>3, <2>2
    <3>. QED
      BY <1>3, <1>6, <3>1
  <2>. QED
    BY <2>1, <2>2
<1>. QED
  BY <1>2, <1>13, <1>14

\* When every node has been walked, the cut links are those Walked speaks of.
LEMMA AllWalked ==
    ASSUME TreeTypeOK
    PROVE  \E a \in Walked : a.safe = Nodes /\ a.parent = Parents(arrived)
<1>. USE NodesAreOK
<1> DEFINE order == ById(arrived)
           n == Len(order)
           S == 1 .. n
           A == Walked
           base == [parent |-> Named(arrived), safe |-> {}]
           pick == [s \in SUBSET S |-> Max(s)]
           turn == [m \in S |-> [acc \in A |-> OneWalk(acc, order[m])]]
<1>1. n \in Nat /\ DOMAIN order = S /\ \A m \in S : order[m] \in Nodes
  <2>1. order \in Seq(ParentIds)
    BY NodesAreThere
  <2>. QED
    BY <2>1 DEF Nodes, ToSet
<1>2. base \in A
  BY DEF Walked, NodesOK
<1>3. Picks(pick, S) /\ IsFiniteSet(S) /\ \A s \in SUBSET S : pick[s] = Max(s)
  <2>1. n \in Nat
    BY <1>1
  <2>. HIDE DEF n
  <2>. QED
    BY <2>1, MaxPicks
<1>5. /\ turn \in [S -> [A -> A]]
      /\ \A m \in S : \A acc \in A : turn[m][acc] = OneWalk(acc, order[m])
  <2>1. \A m \in S : \A acc \in A : OneWalk(acc, order[m]) \in A
    BY <1>1, TurnStaysWalked
  <2>. HIDE DEF A, S, order
  <2>. QED
    BY <2>1
<1> DEFINE Body(iter) == [s \in SUBSET S |-> IF s = {} THEN base
                             ELSE OneWalk(iter[s \ {Max(s)}], order[Max(s)])]
           loop == CHOOSE iter : iter = Body(iter)
<1>6. Parents(arrived) = loop[S].parent
  BY <1>1 DEF Parents, FoldLeft, MapThenFoldSet, OneWalk
<1>. HIDE DEF A, S, pick, turn, n, base, order
<1>7. PICK g \in [SUBSET S -> A] : IsFold(g, SUBSET S, A, pick, turn, base)
  BY <1>2, <1>3, <1>5, FoldExists, Zenon
<1>p. \A s \in SUBSET S : s # {} => pick[s] \in S
  BY <1>3 DEF Picks
<1>8. g = Body(g)
  <2>1. ASSUME NEW s \in SUBSET S
        PROVE  g[s] = IF s = {} THEN base ELSE OneWalk(g[s \ {Max(s)}], order[Max(s)])
    <3>1. /\ s = {} => g[s] = base
          /\ s # {} => g[s] = turn[pick[s]][g[s \ {pick[s]}]]
      BY <1>7 DEF IsFold
    <3>2. s # {} => pick[s] \in S /\ g[s \ {pick[s]}] \in A
      BY <1>p
    <3>. QED
      BY <3>1, <3>2, <1>3, <1>5
  <2>. QED
    BY <1>7, <2>1
<1>9. loop = Body(loop)
  <2>. HIDE DEF Body
  <2>. QED
    BY <1>8
<1>10. \A s \in SUBSET S : loop[s] = IF s = {} THEN base
                                     ELSE OneWalk(loop[s \ {Max(s)}], order[Max(s)])
  <2>. HIDE DEF loop
  <2>. QED
    BY <1>9
<1>. HIDE DEF loop
<1>11. IsFold(loop, SUBSET S, A, pick, turn, base)
  <2>1. ASSUME NEW s \in SUBSET S, s # {}, loop[s \ {pick[s]}] \in A
        PROVE  loop[s] = turn[pick[s]][loop[s \ {pick[s]}]]
    <3>1. loop[s] = OneWalk(loop[s \ {pick[s]}], order[pick[s]])
      BY <1>3, <1>10, <2>1
    <3>. QED
      BY <1>5, <1>p, <2>1, <3>1
  <2>2. loop[{}] = base
    BY <1>10
  <2>. QED
    BY <2>1, <2>2 DEF IsFold
<1>12. loop[S] \in A
  BY <1>2, <1>3, <1>5, <1>11, FoldStays, Zenon
<1>13. ASSUME NEW c \in S PROVE order[c] \in loop[S].safe
  <2> DEFINE B == {acc \in A : order[c] \in acc.safe}
  <2>1. Leads(turn, {c}, A, B)
    BY <1>1, <1>5, TurnStaysWalked DEF Leads, A
  <2>2. Leads(turn, S, B, B)
    <3>1. \A m \in S : \A acc \in A : acc.safe \subseteq OneWalk(acc, order[m]).safe
      BY DEF OneWalk
    <3>2. \A m \in S : \A acc \in A : turn[m][acc] \in A /\ turn[m][acc] = OneWalk(acc, order[m])
      BY <1>5
    <3>. QED
      BY <3>1, <3>2 DEF Leads
  <2>3. B \in SUBSET A
    OBVIOUS
  <2>. HIDE DEF B
  <2>4. loop[S] \in B
    BY <1>2, <1>3, <1>5, <1>11, <2>1, <2>2, <2>3, FoldHas, Zenon
  <2>. QED
    BY <2>4 DEF B
<1>14. loop[S].safe = Nodes
  <2>1. Nodes = {order[c] : c \in S}
    BY <1>1 DEF Nodes, ToSet, order
  <2>2. loop[S].safe \subseteq Nodes
    BY <1>12 DEF A, Walked
  <2>. QED
    BY <1>13, <2>1, <2>2
<1>. QED
  BY <1>6, <1>12, <1>14 DEF A

\* The parents that are left go round nowhere: every row hangs from a root.
LEMMA NoCycleLeft ==
    ASSUME TreeTypeOK, NEW Z \in SUBSET Nodes, Z # {}
    PROVE  \E z \in Z : Parents(arrived)[z] \notin Z
<1>1. PICK a \in Walked : a.safe = Nodes /\ a.parent = Parents(arrived)
  BY AllWalked
<1>. QED
  BY <1>1 DEF Walked

\* Only links on cycles are cut, one on each.
LEMMA CutsAreRight == TreeTypeOK => OneCutPerCycle
<1>. SUFFICES ASSUME TreeTypeOK PROVE OneCutPerCycle
  OBVIOUS
<1>0. NodesOK
  BY NodesAreOK
<1>1. PICK a \in Walked : a.safe = Nodes /\ a.parent = Parents(arrived)
  BY AllWalked
<1> DEFINE cut == {i \in ToSet(arrived) : /\ names[i] # NoParent /\ a.parent[i] = NoParent
                                          /\ names[i] # i /\ ~Missing(arrived, i)}
<1>2. {i \in Orphaned(arrived, Tree(arrived)) : names[i] # i /\ ~Missing(arrived, i)} = cut
  BY <1>1 DEF Orphaned, Tree
<1>3. \A i \in ToSet(arrived) : names[i] # NoParent /\ names[i] # i /\ ~Missing(arrived, i)
          => names[i] \in ToSet(arrived) /\ Named(arrived)[i] = names[i]
  BY <1>0, ContainsIsIn DEF Missing, NodesOK
<1>4. ASSUME NEW i \in cut PROVE i \in Chain(i)
  <2>1. Named(arrived)[i] # a.parent[i] /\ i \in Nodes
    BY <1>0, <1>3 DEF NodesOK
  <2>. QED
    BY <2>1 DEF Walked
<1>5. ASSUME NEW i \in ToSet(arrived), i \in Chain(i), names[i] # i
      PROVE  Cardinality(cut \cap Chain(i)) = 1
  <2>1. OnRing(i) /\ i \in a.safe
    BY <1>0, <1>1, <1>5 DEF OnRing, NodesOK
  <2>2. PICK c \in Chain(i) : \A y \in Chain(i) : a.parent[y] # Named(arrived)[y] <=> y = c
    BY <2>1 DEF Walked
  <2>3. ASSUME NEW y \in Chain(i) PROVE y \in cut <=> a.parent[y] # Named(arrived)[y]
    <3>1. y \in Nodes /\ Named(arrived)[y] = names[y] /\ names[y] # NoParent
      BY <1>0, <2>1, NamedOnRing
    <3>2. OnRing(y) /\ OnRing(names[y])
      BY <2>1, RingWhole
    <3>3. y \in ToSet(arrived) /\ names[y] # y /\ ~Missing(arrived, y)
      BY <3>2, ContainsIsIn DEF OnRing, Missing
    <3>4. a.parent[y] # Named(arrived)[y] => a.parent[y] = NoParent
      BY <3>1 DEF Walked
    <3>. QED
      BY <3>1, <3>3, <3>4
  <2>4. cut \cap Chain(i) = {c}
    <3>. HIDE DEF cut
    <3>. QED
      BY <2>2, <2>3
  <2>. QED
    BY <2>4, FS_Singleton
<1>6. OneCutPerCycle <=>
         LET set == {i \in Orphaned(arrived, Tree(arrived)) : names[i] # i /\ ~Missing(arrived, i)}
         IN  /\ \A i \in set : i \in Chain(i)
             /\ \A i \in ToSet(arrived) : i \in Chain(i) /\ names[i] # i
                    => Cardinality(set \cap Chain(i)) = 1
  BY DEF OneCutPerCycle
<1>. HIDE DEF cut
<1>. QED
  BY <1>2, <1>4, <1>5, <1>6

(***************************************************************************)
(* A forest: what is above and below a node.                               *)
(***************************************************************************)

\* tree's parents lead over N to roots, and its order has each of N once.
Forest(tree, N) ==
    /\ NoParent \notin N /\ tree.parent \in [N -> N \cup {NoParent}]
    /\ tree.order \in Seq(N) /\ ToSet(tree.order) = N /\ IsInjective(tree.order)
    /\ \A Z \in SUBSET N : Z # {} => \E z \in Z : tree.parent[z] \notin Z

\* The nodes that hang from another.
Held(tree, N) == {j \in N : tree.parent[j] # NoParent}

\* C is the least that following G from i leads to.
LeastOf(G, R, i, C) == Follows(G, R, i, C) /\ \A Z : Follows(G, R, i, Z) => C \subseteq Z

\* The least set that follows G, by its first step.
LEMMA StepOfLeast ==
    ASSUME NEW G, NEW R, NEW i, NEW C, LeastOf(G, R, i, C)
    PROVE  /\ i \notin R => C = {}
           /\ \A E : i \in R /\ LeastOf(G, R, G[i], E) => C = {G[i]} \cup E
<1>1. ASSUME i \notin R PROVE C = {}
  <2>1. Follows(G, R, i, {})
    BY <1>1 DEF Follows
  <2>. QED
    BY <2>1 DEF LeastOf
<1>2. ASSUME NEW E, i \in R, LeastOf(G, R, G[i], E) PROVE C = {G[i]} \cup E
  <2>1. G[i] \in C
    BY <1>2 DEF LeastOf, Follows
  <2>2. Follows(G, R, i, {G[i]} \cup E)
    BY <1>2 DEF LeastOf, Follows
  <2>3. Follows(G, R, G[i], C)
    BY <2>1 DEF LeastOf, Follows
  <2>. QED
    BY <1>2, <2>1, <2>2, <2>3 DEF LeastOf
<1>. QED
  BY <1>1, <1>2

\* Above follows the parents of the tree, and meets nothing else.
LEMMA AboveIsLeast ==
    ASSUME NEW tree, NEW N, Forest(tree, N), NEW i \in N
    PROVE  LeastOf(tree.parent, Held(tree, N), i, Above(tree, i)) /\ Above(tree, i) \subseteq N
<1>p. PICK G, R, n : G = tree.parent /\ R = Held(tree, N) /\ n = Len(tree.order)
  OBVIOUS
<1>1. n \in Nat /\ DOMAIN tree.order = 1 .. n
  BY <1>p DEF Forest
<1>2. IsFiniteSet(N) /\ Cardinality(N) <= n
  BY <1>1, SetOfSeq DEF Forest
<1>3. IsFiniteSet(R) /\ Cardinality(R) <= n /\ R \subseteq N
  <2>1. R \subseteq N
    BY <1>p DEF Held
  <2>2. IsFiniteSet(R) /\ Cardinality(R) <= Cardinality(N)
    BY <1>2, <2>1, FS_Subset
  <2>3. Cardinality(R) \in Nat /\ Cardinality(N) \in Nat
    BY <1>2, <2>2, FS_CardinalityType
  <2>. QED
    BY <1>1, <1>2, <2>1, <2>2, <2>3
<1>g. \A j \in N : IF j \in R THEN G[j] \in N /\ G[j] # NoParent ELSE G[j] = NoParent
  BY <1>p DEF Forest, Held
<1>n. NoParent \notin N
  BY DEF Forest
<1> DEFINE More(s) == (s \cup {G[j] : j \in {i} \cup s}) \ {NoParent}
           f == [s \in SUBSET N |-> More(s)]
           Body(g) == [d \in Nat |-> IF d = 0 THEN {} ELSE More(g[d - 1])]
           up == CHOOSE g : g = [d \in Nat |->
                        IF d = 0 THEN {}
                        ELSE LET shorter == g[d - 1] IN
                             (shorter \cup {G[j] : j \in {i} \cup shorter}) \ {NoParent}]
<1>s. ASSUME NEW s \in SUBSET N
      PROVE  /\ More(s) \in SUBSET N
             /\ \A x : x \in More(s) <=> x \in s \/ \E j \in ({i} \cup s) \cap R : x = G[j]
  BY <1>g, <1>n
<1>8. f \in [SUBSET N -> SUBSET N] /\ {} \in SUBSET N /\ \A s \in SUBSET N : f[s] = More(s)
  <2>. HIDE DEF More
  <2>. QED
    BY <1>s
<1>5. Above(tree, i) = up[n]
  BY <1>p DEF Above
<1>6. up = CHOOSE h : h = Body(h)
  OBVIOUS
<1>. HIDE DEF f, up, More
<1>4. PICK g \in [Nat -> SUBSET N] : g[0] = {} /\ \A k \in Nat : g[k + 1] = f[g[k]]
  <2> DEFINE A == SUBSET N
  <2>1. {} \in A /\ f \in [A -> A]
    BY <1>8
  <2>. HIDE DEF A, Body
  <2>2. \E g \in [Nat -> A] : g[0] = {} /\ \A k \in Nat : g[k + 1] = f[g[k]]
    BY <2>1, IterExists
  <2>. QED
    BY <2>2 DEF A
<1>7. up = Body(up)
  <2>2. ASSUME NEW d \in Nat, d # 0 PROVE g[d] = More(g[d - 1])
    <3>1. d - 1 \in Nat /\ (d - 1) + 1 = d
      BY <2>2
    <3>2. g[d] = f[g[d - 1]] /\ g[d - 1] \in SUBSET N
      BY <1>4, <3>1
    <3>. QED
      BY <1>8, <3>2
  <2>3. g = Body(g)
    BY <1>4, <2>2
  <2>. HIDE DEF Body
  <2>. QED
    BY <1>6, <2>3
<1>9. \A d \in Nat : up[d] = IF d = 0 THEN {} ELSE More(up[d - 1])
  BY <1>7
<1>. HIDE DEF Body
<1>10. up[0] = {}
  BY <1>9
<1>11. ASSUME NEW k \in Nat PROVE up[k + 1] = More(up[k])
  <2>1. k + 1 \in Nat /\ k + 1 # 0 /\ (k + 1) - 1 = k
    OBVIOUS
  <2>. QED
    BY <1>9, <2>1
<1>12. \A k \in Nat : up[k] \in SUBSET N
  <2> DEFINE T == {k \in Nat : up[k] \in SUBSET N}
  <2>1. 0 \in T /\ T \in SUBSET Nat /\ \A k \in T : k + 1 \in T
    BY <1>s, <1>10, <1>11
  <2>. HIDE DEF T
  <2>2. T = Nat
    BY <2>1, NatSets
  <2>. QED
    BY <2>2 DEF T
<1>13. Rounds(up, G, R, i)
  <2>1. ASSUME NEW k \in Nat, NEW x
        PROVE  x \in up[k + 1] <=> x \in up[k] \/ \E j \in ({i} \cup up[k]) \cap R : x = G[j]
    <3>1. up[k + 1] = More(up[k]) /\ up[k] \in SUBSET N
      BY <1>11, <1>12
    <3>2. x \in More(up[k]) <=> x \in up[k] \/ \E j \in ({i} \cup up[k]) \cap R : x = G[j]
      BY <1>s, <3>1
    <3>. QED
      BY <3>1, <3>2, Zenon
  <2>. QED
    BY <1>10, <2>1 DEF Rounds
<1>14. Follows(G, R, i, up[n]) /\ \A Z : Follows(G, R, i, Z) => up[n] \subseteq Z
  BY <1>1, <1>3, <1>13, LeastClosure
<1>. QED
  BY <1>1, <1>5, <1>12, <1>14, <1>p DEF LeastOf

\* The rows above a root, and above another.
LEMMA AboveByStep ==
    ASSUME NEW tree, NEW N, Forest(tree, N), NEW i \in N
    PROVE  /\ tree.parent[i] = NoParent => Above(tree, i) = {}
           /\ tree.parent[i] # NoParent =>
                  /\ tree.parent[i] \in N
                  /\ Above(tree, i) = {tree.parent[i]} \cup Above(tree, tree.parent[i])
<1>1. LeastOf(tree.parent, Held(tree, N), i, Above(tree, i))
  BY AboveIsLeast
<1>2. ASSUME tree.parent[i] = NoParent PROVE Above(tree, i) = {}
  <2>1. i \notin Held(tree, N)
    BY <1>2 DEF Held
  <2>. QED
    BY <1>1, <2>1, StepOfLeast
<1>3. ASSUME tree.parent[i] # NoParent
      PROVE  /\ tree.parent[i] \in N
             /\ Above(tree, i) = {tree.parent[i]} \cup Above(tree, tree.parent[i])
  <2>1. i \in Held(tree, N) /\ tree.parent[i] \in N
    BY <1>3 DEF Held, Forest
  <2>2. LeastOf(tree.parent, Held(tree, N), tree.parent[i], Above(tree, tree.parent[i]))
    BY <2>1, AboveIsLeast
  <2>. QED
    BY <1>1, <2>1, <2>2, StepOfLeast
<1>. QED
  BY <1>2, <1>3

\* What holds of a node when it holds of its parent holds of all.
LEMMA ForestInduction ==
    ASSUME NEW tree, NEW N, Forest(tree, N), NEW T,
           \A i \in N : tree.parent[i] = NoParent \/ tree.parent[i] \in T => i \in T
    PROVE  N \subseteq T
<1>. SUFFICES ASSUME N \ T # {} PROVE FALSE
  OBVIOUS
<1>1. PICK z \in N \ T : tree.parent[z] \notin N \ T
  <2>1. N \ T \in SUBSET N
    OBVIOUS
  <2>. QED
    BY <2>1 DEF Forest
<1>2. tree.parent[z] = NoParent \/ tree.parent[z] \in T
  BY <1>1 DEF Forest
<1>. QED
  BY <1>1, <1>2

\* What is above an ancestor is above the node.
LEMMA AboveTransitive ==
    ASSUME NEW tree, NEW N, Forest(tree, N), NEW y \in N, NEW x \in Above(tree, y)
    PROVE  x \in N /\ Above(tree, x) \subseteq Above(tree, y)
<1> DEFINE T == {j \in N : \A z \in Above(tree, j) : Above(tree, z) \subseteq Above(tree, j)}
<1>1. ASSUME NEW j \in N, tree.parent[j] = NoParent \/ tree.parent[j] \in T PROVE j \in T
  <2>1. CASE tree.parent[j] = NoParent
    BY <2>1, AboveByStep
  <2>2. CASE tree.parent[j] # NoParent
    <3>1. tree.parent[j] \in T /\ Above(tree, j) = {tree.parent[j]} \cup Above(tree, tree.parent[j])
      BY <1>1, <2>2, AboveByStep
    <3>. QED
      BY <3>1
  <2>. QED
    BY <2>1, <2>2
<1>2. N \subseteq T
  <2>. HIDE DEF T
  <2>. QED
    BY <1>1, ForestInduction
<1>3. Above(tree, y) \subseteq N
  BY AboveIsLeast
<1>. QED
  BY <1>2, <1>3

\* In a forest no node is above itself.
LEMMA NotAboveSelf ==
    ASSUME NEW tree, NEW N, Forest(tree, N), NEW i \in N
    PROVE  i \notin Above(tree, i)
<1> DEFINE T == {j \in N : j \notin Above(tree, j)}
<1>1. ASSUME NEW j \in N, tree.parent[j] = NoParent \/ tree.parent[j] \in T PROVE j \in T
  <2>1. CASE tree.parent[j] = NoParent
    BY <2>1, AboveByStep
  <2>2. CASE tree.parent[j] # NoParent
    <3>1. PICK q : q = tree.parent[j]
      OBVIOUS
    <3>2. q \in T /\ q \in N /\ Above(tree, j) = {q} \cup Above(tree, q)
      BY <1>1, <2>2, <3>1, AboveByStep
    <3>3. j = q => j \in T
      BY <3>2
    <3>4. j \in Above(tree, q) => q \in Above(tree, q)
      BY <3>2, AboveTransitive
    <3>. QED
      BY <3>2, <3>3, <3>4
  <2>. QED
    BY <2>1, <2>2
<1>2. N \subseteq T
  <2>. HIDE DEF T
  <2>. QED
    BY <1>1, ForestInduction
<1>. QED
  BY <1>2

\* x and y are on one way up.
InLine(tree, x, y) == x = y \/ x \in Above(tree, y) \/ y \in Above(tree, x)

\* Of two ancestors one is above the other.
LEMMA AboveInLine ==
    ASSUME NEW tree, NEW N, Forest(tree, N), NEW i \in N,
           NEW x \in {i} \cup Above(tree, i), NEW y \in {i} \cup Above(tree, i)
    PROVE  InLine(tree, x, y)
<1> DEFINE Line(j) == {j} \cup Above(tree, j)
           T == {j \in N : \A u, v \in Line(j) : InLine(tree, u, v)}
<1>1. ASSUME NEW j \in N, tree.parent[j] = NoParent \/ tree.parent[j] \in T PROVE j \in T
  <2>0. \A u, v \in Line(j) : u = j \/ v = j => InLine(tree, u, v)
    BY DEF InLine
  <2>1. CASE tree.parent[j] = NoParent
    <3>1. Line(j) = {j}
      BY <2>1, AboveByStep
    <3>. QED
      BY <2>0, <3>1
  <2>2. CASE tree.parent[j] # NoParent
    <3>1. PICK q : q = tree.parent[j]
      OBVIOUS
    <3>2. q \in T /\ q \in N /\ Line(j) = {j} \cup Line(q)
      BY <1>1, <2>2, <3>1, AboveByStep
    <3>3. \A u, v \in Line(q) : InLine(tree, u, v)
      BY <3>2
    <3>4. \A u, v \in Line(j) : InLine(tree, u, v)
      <4>. HIDE DEF Line, T
      <4>. QED
        BY <2>0, <3>2, <3>3
    <3>. QED
      BY <3>4
  <2>. QED
    BY <2>1, <2>2
<1>2. N \subseteq T
  <2>. HIDE DEF T
  <2>. QED
    BY <1>1, ForestInduction
<1>. QED
  BY <1>2

\* What is to be shown below p, the roots being below NoParent.
Below(tree, N, p) == IF p = NoParent THEN N ELSE {j \in N : p \in Above(tree, j)}

\* The nodes whose parent is p.
Kids(tree, N, p) == {i \in N : tree.parent[i] = p}

\* A node and what is below it.
Heap(tree, N) == [c \in N |-> {c} \cup Below(tree, N, c)]

\* Children lists the nodes whose parent is p, each once.
LEMMA ChildrenAreKids ==
    ASSUME NEW tree, NEW N, Forest(tree, N), NEW p
    PROVE  /\ Children(tree, p) \in Seq(N) /\ IsInjective(Children(tree, p))
           /\ ToSet(Children(tree, p)) = Kids(tree, N, p)
<1>1. tree.order \in Seq(N) /\ ToSet(tree.order) = N /\ IsInjective(tree.order) /\ DOMAIN tree.parent = N
  BY DEF Forest
<1>2. PICK S : S = {i \in DOMAIN tree.parent : tree.parent[i] = p}
  OBVIOUS
<1>3. S = Kids(tree, N, p) /\ S \subseteq N
  BY <1>1, <1>2 DEF Kids
<1>4. Children(tree, p) = Kept(tree.order, S)
  BY <1>2 DEF Children
<1>5. /\ Kept(tree.order, S) \in Seq(N) /\ IsInjective(Kept(tree.order, S))
      /\ ToSet(Kept(tree.order, S)) = N \cap S
  BY <1>1, KeptMembers
<1>. QED
  BY <1>3, <1>4, <1>5

\* No child is above another child of the same parent.
LEMMA KidsNotInLine ==
    ASSUME NEW tree, NEW N, Forest(tree, N), NEW p, NEW c \in Kids(tree, N, p), NEW e \in Kids(tree, N, p)
    PROVE  c \notin Above(tree, e)
<1>1. c \in N /\ e \in N /\ tree.parent[c] = p /\ tree.parent[e] = p
  BY DEF Kids
<1>2. CASE p = NoParent
  BY <1>1, <1>2, AboveByStep
<1>3. CASE p # NoParent
  <2>1. p \in N /\ Above(tree, e) = {p} \cup Above(tree, p) /\ Above(tree, c) = {p} \cup Above(tree, p)
    BY <1>1, <1>3, AboveByStep
  <2>2. c # p
    BY <1>1, <2>1, NotAboveSelf
  <2>3. c \in Above(tree, p) => p \in Above(tree, p)
    BY <2>1, AboveTransitive
  <2>. QED
    BY <2>1, <2>2, <2>3, NotAboveSelf
<1>. QED
  BY <1>2, <1>3

\* What is below p falls apart into its children's heaps.
LEMMA BelowIsHeaped ==
    ASSUME NEW tree, NEW N, Forest(tree, N), NEW p \in N \cup {NoParent}
    PROVE  /\ Below(tree, N, p) = Heaped(Heap(tree, N), Kids(tree, N, p))
           /\ \A c, e \in Kids(tree, N, p) : c # e => Heap(tree, N)[c] \cap Heap(tree, N)[e] = {}
<1>0. NoParent \notin N /\ Kids(tree, N, p) \subseteq N /\ \A c \in N : Heap(tree, N)[c] = {c} \cup Below(tree, N, c)
  BY DEF Forest, Kids, Heap
<1>b. \A c \in N : \A j : j \in Below(tree, N, c) <=> j \in N /\ c \in Above(tree, j)
  BY <1>0 DEF Below
<1>1. ASSUME NEW c \in Kids(tree, N, p), NEW j \in Heap(tree, N)[c] PROVE j \in Below(tree, N, p)
  <2>1. c \in N /\ tree.parent[c] = p /\ j \in N /\ (j = c \/ c \in Above(tree, j))
    BY <1>0, <1>1, <1>b DEF Kids
  <2>2. CASE p = NoParent
    BY <2>1, <2>2 DEF Below
  <2>3. CASE p # NoParent
    <3>1. p \in Above(tree, c)
      BY <2>1, <2>3, AboveByStep
    <3>2. c \in Above(tree, j) => Above(tree, c) \subseteq Above(tree, j)
      BY <2>1, AboveTransitive
    <3>. QED
      BY <1>b, <2>1, <2>3, <3>1, <3>2
  <2>. QED
    BY <2>2, <2>3
<1>2. ASSUME NEW j \in Below(tree, N, p) PROVE \E c \in Kids(tree, N, p) : j \in Heap(tree, N)[c]
  <2> DEFINE Good(i) == i \in Below(tree, N, p) => \E c \in Kids(tree, N, p) : i \in Heap(tree, N)[c]
             T == {i \in N : Good(i)}
  <2>1. ASSUME NEW i \in N, tree.parent[i] = NoParent \/ tree.parent[i] \in T PROVE Good(i)
    <3>1. PICK q : q = tree.parent[i]
      OBVIOUS
    <3>2. CASE q = p
      <4>1. i \in Kids(tree, N, p) /\ i \in Heap(tree, N)[i]
        BY <1>0, <3>1, <3>2 DEF Kids
      <4>. QED
        BY <4>1
    <3>3. CASE q # p /\ q = NoParent
      <4>1. Above(tree, i) = {} /\ p \in N
        BY <3>1, <3>3, AboveByStep
      <4>. QED
        BY <1>b, <4>1
    <3>4. CASE q # p /\ q # NoParent
      <4>1. q \in T /\ q \in N /\ Above(tree, i) = {q} \cup Above(tree, q)
        BY <2>1, <3>1, <3>4, AboveByStep
      <4>2. i \in Below(tree, N, p) => q \in Below(tree, N, p)
        BY <3>4, <4>1 DEF Below
      <4>. SUFFICES ASSUME i \in Below(tree, N, p)
                    PROVE  \E c \in Kids(tree, N, p) : i \in Heap(tree, N)[c]
        OBVIOUS
      <4>3. PICK c \in Kids(tree, N, p) : q \in Heap(tree, N)[c]
        BY <4>1, <4>2
      <4>. HIDE DEF Good, T
      <4>4. c \in N /\ (q = c \/ c \in Above(tree, q))
        BY <1>0, <1>b, <4>3
      <4>5. c \in Above(tree, i)
        BY <4>1, <4>4
      <4>. QED
        BY <1>0, <1>b, <4>4, <4>5
    <3>. QED
      BY <3>2, <3>3, <3>4
  <2>. HIDE DEF Good
  <2>2. \A i \in N : tree.parent[i] = NoParent \/ tree.parent[i] \in T => i \in T
    BY <2>1
  <2>3. N \subseteq T
    <3>. HIDE DEF T
    <3>. QED
      BY <2>2, ForestInduction
  <2>4. j \in N
    BY DEF Below
  <2>. QED
    BY <1>2, <2>3, <2>4 DEF Good
<1>3. ASSUME NEW c \in Kids(tree, N, p), NEW e \in Kids(tree, N, p), c # e
      PROVE  Heap(tree, N)[c] \cap Heap(tree, N)[e] = {}
  <2>1. ASSUME NEW j \in Heap(tree, N)[c], j \in Heap(tree, N)[e] PROVE FALSE
    <3>1. j \in N /\ c \in {j} \cup Above(tree, j) /\ e \in {j} \cup Above(tree, j)
      BY <1>0, <1>b, <2>1
    <3>2. InLine(tree, c, e)
      BY <3>1, AboveInLine
    <3>3. c \notin Above(tree, e) /\ e \notin Above(tree, c)
      BY KidsNotInLine
    <3>. QED
      BY <1>3, <3>2, <3>3 DEF InLine
  <2>. QED
    BY <2>1
<1>4. Below(tree, N, p) = Heaped(Heap(tree, N), Kids(tree, N, p))
  BY <1>1, <1>2 DEF Heaped
<1>. QED
  BY <1>3, <1>4

\* What is below a child is less than what is below p.
LEMMA BelowShrinks ==
    ASSUME NEW tree, NEW N, Forest(tree, N), NEW p \in N \cup {NoParent}, NEW c \in Kids(tree, N, p)
    PROVE  /\ c \in N /\ c \notin Below(tree, N, c)
           /\ Cardinality(Below(tree, N, c)) \in Nat /\ Cardinality(Below(tree, N, p)) \in Nat
           /\ Cardinality(Below(tree, N, c)) < Cardinality(Below(tree, N, p))
<1>1. c \in N /\ NoParent \notin N
  BY DEF Kids, Forest
<1>2. c \notin Below(tree, N, c)
  BY <1>1, NotAboveSelf DEF Below
<1>3. Heap(tree, N)[c] \subseteq Below(tree, N, p)
  BY BelowIsHeaped DEF Heaped
<1>4. c \in Below(tree, N, p) /\ Below(tree, N, c) \subseteq Below(tree, N, p)
  BY <1>1, <1>3 DEF Heap
<1>5. IsFiniteSet(Below(tree, N, p))
  <2>1. DOMAIN tree.order = 1 .. Len(tree.order) /\ Len(tree.order) \in Nat /\ ToSet(tree.order) = N
    BY DEF Forest
  <2>2. IsFiniteSet(N)
    BY <2>1, SetOfSeq
  <2>3. Below(tree, N, p) \subseteq N
    BY DEF Below
  <2>. QED
    BY <2>2, <2>3, FS_Subset
<1>6. /\ IsFiniteSet(Below(tree, N, c))
      /\ Cardinality(Below(tree, N, c)) <= Cardinality(Below(tree, N, p))
      /\ Cardinality(Below(tree, N, c)) # Cardinality(Below(tree, N, p))
  BY <1>2, <1>4, <1>5, FS_Subset
<1>7. Cardinality(Below(tree, N, c)) \in Nat /\ Cardinality(Below(tree, N, p)) \in Nat
  BY <1>5, <1>6, FS_CardinalityType
<1>. QED
  BY <1>1, <1>2, <1>6, <1>7

(***************************************************************************)
(* The rows of a forest, expanded and collapsed.                           *)
(***************************************************************************)

\* The turns of TreeRows.
RowsBy(b, tree, N, closed) ==
    /\ b \in [Nat -> [N \cup {NoParent} -> Seq(N)]]
    /\ \A p \in N \cup {NoParent} : b[0][p] = <<>>
    /\ \A d \in Nat : \A p \in N \cup {NoParent} :
           b[d + 1][p] = IF p \in closed THEN <<>> ELSE Laid(Children(tree, p), b[d])

\* TreeRows has its turns.
LEMMA RowsTurns ==
    ASSUME NEW tree, NEW N, Forest(tree, N), NEW closed
    PROVE  \E b : RowsBy(b, tree, N, closed) /\ TreeRows(tree, closed) = b[Len(tree.order)][NoParent]
<1> DEFINE M == N \cup {NoParent}
           A == [M -> Seq(N)]
           base == [p \in M |-> <<>>]
           More(g) == [p \in M |-> IF p \in closed THEN <<>> ELSE Laid(Children(tree, p), g)]
           f == [g \in A |-> More(g)]
           Body(b) == [d \in Nat |-> [p \in M |-> IF d = 0 \/ p \in closed THEN <<>>
                                                  ELSE Laid(Children(tree, p), b[d - 1])]]
           rows == CHOOSE b : b = Body(b)
<1>1. DOMAIN tree.parent = N /\ Len(tree.order) \in Nat
  BY DEF Forest
<1>2. TreeRows(tree, closed) = rows[Len(tree.order)][NoParent]
  BY <1>1 DEF TreeRows
<1>3. ASSUME NEW g \in A PROVE More(g) \in A
  <2>1. \A x \in N : g[x] \in Seq(N)
    OBVIOUS
  <2>2. \A p \in M : Children(tree, p) \in Seq(N)
    BY ChildrenAreKids
  <2>3. \A p \in M : Laid(Children(tree, p), g) \in Seq(N)
    BY <2>1, <2>2, LaidIn
  <2>. QED
    BY <2>3
<1>4. base \in A /\ f \in [A -> A] /\ \A g \in A : f[g] = More(g)
  <2>1. base \in A
    OBVIOUS
  <2>. HIDE DEF More, A, base
  <2>. QED
    BY <1>3, <2>1
<1>5. PICK b \in [Nat -> A] : b[0] = base /\ \A k \in Nat : b[k + 1] = f[b[k]]
  <2>. HIDE DEF A, base, f, More, Body, rows
  <2>1. PICK B, a, h : B = A /\ a = base /\ h = f
    OBVIOUS
  <2>2. a \in B /\ h \in [B -> B]
    BY <1>4, <2>1
  <2>3. \E b \in [Nat -> B] : b[0] = a /\ \A k \in Nat : b[k + 1] = h[b[k]]
    BY <2>2, IterExists
  <2>. QED
    BY <2>1, <2>3
<1>6. \A k \in Nat : b[k] \in A /\ b[k + 1] = More(b[k])
  <2>. HIDE DEF A, base, f, More, Body, rows
  <2>. QED
    BY <1>4, <1>5
<1>7. b = Body(b)
  <2>1. ASSUME NEW d \in Nat
        PROVE  b[d] = [p \in M |-> IF d = 0 \/ p \in closed THEN <<>>
                                   ELSE Laid(Children(tree, p), b[d - 1])]
    <3>1. CASE d = 0
      BY <1>5, <3>1
    <3>2. CASE d # 0
      <4>1. d - 1 \in Nat /\ (d - 1) + 1 = d
        BY <3>2
      <4>2. b[d] = More(b[d - 1])
        BY <1>6, <4>1
      <4>. QED
        BY <3>2, <4>2
    <3>. QED
      BY <3>1, <3>2
  <2>. QED
    BY <1>5, <2>1
<1>8. rows = Body(rows)
  <2>. HIDE DEF Body
  <2>. QED
    BY <1>7
\* The turns determine the rows.
<1>9. \A d \in Nat : rows[d] = [p \in M |-> IF d = 0 \/ p \in closed THEN <<>>
                                            ELSE Laid(Children(tree, p), rows[d - 1])]
  <2>. HIDE DEF rows, M
  <2>. QED
    BY <1>8
<1>10. DOMAIN rows = Nat /\ rows = [d \in Nat |-> rows[d]]
  <2>. HIDE DEF rows, M
  <2>. QED
    BY <1>8
<1>. HIDE DEF rows, Body
<1>11. rows[0] = base
  BY <1>9
<1>12. ASSUME NEW k \in Nat PROVE rows[k + 1] = More(rows[k])
  <2>1. k + 1 \in Nat /\ k + 1 # 0 /\ (k + 1) - 1 = k
    OBVIOUS
  <2>. QED
    BY <1>9, <2>1
<1>13. \A k \in Nat : rows[k] \in A
  <2> DEFINE T == {k \in Nat : rows[k] \in A}
  <2>. HIDE DEF A, base, f, More
  <2>1. 0 \in T /\ T \in SUBSET Nat /\ \A k \in T : k + 1 \in T
    BY <1>3, <1>4, <1>11, <1>12
  <2>. HIDE DEF T
  <2>2. T = Nat
    BY <2>1, NatSets
  <2>. QED
    BY <2>2 DEF T
<1>14. rows \in [Nat -> A]
  <2>. HIDE DEF A
  <2>. QED
    BY <1>10, <1>13
<1>15. RowsBy(rows, tree, N, closed)
  <2>1. \A p \in M : rows[0][p] = <<>>
    BY <1>11
  <2>2. \A d \in Nat : \A p \in M :
            rows[d + 1][p] = IF p \in closed THEN <<>> ELSE Laid(Children(tree, p), rows[d])
    BY <1>12
  <2>. QED
    BY <1>14, <2>1, <2>2 DEF RowsBy
<1>. QED
  BY <1>2, <1>15

\* With rounds enough for all that is below p, its rows are whole.
LEMMA RowsWhole ==
    ASSUME NEW tree, NEW N, Forest(tree, N), NEW b, RowsBy(b, tree, N, {}),
           NEW n \in Nat, NEW q \in N \cup {NoParent}, Cardinality(Below(tree, N, q)) <= n
    PROVE  Whole(b[n][q], tree.parent, Below(tree, N, q), {q})
<1> DEFINE Good(d) == \A p \in N \cup {NoParent} : Cardinality(Below(tree, N, p)) <= d =>
                          Whole(b[d][p], tree.parent, Below(tree, N, p), {p})
           T == {d \in Nat : Good(d)}
<1>1. IsFiniteSet(N)
  <2>1. DOMAIN tree.order = 1 .. Len(tree.order) /\ Len(tree.order) \in Nat /\ ToSet(tree.order) = N
    BY DEF Forest
  <2>. QED
    BY <2>1, SetOfSeq
<1>2. Good(0)
  <2>1. ASSUME NEW p \in N \cup {NoParent}, Cardinality(Below(tree, N, p)) <= 0
        PROVE  Whole(b[0][p], tree.parent, Below(tree, N, p), {p})
    <3>1. Below(tree, N, p) \subseteq N
      BY DEF Below
    <3>2. IsFiniteSet(Below(tree, N, p))
      BY <1>1, <3>1, FS_Subset
    <3>3. Cardinality(Below(tree, N, p)) \in Nat
      BY <3>2, FS_CardinalityType
    <3>4. Below(tree, N, p) = {}
      BY <2>1, <3>2, <3>3, FS_EmptySet
    <3>5. b[0][p] = <<>>
      BY DEF RowsBy
    <3>6. ToSet(<<>>) = {} /\ IsInjective(<<>>) /\ Led(<<>>, tree.parent, {p})
      BY LedEmpty DEF ToSet, IsInjective
    <3>. QED
      BY <3>4, <3>5, <3>6 DEF Whole
  <2>. QED
    BY <2>1
<1>3. ASSUME NEW d \in Nat, Good(d) PROVE Good(d + 1)
  <2>1. ASSUME NEW p \in N \cup {NoParent}, Cardinality(Below(tree, N, p)) <= d + 1
        PROVE  Whole(b[d + 1][p], tree.parent, Below(tree, N, p), {p})
    <3>1. b[d + 1][p] = Laid(Children(tree, p), b[d])
      BY DEF RowsBy
    <3>2. /\ Children(tree, p) \in Seq(N) /\ IsInjective(Children(tree, p))
          /\ ToSet(Children(tree, p)) = Kids(tree, N, p)
      BY ChildrenAreKids
    <3>3. \A x \in N : b[d][x] \in Seq(N)
      BY DEF RowsBy
    <3>4. ASSUME NEW c \in Kids(tree, N, p)
          PROVE  Branch(b[d][c], c, tree.parent, Heap(tree, N)[c]) /\ tree.parent[c] = p
      <4>1. /\ c \in N /\ c \notin Below(tree, N, c)
            /\ Cardinality(Below(tree, N, c)) \in Nat /\ Cardinality(Below(tree, N, p)) \in Nat
            /\ Cardinality(Below(tree, N, c)) < Cardinality(Below(tree, N, p))
        BY BelowShrinks
      <4>2. Cardinality(Below(tree, N, c)) <= d
        BY <2>1, <4>1
      <4>3. Whole(b[d][c], tree.parent, Below(tree, N, c), {c})
        BY <1>3, <4>1, <4>2
      <4>4. Heap(tree, N)[c] = {c} \cup Below(tree, N, c)
        BY <4>1 DEF Heap
      <4>5. tree.parent[c] = p
        BY DEF Kids
      <4>. QED
        BY <4>1, <4>3, <4>4, <4>5 DEF Whole, Branch
    <3>5. Branches(Children(tree, p), b[d], tree.parent, Heap(tree, N), p)
      <4>1. \A c, e \in Kids(tree, N, p) : c # e => Heap(tree, N)[c] \cap Heap(tree, N)[e] = {}
        BY BelowIsHeaped
      <4>. QED
        BY <3>2, <3>4, <4>1 DEF Branches
    <3>6. Whole(Laid(Children(tree, p), b[d]), tree.parent,
                Heaped(Heap(tree, N), ToSet(Children(tree, p))), {p})
      BY <3>2, <3>3, <3>5, LaidWhole
    <3>7. Below(tree, N, p) = Heaped(Heap(tree, N), Kids(tree, N, p))
      BY BelowIsHeaped
    <3>. QED
      BY <3>1, <3>2, <3>6, <3>7
  <2>. QED
    BY <2>1
<1>. HIDE DEF Good
<1>4. T \in SUBSET Nat /\ 0 \in T /\ \A d \in T : d + 1 \in T
  BY <1>2, <1>3
<1>5. n \in T
  <2>. HIDE DEF T
  <2>. QED
    BY <1>4, NatSets
<1>. QED
  BY <1>5 DEF T, Good

\* The nodes with nothing closed above them.
Open(tree, N, closed) == {i \in N : Above(tree, i) \cap closed = {}}

\* With rounds enough, closing leaves what is open.
LEMMA RowsOpen ==
    ASSUME NEW tree, NEW N, Forest(tree, N), NEW closed, NEW b, RowsBy(b, tree, N, {}),
           NEW s, RowsBy(s, tree, N, closed),
           NEW n \in Nat, NEW q \in Open(tree, N, closed) \cup {NoParent},
           Cardinality(Below(tree, N, q)) <= n
    PROVE  s[n][q] = IF q \in closed THEN <<>> ELSE Kept(b[n][q], Open(tree, N, closed))
<1>p. PICK O : O = Open(tree, N, closed)
  OBVIOUS
<1>0. O \subseteq N /\ NoParent \notin N /\ \A i \in N : i \in O <=> Above(tree, i) \cap closed = {}
  BY <1>p DEF Forest, Open
<1> DEFINE Good(d) == \A p \in O \cup {NoParent} : Cardinality(Below(tree, N, p)) <= d =>
                          s[d][p] = IF p \in closed THEN <<>> ELSE Kept(b[d][p], O)
           T == {d \in Nat : Good(d)}
<1>1. Good(0)
  <2>1. ASSUME NEW p \in O \cup {NoParent} PROVE s[0][p] = <<>> /\ b[0][p] = <<>>
    BY <1>0 DEF RowsBy
  <2>2. Kept(<<>>, O) = <<>>
    BY KeptEmpty
  <2>. QED
    BY <2>1, <2>2
<1>2. ASSUME NEW d \in Nat, Good(d) PROVE Good(d + 1)
  <2>1. ASSUME NEW p \in O \cup {NoParent}, Cardinality(Below(tree, N, p)) <= d + 1, p \notin closed
        PROVE  s[d + 1][p] = Kept(b[d + 1][p], O)
    <3>1. p \in N \cup {NoParent}
      BY <1>0
    <3>2. s[d + 1][p] = Laid(Children(tree, p), s[d]) /\ b[d + 1][p] = Laid(Children(tree, p), b[d])
      BY <2>1, <3>1 DEF RowsBy
    <3>3. Children(tree, p) \in Seq(N) /\ ToSet(Children(tree, p)) = Kids(tree, N, p)
      BY ChildrenAreKids
    <3>4. (\A x \in N : b[d][x] \in Seq(N)) /\ (\A x \in N : s[d][x] \in Seq(N))
      BY DEF RowsBy
    <3>5. ASSUME NEW c \in Kids(tree, N, p) PROVE c \in O /\ Kept(b[d][c], O) = s[d][c]
      <4>1. /\ c \in N
            /\ Cardinality(Below(tree, N, c)) \in Nat /\ Cardinality(Below(tree, N, p)) \in Nat
            /\ Cardinality(Below(tree, N, c)) < Cardinality(Below(tree, N, p))
        BY <3>1, BelowShrinks
      <4>2. Cardinality(Below(tree, N, c)) <= d
        BY <2>1, <4>1
      <4>3. c \in O
        <5>1. tree.parent[c] = p
          BY DEF Kids
        <5>2. CASE p = NoParent
          BY <1>0, <4>1, <5>1, <5>2, AboveByStep
        <5>3. CASE p # NoParent
          <6>1. p \in O /\ Above(tree, c) = {p} \cup Above(tree, p)
            BY <4>1, <5>1, <5>3, AboveByStep
          <6>. QED
            BY <1>0, <2>1, <4>1, <6>1
        <5>. QED
          BY <5>2, <5>3
      <4>4. s[d][c] = IF c \in closed THEN <<>> ELSE Kept(b[d][c], O)
        BY <1>2, <4>2, <4>3
      <4>5. ASSUME c \in closed PROVE Kept(b[d][c], O) = <<>>
        <5>1. Whole(b[d][c], tree.parent, Below(tree, N, c), {c})
          BY <4>1, <4>2, RowsWhole
        <5>2. ToSet(b[d][c]) = Below(tree, N, c)
          BY <5>1 DEF Whole
        <5>3. \A j \in Below(tree, N, c) : j \in N /\ c \in Above(tree, j)
          BY <1>0, <4>1 DEF Below
        <5>4. ToSet(b[d][c]) \cap O = {}
          BY <1>0, <4>5, <5>2, <5>3
        <5>5. PICK r : r = b[d][c]
          OBVIOUS
        <5>6. r \in Seq(N) /\ ToSet(r) \cap O = {}
          BY <3>4, <4>1, <5>4, <5>5
        <5>7. Kept(r, O) = <<>>
          BY <5>6, KeptAllOrNone
        <5>. QED
          BY <5>5, <5>7
      <4>. QED
        BY <4>3, <4>4, <4>5
    <3>6. KeptOf(Children(tree, p), b[d], s[d], O)
      BY <3>3, <3>5 DEF KeptOf
    <3>7. Kept(Laid(Children(tree, p), b[d]), O) = Laid(Children(tree, p), s[d])
      <4>1. PICK I, R, Q : I = Children(tree, p) /\ R = b[d] /\ Q = s[d]
        OBVIOUS
      <4>2. /\ I \in Seq(N) /\ (\A x \in N : R[x] \in Seq(N)) /\ (\A x \in N : Q[x] \in Seq(N))
            /\ KeptOf(I, R, Q, O)
        BY <3>3, <3>4, <3>6, <4>1
      <4>. HIDE DEF T, Good
      <4>3. Kept(Laid(I, R), O) = Laid(I, Q)
        BY <4>2, LaidKept
      <4>. QED
        BY <4>1, <4>3
    <3>. QED
      BY <3>2, <3>7
  <2>2. ASSUME NEW p \in O \cup {NoParent}, p \in closed PROVE s[d + 1][p] = <<>>
    BY <1>0, <2>2 DEF RowsBy
  <2>. QED
    BY <2>1, <2>2
<1>. HIDE DEF Good
<1>4. T \in SUBSET Nat /\ 0 \in T /\ \A d \in T : d + 1 \in T
  BY <1>1, <1>2
<1>5. n \in T
  <2>. HIDE DEF T
  <2>. QED
    BY <1>4, NatSets
<1>. QED
  BY <1>5, <1>p DEF T, Good

\* The rows of a forest are all its nodes, each once and below its parent.
LEMMA TreeRowsWhole ==
    ASSUME NEW tree, NEW N, Forest(tree, N)
    PROVE  /\ TreeRows(tree, {}) \in Seq(N)
           /\ Whole(TreeRows(tree, {}), tree.parent, N, {NoParent})
<1>1. PICK b : RowsBy(b, tree, N, {}) /\ TreeRows(tree, {}) = b[Len(tree.order)][NoParent]
  BY RowsTurns
<1>2. /\ DOMAIN tree.order = 1 .. Len(tree.order) /\ Len(tree.order) \in Nat /\ ToSet(tree.order) = N
      /\ Below(tree, N, NoParent) = N
  BY DEF Forest, Below
<1>3. Cardinality(Below(tree, N, NoParent)) <= Len(tree.order)
  BY <1>2, SetOfSeq
<1>4. Whole(b[Len(tree.order)][NoParent], tree.parent, Below(tree, N, NoParent), {NoParent})
  BY <1>1, <1>2, <1>3, RowsWhole
<1>5. b[Len(tree.order)][NoParent] \in Seq(N)
  BY <1>1, <1>2 DEF RowsBy
<1>. QED
  BY <1>1, <1>2, <1>4, <1>5

\* Closing rows hides what is below them, and nothing else.
LEMMA TreeRowsOpen ==
    ASSUME NEW tree, NEW N, Forest(tree, N), NEW closed, NoParent \notin closed
    PROVE  TreeRows(tree, closed) = Kept(TreeRows(tree, {}), Open(tree, N, closed))
<1>1. PICK b : RowsBy(b, tree, N, {}) /\ TreeRows(tree, {}) = b[Len(tree.order)][NoParent]
  BY RowsTurns
<1>2. PICK s : RowsBy(s, tree, N, closed) /\ TreeRows(tree, closed) = s[Len(tree.order)][NoParent]
  BY RowsTurns
<1>3. /\ DOMAIN tree.order = 1 .. Len(tree.order) /\ Len(tree.order) \in Nat /\ ToSet(tree.order) = N
      /\ Below(tree, N, NoParent) = N
  BY DEF Forest, Below
<1>4. Cardinality(Below(tree, N, NoParent)) <= Len(tree.order)
  BY <1>3, SetOfSeq
<1>5. PICK n : n = Len(tree.order)
  OBVIOUS
<1>6. s[n][NoParent] = IF NoParent \in closed THEN <<>> ELSE Kept(b[n][NoParent], Open(tree, N, closed))
  BY <1>1, <1>2, <1>3, <1>4, <1>5, RowsOpen
<1>. QED
  BY <1>1, <1>2, <1>5, <1>6

(***************************************************************************)
(* The roll-ups of a forest.                                               *)
(***************************************************************************)

\* The turns of Rollups, over the rows pre and from the weights w.
RollsBy(r, tree, N, w, pre) ==
    /\ r \in [0 .. Len(pre) -> [N -> Nat]] /\ r[0] = w
    /\ \A k \in 1 .. Len(pre) : r[k] = FoldInto(tree, r[k - 1], pre[Len(pre) + 1 - k])

\* FoldInto adds to one node what its children's roll-ups come to.
LEMMA FoldIntoIn ==
    ASSUME NEW tree, NEW N, Forest(tree, N), NEW v \in [N -> Nat], NEW i \in N
    PROVE  /\ AddedUp(Children(tree, i), v) \in Nat
           /\ FoldInto(tree, v, i) \in [N -> Nat]
           /\ \A j \in N : FoldInto(tree, v, i)[j] =
                  IF j = i THEN v[i] + AddedUp(Children(tree, i), v) ELSE v[j]
<1>1. Children(tree, i) \in Seq(N) /\ \A x \in N : v[x] \in Nat
  BY ChildrenAreKids
<1>2. AddedUp(Children(tree, i), v) \in Nat
  BY <1>1, AddedUpIn
<1>. QED
  BY <1>2 DEF FoldInto

\* The same of one node.
Folded(tree, v, i, j) ==
    FoldInto(tree, v, i)[j] = IF j = i THEN v[i] + AddedUp(Children(tree, i), v) ELSE v[j]

\* FoldInto, of one node.
LEMMA FoldIntoFolded ==
    ASSUME NEW tree, NEW N, Forest(tree, N), NEW v \in [N -> Nat], NEW i \in N, NEW j \in N
    PROVE  Folded(tree, v, i, j)
BY FoldIntoIn DEF Folded

\* Rollups has its turns.
LEMMA RollsTurns ==
    ASSUME NEW tree, NEW N, Forest(tree, N), NEW rows, NEW w \in [N -> Nat],
           w = [i \in N |-> Weight(rows, i)]
    PROVE  \E r : /\ RollsBy(r, tree, N, w, TreeRows(tree, {}))
                  /\ Rollups(rows, tree) = r[Len(TreeRows(tree, {}))]
<1>p. PICK pre, n : pre = TreeRows(tree, {}) /\ n = Len(pre)
  OBVIOUS
<1>1. pre \in Seq(N) /\ n \in Nat /\ DOMAIN tree.parent = N
  <2>1. pre \in Seq(N)
    BY <1>p, TreeRowsWhole
  <2>2. n \in Nat
    BY <1>p, <2>1
  <2>. QED
    BY <2>1, <2>2 DEF Forest
<1> DEFINE A == [N -> Nat]
           Turn(k, v) == FoldInto(tree, v, pre[n + 1 - k])
           turn == [k \in 1 .. n |-> [v \in A |-> Turn(k, v)]]
           Body(g) == [k \in 0 .. n |-> IF k = 0 THEN w ELSE Turn(k, g[k - 1])]
           loop == CHOOSE g : g = Body(g)
<1>2. w \in A /\ \A k \in 1 .. n : \A v \in A : Turn(k, v) \in A
  <2>1. ASSUME NEW k \in 1 .. n PROVE pre[n + 1 - k] \in N
    <3>1. n + 1 - k \in 1 .. n
      BY <1>1
    <3>. QED
      BY <1>1, <1>p, <3>1
  <2>. QED
    BY <2>1, FoldIntoIn
<1>3. Rollups(rows, tree) = loop[n]
  BY <1>1, <1>p DEF Rollups
<1>. HIDE DEF A, Turn
<1>4. turn \in [1 .. n -> [A -> A]] /\ \A k \in 1 .. n : \A v \in A : turn[k][v] = Turn(k, v)
  BY <1>2
<1>. HIDE DEF turn
<1>5. PICK g \in [0 .. n -> A] : Turns(g, n, w, turn)
  <2>. HIDE DEF loop, Body
  <2>1. n \in Nat /\ w \in A /\ turn \in [1 .. n -> [A -> A]]
    BY <1>1, <1>2, <1>4
  <2>. QED
    BY <2>1, TurnsExist
<1>6. g = Body(g)
  <2>1. ASSUME NEW k \in 1 .. n PROVE g[k] = Turn(k, g[k - 1])
    <3>1. k - 1 \in 0 .. n
      BY <1>1
    <3>. QED
      BY <1>4, <1>5, <3>1 DEF Turns
  <2>2. ASSUME NEW k \in 0 .. n PROVE g[k] = IF k = 0 THEN w ELSE Turn(k, g[k - 1])
    <3>1. k = 0 \/ k \in 1 .. n
      BY <1>1
    <3>. QED
      BY <1>5, <2>1, <3>1 DEF Turns
  <2>. QED
    BY <1>5, <2>2
<1>7. loop = Body(loop)
  <2>. HIDE DEF Body
  <2>. QED
    BY <1>6
<1>8. DOMAIN loop = 0 .. n /\ loop[0] = w /\ \A k \in 1 .. n : loop[k] = Turn(k, loop[k - 1])
  <2>. HIDE DEF loop
  <2>1. \A k \in 0 .. n : loop[k] = IF k = 0 THEN w ELSE Turn(k, loop[k - 1])
    BY <1>7
  <2>2. DOMAIN loop = 0 .. n
    BY <1>7
  <2>3. loop[0] = w
    BY <1>1, <2>1
  <2>4. ASSUME NEW k \in 1 .. n PROVE loop[k] = Turn(k, loop[k - 1])
    <3>1. k \in 0 .. n /\ k # 0
      BY <1>1
    <3>. QED
      BY <2>1, <3>1
  <2>. QED
    BY <2>2, <2>3, <2>4
<1>9. loop = [k \in 0 .. n |-> loop[k]]
  <2>. HIDE DEF loop
  <2>. QED
    BY <1>7
<1>. HIDE DEF loop
<1>10. \A k \in 0 .. n : loop[k] \in A
  <2>1. \A k \in 1 .. n : loop[k - 1] \in A => loop[k] \in A
    BY <1>2, <1>8
  <2>2. loop[0] \in A
    BY <1>2, <1>8
  <2>. QED
    BY <1>1, <2>1, <2>2, TurnsStay
<1>11. loop \in [0 .. n -> A]
  BY <1>9, <1>10
<1>12. RollsBy(loop, tree, N, w, pre)
  BY <1>8, <1>11, <1>p DEF RollsBy, Turn, A
<1>. QED
  BY <1>3, <1>12, <1>p

\* What a node's roll-up should come to.
Comes(r, pre, tree, N, i, w) == r[Len(pre)][i] = Total(tree.order, Heap(tree, N)[i], w)

\* Of a node that is reached, the roll-up is what its heap weighs.
LEMMA RollsExact ==
    ASSUME NEW tree, NEW N, Forest(tree, N), NEW w \in [N -> Nat],
           NEW pre \in Seq(N), Whole(pre, tree.parent, N, {NoParent}),
           NEW r, RollsBy(r, tree, N, w, pre), NEW i \in N
    PROVE  Comes(r, pre, tree, N, i, w)
<1>p. PICK n, order : n = Len(pre) /\ order = tree.order
  OBVIOUS
<1>1. n \in Nat /\ DOMAIN pre = 1 .. n /\ ToSet(pre) = N /\ \A j \in 1 .. n : pre[j] \in N
  BY <1>p DEF Whole
<1>2. \A j, k \in 1 .. n : pre[j] = pre[k] => j = k
  BY <1>1 DEF Whole, IsInjective
<1>3. \A j \in 1 .. n : tree.parent[pre[j]] = NoParent \/ \E h \in 1 .. j - 1 : tree.parent[pre[j]] = pre[h]
  BY <1>1 DEF Whole, Led
<1>o. order \in Seq(N) /\ ToSet(order) = N /\ IsInjective(order) /\ NoParent \notin N
  BY <1>p DEF Forest
<1>h. \A c \in N : Heap(tree, N)[c] = {c} \cup Below(tree, N, c)
  BY DEF Heap
<1>r. /\ r[0] = w /\ \A k \in 0 .. n : r[k] \in [N -> Nat]
      /\ \A k \in 1 .. n : r[k] = FoldInto(tree, r[k - 1], pre[n + 1 - k])
  BY <1>p DEF RollsBy
<1> DEFINE Rolled(k, j) == r[k][pre[j]] = IF j > n - k THEN Total(order, Heap(tree, N)[pre[j]], w)
                                          ELSE w[pre[j]]
           Good(k) == \A j \in 1 .. n : Rolled(k, j)
           T == {k \in 0 .. n : Good(k)}
<1>4. Good(0)
  <2>1. \A j \in 1 .. n : ~(j > n - 0)
    BY <1>1
  <2>. QED
    BY <1>r, <2>1
<1>5. ASSUME NEW k \in 1 .. n, Good(k - 1) PROVE Good(k)
  <2>1. PICK m, v : m = n + 1 - k /\ v = r[k - 1]
    OBVIOUS
  <2>2. m \in 1 .. n /\ pre[m] \in N /\ v \in [N -> Nat] /\ k - 1 \in 0 .. n
    BY <1>1, <1>r, <2>1
  <2>3. r[k] = FoldInto(tree, v, pre[m])
    BY <1>r, <2>1
  <2>4. ASSUME NEW j \in 1 .. n
        PROVE  (j > n - k <=> j > m \/ j = m) /\ (j > n - (k - 1) <=> j > m)
    <3>. HIDE DEF Good, T
    <3>1. m = n + 1 - k /\ n \in Nat /\ k \in 1 .. n
      BY <1>1, <2>1
    <3>. QED
      BY <3>1
  <2>5. \A j \in 1 .. n : v[pre[j]] = IF j > m THEN Total(order, Heap(tree, N)[pre[j]], w) ELSE w[pre[j]]
    BY <1>5, <2>1, <2>4
  <2>. HIDE DEF Good
  <2>6. \A x \in N : r[k][x] = IF x = pre[m] THEN v[pre[m]] + AddedUp(Children(tree, pre[m]), v) ELSE v[x]
    <3>1. ASSUME NEW x \in N
          PROVE  FoldInto(tree, v, pre[m])[x] =
                     IF x = pre[m] THEN v[pre[m]] + AddedUp(Children(tree, pre[m]), v) ELSE v[x]
      <4>1. PICK q : q = pre[m]
        OBVIOUS
      <4>2. q \in N /\ v \in [N -> Nat]
        BY <2>2, <4>1
      <4>. HIDE DEF T
      <4>3. FoldInto(tree, v, q)[x] = IF x = q THEN v[q] + AddedUp(Children(tree, q), v) ELSE v[x]
        <5>1. Folded(tree, v, q, x)
          BY <4>2, FoldIntoFolded
        <5>. QED
          BY <5>1 DEF Folded
      <4>. QED
        BY <4>1, <4>3
    <3>. QED
      BY <2>3, <3>1
  <2>7. ASSUME NEW j \in 1 .. n, j # m PROVE Rolled(k, j)
    <3>1. pre[j] # pre[m] /\ pre[j] \in N
      BY <1>1, <1>2, <2>2, <2>7
    <3>2. r[k][pre[j]] = v[pre[j]]
      BY <2>6, <3>1
    <3>. QED
      BY <2>4, <2>5, <2>7, <3>2
  <2>8. r[k][pre[m]] = Total(order, Heap(tree, N)[pre[m]], w)
    <3>1. PICK p, ids : p = pre[m] /\ ids = Children(tree, p)
      OBVIOUS
    <3>2. p \in N /\ ids \in Seq(N) /\ IsInjective(ids) /\ ToSet(ids) = Kids(tree, N, p)
      BY <2>2, <3>1, ChildrenAreKids
    <3>3. ASSUME NEW c \in ToSet(ids) PROVE v[c] = Total(order, Heap(tree, N)[c], w)
      <4>1. c \in N /\ tree.parent[c] = p
        BY <3>2 DEF Kids
      <4>2. PICK j \in 1 .. n : c = pre[j]
        BY <1>1, <4>1 DEF ToSet
      <4>3. PICK h \in 1 .. j - 1 : p = pre[h]
        BY <1>3, <1>o, <3>2, <4>1, <4>2
      <4>4. h = m
        <5>1. h \in 1 .. n /\ pre[h] = pre[m]
          BY <1>1, <3>1, <4>3
        <5>. QED
          BY <1>2, <2>2, <5>1
      <4>5. j > m
        BY <1>1, <4>3, <4>4
      <4>. QED
        BY <2>5, <4>2, <4>5
    <3>4. \A c, e \in ToSet(ids) : c # e => Heap(tree, N)[c] \cap Heap(tree, N)[e] = {}
      BY <3>2, BelowIsHeaped
    <3>5. Weighs(v, ToSet(ids), order, Heap(tree, N), w)
      BY <3>3, <3>4 DEF Weighs
    <3>6. AddedUp(ids, v) = Total(order, Heaped(Heap(tree, N), ToSet(ids)), w)
      <4>1. PICK H : H = Heap(tree, N)
        OBVIOUS
      <4>2. /\ w \in [N -> Nat] /\ order \in Seq(N) /\ ids \in Seq(N) /\ IsInjective(ids)
            /\ v \in [N -> Nat] /\ Weighs(v, ToSet(ids), order, H, w)
        BY <1>o, <2>2, <3>2, <3>5, <4>1
      <4>. HIDE DEF T
      <4>3. Gathers(ids, v, order, H, w)
        BY <4>2, AddedUpHeaps
      <4>. QED
        BY <4>1, <4>3 DEF Gathers
    <3>7. Heaped(Heap(tree, N), ToSet(ids)) = Below(tree, N, p)
      BY <3>2, BelowIsHeaped
    <3>8. Total(order, {p}, w) = w[p]
      BY <1>o, <3>2, TotalOne
    <3>9. Splits(order, {p}, Below(tree, N, p), w)
      <4>1. p \notin Below(tree, N, p)
        BY <1>o, <3>2, NotAboveSelf DEF Below
      <4>2. Apart({p}, Below(tree, N, p))
        BY <4>1 DEF Apart
      <4>. QED
        BY <1>o, <4>2, TotalSplit
    <3>10. v[p] = w[p]
      <4>1. ~(m > m)
        BY <2>2
      <4>. QED
        BY <2>2, <2>5, <3>1, <4>1
    <3>11. r[k][p] = v[p] + AddedUp(ids, v)
      BY <2>6, <3>1, <3>2
    <3>12. r[k][p] = Total(order, {p} \cup Below(tree, N, p), w)
      BY <3>6, <3>7, <3>8, <3>9, <3>10, <3>11 DEF Splits
    <3>. QED
      BY <1>h, <3>1, <3>2, <3>12
  <2>9. Rolled(k, m)
    BY <2>2, <2>4, <2>8
  <2>. QED
    BY <2>7, <2>9 DEF Good
<1>. HIDE DEF Good
<1>6. 0 \in T /\ \A k \in 1 .. n : k - 1 \in T => k \in T
  BY <1>1, <1>4, <1>5
<1>7. n \in T
  <2>. HIDE DEF T
  <2>1. 0 .. n \subseteq T
    BY <1>1, <1>6, UpTo
  <2>. QED
    BY <1>1, <2>1
<1>8. Good(n)
  BY <1>7
<1>9. PICK j \in 1 .. n : i = pre[j]
  BY <1>1 DEF ToSet
<1>10. j > n - n
  BY <1>1
<1>. QED
  BY <1>8, <1>9, <1>10, <1>p DEF Good, Comes

\* What the spans in D used is what D weighs, placeholders and all.
SpansWeigh(order, D, w) == AddedUp(Kept(arrived, D), Tokens) = Total(order, D, w)

\* Adding up the tokens of some spans is weighing them among the nodes.
LEMMA SpansAddUp ==
    ASSUME TreeTypeOK, NEW N, ToSet(arrived) \subseteq N,
           NEW order \in Seq(N), ToSet(order) = N, IsInjective(order),
           NEW w \in [N -> Nat], \A i \in N : w[i] = Weight(arrived, i), NEW D \in SUBSET N
    PROVE  SpansWeigh(order, D, w)
<1>p. PICK R, k : R = ToSet(arrived) /\ k = Kept(arrived, D)
  OBVIOUS
<1>1. arrived \in Seq(R) /\ arrived \in Seq(N) /\ IsInjective(arrived) /\ R \subseteq N
  <2>1. arrived \in Seq(TreeSpans) /\ IsInjective(arrived)
    BY DEF TreeTypeOK
  <2>2. arrived \in Seq(R)
    BY <1>p, <2>1, SeqOfSet
  <2>3. R \subseteq N
    BY <1>p
  <2>. QED
    BY <2>1, <2>2, <2>3
<1>2. k \in Seq(R) /\ IsInjective(k) /\ ToSet(k) = R \cap D
  BY <1>p, <1>1, KeptMembers
<1>3. k \in Seq(N)
  BY <1>1, <1>2
<1>4. \A x \in R : w[x] = Tokens[x] /\ Tokens[x] \in Nat
  <2>1. R \subseteq TreeSpans
    BY <1>p DEF TreeTypeOK, ToSet
  <2>. QED
    BY <1>p, <1>1, <2>1, ContainsIsIn, TreeAssumption DEF Weight
<1>5. AddedUp(k, Tokens) = AddedUp(k, w)
  <2>1. PICK v : v = Tokens
    OBVIOUS
  <2>2. Natural(w, R) /\ Natural(v, R) /\ Alike(v, w, ToSet(k))
    BY <1>2, <1>4, <2>1 DEF Natural, Alike
  <2>3. Agree(k, v, w)
    BY <1>2, <2>2, AddedUpAlike
  <2>. QED
    BY <2>1, <2>3 DEF Agree
<1>6. AddedUp(k, w) = Total(order, R \cap D, w)
  <2>1. PICK heap : heap = [x \in N |-> {x}]
    OBVIOUS
  <2>2. \A x \in N : Total(order, {x}, w) = w[x]
    BY TotalOne
  <2>3. Weighs(w, ToSet(k), order, heap, w)
    BY <1>1, <1>2, <2>1, <2>2 DEF Weighs
  <2>4. Gathers(k, w, order, heap, w)
    BY <1>2, <1>3, <2>3, AddedUpHeaps
  <2>5. Heaped(heap, R \cap D) = R \cap D
    <3>1. \A x \in R \cap D : heap[x] = {x}
      BY <1>1, <2>1
    <3>. QED
      BY <3>1 DEF Heaped
  <2>. QED
    BY <1>2, <2>4, <2>5 DEF Gathers
<1>7. Total(order, D, w) = Total(order, R \cap D, w)
  <2>1. PICK E : E = D \ R
    OBVIOUS
  <2>2. Total(order, E, w) = 0
    <3>1. \A x \in E \cap N : w[x] = 0
      BY <1>p, <2>1, ContainsIsIn DEF Weight
    <3>. QED
      BY <3>1, TotalNothing
  <2>3. Splits(order, R \cap D, E, w)
    <3>1. Apart(R \cap D, E)
      BY <2>1 DEF Apart
    <3>. QED
      BY <3>1, TotalSplit
  <2>4. Total(order, R \cap D, w) \in Nat
    BY TotalIn
  <2>5. (R \cap D) \cup E = D
    BY <2>1
  <2>6. Total(order, (R \cap D) \cup E, w) = Total(order, R \cap D, w) + Total(order, E, w)
    BY <2>3 DEF Splits
  <2>7. PICK t : t = Total(order, R \cap D, w)
    OBVIOUS
  <2>8. t \in Nat /\ Total(order, D, w) = t + 0
    BY <2>2, <2>4, <2>5, <2>6, <2>7
  <2>. QED
    BY <2>7, <2>8
<1>. QED
  BY <1>p, <1>5, <1>6, <1>7 DEF SpansWeigh

\* In a forest over the spans, and the placeholders, roll-ups are exact.
Exact(tree) ==
    LET roll == Rollups(arrived, tree) IN
    /\ \A i \in DOMAIN roll :
           roll[i] = TokenTotal(Kept(arrived, {j \in DOMAIN roll : j = i \/ i \in Above(tree, j)}))
    /\ TokenTotal(arrived) = AddedUp(Children(tree, NoParent), roll)

\* A forest over the spans rolls up exactly.
LEMMA RollupsOfForest ==
    ASSUME TreeTypeOK, NEW tree, NEW N, Forest(tree, N), ToSet(arrived) \subseteq N
    PROVE  Exact(tree)
<1>0. /\ NoParent \notin N /\ tree.order \in Seq(N) /\ ToSet(tree.order) = N /\ IsInjective(tree.order)
      /\ arrived \in Seq(N) /\ DOMAIN tree.parent = N
  <2>1. arrived \in Seq(TreeSpans)
    BY DEF TreeTypeOK
  <2>2. arrived \in Seq(N)
    BY <2>1, SeqOfSet
  <2>. QED
    BY <2>2 DEF Forest
<1>p. PICK order, pre, H, roll : /\ order = tree.order /\ pre = TreeRows(tree, {}) /\ H = Heap(tree, N)
                                 /\ roll = Rollups(arrived, tree)
  OBVIOUS
<1> DEFINE w == [i \in N |-> Weight(arrived, i)]
<1>1. w \in [N -> Nat] /\ \A i \in N : w[i] = Weight(arrived, i)
  <2>1. ASSUME NEW i \in N PROVE Weight(arrived, i) \in Nat
    <3>1. ToSet(arrived) \subseteq TreeSpans
      BY DEF TreeTypeOK, ToSet
    <3>. QED
      BY <3>1, ContainsIsIn, TreeAssumption DEF Weight
  <2>. QED
    BY <2>1
<1>. HIDE DEF w
<1>2. PICK r : RollsBy(r, tree, N, w, pre) /\ roll = r[Len(pre)]
  BY <1>1, <1>p, RollsTurns DEF w
<1>3. pre \in Seq(N) /\ Whole(pre, tree.parent, N, {NoParent})
  BY <1>p, TreeRowsWhole
<1>4. roll \in [N -> Nat]
  <2>1. Len(pre) \in Nat /\ Len(pre) \in 0 .. Len(pre)
    BY <1>3
  <2>. QED
    BY <1>2, <2>1 DEF RollsBy
<1>5. ASSUME NEW i \in N PROVE roll[i] = Total(order, H[i], w)
  <2>1. Comes(r, pre, tree, N, i, w)
    BY <1>1, <1>2, <1>3, RollsExact
  <2>. QED
    BY <1>2, <1>p, <2>1 DEF Comes
<1>6. ASSUME NEW D \in SUBSET N PROVE AddedUp(Kept(arrived, D), Tokens) = Total(order, D, w)
  <2>1. SpansWeigh(order, D, w)
    BY <1>0, <1>1, <1>p, SpansAddUp
  <2>. QED
    BY <2>1 DEF SpansWeigh
<1>7. ASSUME NEW i \in N
      PROVE  roll[i] = TokenTotal(Kept(arrived, {j \in N : j = i \/ i \in Above(tree, j)}))
  <2>1. H[i] = {j \in N : j = i \/ i \in Above(tree, j)}
    BY <1>0, <1>p DEF Heap, Below
  <2>2. AddedUp(Kept(arrived, H[i]), Tokens) = Total(order, H[i], w)
    <3>1. H[i] \in SUBSET N
      BY <2>1
    <3>. QED
      BY <1>6, <3>1
  <2>. QED
    BY <1>5, <2>1, <2>2 DEF TokenTotal
<1>8. TokenTotal(arrived) = AddedUp(Children(tree, NoParent), roll)
  <2>1. PICK ids : ids = Children(tree, NoParent)
    OBVIOUS
  <2>2. ids \in Seq(N) /\ IsInjective(ids) /\ ToSet(ids) = Kids(tree, N, NoParent)
    BY <2>1, ChildrenAreKids
  <2>3. ToSet(ids) \subseteq N
    BY <2>2 DEF Kids
  <2>4. \A c, e \in ToSet(ids) : c # e => H[c] \cap H[e] = {}
    BY <1>p, <2>2, BelowIsHeaped
  <2>5. Weighs(roll, ToSet(ids), order, H, w)
    BY <1>5, <2>3, <2>4 DEF Weighs
  <2>6. Gathers(ids, roll, order, H, w)
    <3>1. order \in Seq(N)
      BY <1>0, <1>p
    <3>. QED
      BY <1>1, <1>4, <2>2, <2>5, <3>1, AddedUpHeaps
  <2>7. Heaped(H, ToSet(ids)) = N
    <3>1. Below(tree, N, NoParent) = Heaped(Heap(tree, N), Kids(tree, N, NoParent))
      BY BelowIsHeaped
    <3>. QED
      BY <1>p, <2>2, <3>1 DEF Below
  <2>8. Kept(arrived, N) = arrived
    BY <1>0, KeptAllOrNone
  <2>9. AddedUp(Kept(arrived, N), Tokens) = Total(order, N, w)
    BY <1>6
  <2>. QED
    BY <2>1, <2>6, <2>7, <2>8, <2>9 DEF Gathers, TokenTotal
<1>9. DOMAIN roll = N
  BY <1>4
<1>. QED
  BY <1>7, <1>8, <1>9, <1>p DEF Exact

(***************************************************************************)
(* The waterfall is sound.                                                 *)
(***************************************************************************)

\* buildSpanTree makes a forest, whatever parents the spans name.
LEMMA TreeIsForest == ASSUME TreeTypeOK PROVE Forest(Tree(arrived), Nodes)
<1>0. NodesOK
  BY NodesAreOK
<1>1. Parents(arrived) \in [Nodes -> Nodes \cup {NoParent}]
  <2>1. PICK a \in Walked : a.safe = Nodes /\ a.parent = Parents(arrived)
    BY AllWalked
  <2>. QED
    BY <2>1 DEF Walked
<1>2. Sorts(Sorted(Nodes, Before(arrived)), Nodes)
  <2>1. IsFiniteSet(Nodes) /\ Ranked(Nodes, Before(arrived))
    BY <1>0, BeforeRanks DEF NodesOK
  <2>. QED
    BY <2>1, SortedSorts
<1>3. \A Z \in SUBSET Nodes : Z # {} => \E z \in Z : Parents(arrived)[z] \notin Z
  BY NoCycleLeft
<1>4. Tree(arrived).parent = Parents(arrived) /\ Tree(arrived).order = Sorted(Nodes, Before(arrived))
  BY DEF Tree, Nodes
<1>. QED
  BY <1>0, <1>1, <1>2, <1>3, <1>4 DEF Forest, Sorts, NodesOK

\* EverySpanOnce follows from the type invariant.
LEMMA SpansAreShown == TreeTypeOK => EverySpanOnce
<1>. SUFFICES ASSUME TreeTypeOK PROVE EverySpanOnce
  OBVIOUS
<1>p. PICK tree, rows : tree = Tree(arrived) /\ rows = TreeRows(tree, {})
  OBVIOUS
<1>1. rows \in Seq(Nodes) /\ Whole(rows, tree.parent, Nodes, {NoParent})
  <2>1. Forest(tree, Nodes)
    BY <1>p, TreeIsForest
  <2>. QED
    BY <1>p, <2>1, TreeRowsWhole
<1>2. Len(rows) = Cardinality(ToSet(rows))
  BY <1>1, LenIsSize DEF Whole
<1>3. ToSet(rows) = Nodes /\ ToSet(arrived) \subseteq Nodes
  BY <1>1, NodesAreThere DEF Whole
<1>4. \A k \in DOMAIN rows : tree.parent[rows[k]] \in {NoParent} \cup {rows[j] : j \in 1 .. k - 1}
  BY <1>1 DEF Whole, Led
<1>. QED
  BY <1>2, <1>3, <1>4, <1>p DEF EverySpanOnce, Nodes

\* RollupsExact follows from the type invariant.
LEMMA RollupsAddUp == TreeTypeOK => RollupsExact
<1>. SUFFICES ASSUME TreeTypeOK PROVE RollupsExact
  OBVIOUS
<1>1. Forest(Tree(arrived), Nodes) /\ ToSet(arrived) \subseteq Nodes
  BY TreeIsForest, NodesAreThere
<1>2. PICK tree : tree = Tree(arrived)
  OBVIOUS
<1>3. Exact(tree)
  BY <1>1, <1>2, RollupsOfForest
<1>. QED
  BY <1>2, <1>3 DEF Exact, RollupsExact

\* CollapseHidesSubtree follows from the type invariant.
LEMMA CollapsingHides == TreeTypeOK => CollapseHidesSubtree
<1>. SUFFICES ASSUME TreeTypeOK PROVE CollapseHidesSubtree
  OBVIOUS
<1>1. PICK tree : tree = Tree(arrived)
  OBVIOUS
<1>2. Forest(tree, Nodes)
  BY <1>1, TreeIsForest
<1>3. NoParent \notin collapsed
  BY <1>2, NodesAreThere DEF TreeTypeOK, Forest
<1>4. TreeRows(tree, collapsed) = Kept(TreeRows(tree, {}), Open(tree, Nodes, collapsed))
  BY <1>2, <1>3, TreeRowsOpen
<1>5. Open(tree, Nodes, collapsed) = {i \in DOMAIN tree.parent : Above(tree, i) \cap collapsed = {}}
  BY <1>2 DEF Open, Forest
<1>. QED
  BY <1>1, <1>4, <1>5 DEF CollapseHidesSubtree, Visible

\* The same spans in another order.
Reordered(rows) == rows \in Seq(TreeSpans) /\ ToSet(rows) = ToSet(arrived)

\* No two spans or more are each other's ancestors.
NoRings == \A i \in ToSet(arrived) : i \in Chain(i) => names[i] = i

\* The nodes, the parents they ask for and the order of siblings do not depend on the
\* order the rows come in.
LEMMA ReorderedSame ==
    ASSUME TreeTypeOK, NEW rows, Reordered(rows)
    PROVE  /\ ToSet(ById(rows)) = Nodes /\ ById(rows) \in Seq(ParentIds)
           /\ Named(rows) = Named(arrived) /\ Before(rows) = Before(arrived)
<1>0. Reordered(arrived)
  BY DEF Reordered, TreeTypeOK
<1>1. ToSet(ById(rows)) = Nodes /\ ById(rows) \in Seq(ParentIds)
  <2>1. ToSet(ById(rows)) = ToSet(arrived) \cup Stubs /\ ById(rows) \in Seq(ParentIds)
    BY NodesExact DEF Reordered
  <2>2. ToSet(ById(arrived)) = ToSet(arrived) \cup Stubs
    BY <1>0, NodesExact DEF Reordered
  <2>. QED
    BY <2>1, <2>2 DEF Nodes
<1>2. \A x : Contains(rows, x) <=> Contains(arrived, x)
  <2>1. \A x : Contains(rows, x) <=> x \in ToSet(rows)
    BY DEF Reordered, Contains, ToSet
  <2>. QED
    BY <2>1, ContainsIsIn DEF Reordered
<1>3. Named(rows) = Named(arrived)
  BY <1>1, <1>2 DEF Named, Nodes
<1>4. \A i : StartOf(rows, i) = StartOf(arrived, i)
  BY <1>2 DEF StartOf, Reordered
<1>5. Before(rows) = Before(arrived)
  <2>1. [i \in Nodes |-> StartOf(rows, i)] = [i \in Nodes |-> StartOf(arrived, i)]
    BY <1>4
  <2>. QED
    BY <1>1, <2>1 DEF Before, Nodes
<1>. QED
  BY <1>1, <1>3, <1>5

\* Following parent leads round nowhere.
Acyclic(parent, N) == \A Z \in SUBSET N : Z # {} => \E z \in Z : parent[z] \notin Z

\* Without rings the parents the spans name go round nowhere.
LEMMA NamedIsAcyclic ==
    ASSUME TreeTypeOK, NoRings
    PROVE  Acyclic(Named(arrived), Nodes)
<1>0. NodesOK
  BY NodesAreOK
<1>1. PICK a \in Walked : a.safe = Nodes /\ a.parent = Parents(arrived)
  BY AllWalked
<1>2. ASSUME NEW x \in Nodes PROVE a.parent[x] = Named(arrived)[x]
  <2>. SUFFICES ASSUME a.parent[x] # Named(arrived)[x] PROVE FALSE
    OBVIOUS
  <2>1. a.parent[x] = NoParent /\ x \in Chain(x)
    BY DEF Walked
  <2>2. x \in ToSet(arrived) /\ names[x] # x
    BY <1>0, <2>1 DEF NodesOK
  <2>. QED
    BY <2>1, <2>2 DEF NoRings
<1>3. ASSUME NEW Z \in SUBSET Nodes, Z # {} PROVE \E z \in Z : Named(arrived)[z] \notin Z
  <2>1. PICK z \in Z : Parents(arrived)[z] \notin Z
    BY <1>3, NoCycleLeft
  <2>2. Parents(arrived)[z] = Named(arrived)[z]
    BY <1>1, <1>2
  <2>. QED
    BY <2>1, <2>2
<1>. QED
  BY <1>3 DEF Acyclic

\* The walk ends elsewhere than where it has been.
EndsOpen(p, n, N) == p[n] \notin {p[k] : k \in 0 .. n - 1} /\ {p[k] : k \in 0 .. n - 1} \subseteq N

\* Walking up where nothing goes round, a walk does not meet itself.
LEMMA WalkDoesNotClose ==
    ASSUME NEW N, NoParent \notin N, NEW parent \in [N -> N \cup {NoParent}],
           Acyclic(parent, N), NEW safe \in SUBSET N, NEW start \in N,
           NEW p, NEW n, IsWalk(p, n, N, parent, safe, start)
    PROVE  EndsOpen(p, n, N)
<1>1. /\ n \in Nat /\ \A k \in 0 .. n - 1 : p[k] \in N /\ p[k + 1] = parent[p[k]]
  BY DEF IsWalk
<1>2. ASSUME p[n] \in {p[k] : k \in 0 .. n - 1} PROVE FALSE
  <2>1. PICK m \in 0 .. n - 1 : p[n] = p[m]
    BY <1>2
  <2> DEFINE Z == {p[k] : k \in m .. n - 1}
  <2>2. Z \in SUBSET N /\ p[m] \in Z
    BY <1>1
  <2>3. ASSUME NEW k \in m .. n - 1 PROVE parent[p[k]] \in Z
    <3>1. k \in 0 .. n - 1 /\ (k + 1 = n \/ k + 1 \in m .. n - 1)
      BY <1>1
    <3>2. parent[p[k]] = p[k + 1]
      BY <1>1, <3>1
    <3>. QED
      BY <2>1, <2>2, <3>1, <3>2
  <2>4. \A z \in Z : parent[z] \in Z
    BY <2>3
  <2>. HIDE DEF Z
  <2>. QED
    BY <2>2, <2>4 DEF Acyclic
<1>. QED
  BY <1>1, <1>2 DEF EndsOpen

\* One turn of the loop, without rings.
LEMMA TurnCutsNothing ==
    ASSUME TreeTypeOK, NoRings, NEW a, a.parent = Named(arrived), a.safe \in SUBSET Nodes, NEW start \in Nodes
    PROVE  OneWalk(a, start).parent = Named(arrived) /\ OneWalk(a, start).safe \in SUBSET Nodes
<1>0. /\ IsFiniteSet(Nodes) /\ NoParent \notin Nodes
      /\ Named(arrived) \in [Nodes -> Nodes \cup {NoParent}]
  BY NodesAreOK DEF NodesOK
<1>1. PICK N, parent, safe : N = Nodes /\ parent = Named(arrived) /\ safe = a.safe
  OBVIOUS
<1>2. /\ IsFiniteSet(N) /\ NoParent \notin N /\ parent \in [N -> N \cup {NoParent}]
      /\ safe \in SUBSET N /\ start \in N
  BY <1>0, <1>1
<1>3. PICK p, n : IsWalk(p, n, N, parent, safe, start) /\ Outcome(Walk(parent, safe, start), p, n)
  <2>1. \E p, n : IsWalk(p, n, N, parent, safe, start) /\ Outcome(Walk(parent, safe, start), p, n)
    BY <1>2, WalkIsWalk, Zenon
  <2>. QED
    BY <2>1
<1>4. Acyclic(parent, N)
  BY <1>1, NamedIsAcyclic
<1>5. EndsOpen(p, n, N)
  BY <1>2, <1>3, <1>4, WalkDoesNotClose
<1>6. PICK walk : walk = Walk(parent, safe, start)
  OBVIOUS
<1>7. walk.path = {p[k] : k \in 0 .. n - 1} /\ walk.at = p[n]
  BY <1>3, <1>6 DEF Outcome
<1>8. walk.at \notin walk.path /\ walk.path \subseteq N
  BY <1>5, <1>7 DEF EndsOpen
<1>9. OneWalk(a, start) = [parent |-> IF walk.at \in walk.path THEN [a.parent EXCEPT ![walk.at] = NoParent]
                                     ELSE a.parent,
                           safe   |-> a.safe \cup walk.path]
  BY <1>1, <1>6 DEF OneWalk
<1>. QED
  BY <1>1, <1>2, <1>8, <1>9

\* Where the spans name no cycle, the loop cuts nothing, in whatever order it walks.
LEMMA NothingCut ==
    ASSUME TreeTypeOK, NoRings, NEW rows, Reordered(rows)
    PROVE  Parents(rows) = Named(arrived)
<1> DEFINE order == ById(rows)
           n == Len(order)
           S == 1 .. n
           A == [parent : {Named(arrived)}, safe : SUBSET Nodes]
           base == [parent |-> Named(rows), safe |-> {}]
           pick == [s \in SUBSET S |-> Max(s)]
           turn == [m \in S |-> [acc \in A |-> OneWalk(acc, order[m])]]
<1>1. n \in Nat /\ DOMAIN order = S /\ \A m \in S : order[m] \in Nodes
  <2>1. order \in Seq(ParentIds) /\ ToSet(order) = Nodes
    BY ReorderedSame
  <2>. QED
    BY <2>1 DEF ToSet
<1>2. base \in A
  BY ReorderedSame
<1>3. Picks(pick, S) /\ IsFiniteSet(S) /\ \A s \in SUBSET S : pick[s] = Max(s)
  <2>1. n \in Nat
    BY <1>1
  <2>. HIDE DEF n
  <2>. QED
    BY <2>1, MaxPicks
<1>4. ASSUME NEW acc \in A, NEW start \in Nodes PROVE OneWalk(acc, start) \in A
  <2>1. acc.parent = Named(arrived) /\ acc.safe \in SUBSET Nodes
    OBVIOUS
  <2>2. OneWalk(acc, start).parent = Named(arrived) /\ OneWalk(acc, start).safe \in SUBSET Nodes
    BY <2>1, TurnCutsNothing
  <2>3. OneWalk(acc, start) = [parent |-> OneWalk(acc, start).parent, safe |-> OneWalk(acc, start).safe]
    BY DEF OneWalk
  <2>. QED
    BY <2>2, <2>3
<1>5. /\ turn \in [S -> [A -> A]]
      /\ \A m \in S : \A acc \in A : turn[m][acc] = OneWalk(acc, order[m])
  <2>. HIDE DEF A, S, order
  <2>. QED
    BY <1>1, <1>4
<1> DEFINE Body(iter) == [s \in SUBSET S |-> IF s = {} THEN base
                             ELSE OneWalk(iter[s \ {Max(s)}], order[Max(s)])]
           loop == CHOOSE iter : iter = Body(iter)
<1>6. Parents(rows) = loop[S].parent
  BY <1>1 DEF Parents, FoldLeft, MapThenFoldSet, OneWalk
<1>a. \A acc \in A : acc.parent = Named(arrived)
  OBVIOUS
<1>. HIDE DEF A, S, pick, turn, n, base, order
<1>7. PICK g \in [SUBSET S -> A] : IsFold(g, SUBSET S, A, pick, turn, base)
  BY <1>2, <1>3, <1>5, FoldExists, Zenon
<1>p. \A s \in SUBSET S : s # {} => pick[s] \in S
  BY <1>3 DEF Picks
<1>8. g = Body(g)
  <2>1. ASSUME NEW s \in SUBSET S
        PROVE  g[s] = IF s = {} THEN base ELSE OneWalk(g[s \ {Max(s)}], order[Max(s)])
    <3>1. /\ s = {} => g[s] = base
          /\ s # {} => g[s] = turn[pick[s]][g[s \ {pick[s]}]]
      BY <1>7 DEF IsFold
    <3>2. s # {} => pick[s] \in S /\ g[s \ {pick[s]}] \in A
      BY <1>p
    <3>. QED
      BY <3>1, <3>2, <1>3, <1>5
  <2>. QED
    BY <1>7, <2>1
<1>9. loop = Body(loop)
  <2>. HIDE DEF Body
  <2>. QED
    BY <1>8
<1>10. \A s \in SUBSET S : loop[s] = IF s = {} THEN base
                                     ELSE OneWalk(loop[s \ {Max(s)}], order[Max(s)])
  <2>. HIDE DEF loop
  <2>. QED
    BY <1>9
<1>. HIDE DEF loop
<1>11. IsFold(loop, SUBSET S, A, pick, turn, base)
  <2>1. ASSUME NEW s \in SUBSET S, s # {}, loop[s \ {pick[s]}] \in A
        PROVE  loop[s] = turn[pick[s]][loop[s \ {pick[s]}]]
    <3>1. loop[s] = OneWalk(loop[s \ {pick[s]}], order[pick[s]])
      BY <1>3, <1>10, <2>1
    <3>. QED
      BY <1>5, <1>p, <2>1, <3>1
  <2>2. loop[{}] = base
    BY <1>10
  <2>. QED
    BY <2>1, <2>2 DEF IsFold
<1>12. loop[S] \in A
  BY <1>2, <1>3, <1>5, <1>11, FoldStays, Zenon
<1>. QED
  BY <1>6, <1>12, <1>a

\* ReloadShowsSame follows from the type invariant.
LEMMA ReloadingShowsSame == TreeTypeOK => ReloadShowsSame
<1>. SUFFICES ASSUME TreeTypeOK, NoRings
              PROVE  Visible(Tree(arrived)) = Visible(Tree(
                         Sorted(ToSet(arrived), {pair \in TreeSpans \X TreeSpans : pair[1] < pair[2]})))
  BY DEF ReloadShowsSame, NoRings
<1>p. PICK before, rows : /\ before = {pair \in TreeSpans \X TreeSpans : pair[1] < pair[2]}
                          /\ rows = Sorted(ToSet(arrived), before)
  OBVIOUS
<1>1. ToSet(arrived) \subseteq TreeSpans /\ IsFiniteSet(ToSet(arrived)) /\ TreeSpans \subseteq Nat
  BY SetOfSeq, TreeAssumption DEF TreeTypeOK, ToSet, TreeSpans
<1>2. Ranked(ToSet(arrived), before)
  <2>1. ASSUME NEW Z \in SUBSET ToSet(arrived), Z # {}
        PROVE  \E i \in Z : \A j \in Z \ {i} : <<i, j>> \in before
    <3>1. PICK i \in Z : \A j \in Z : i <= j
      <4>1. Z \in SUBSET Nat
        BY <1>1
      <4>. QED
        BY <2>1, <4>1, LeastNat
    <3>2. ASSUME NEW j \in Z \ {i} PROVE <<i, j>> \in before
      <4>1. i \in TreeSpans /\ j \in TreeSpans /\ i \in Nat /\ j \in Nat /\ i <= j /\ i # j
        BY <1>1, <3>1
      <4>2. i < j
        BY <4>1
      <4>. QED
        BY <1>p, <4>1, <4>2
    <3>. QED
      BY <3>2
  <2>. QED
    BY <2>1 DEF Ranked
<1>3. Reordered(rows)
  <2>1. Sorts(rows, ToSet(arrived))
    BY <1>1, <1>2, <1>p, SortedSorts
  <2>. QED
    BY <1>1, <2>1 DEF Sorts, Reordered
<1>4. Reordered(arrived)
  BY DEF Reordered, TreeTypeOK
<1>5. Parents(rows) = Parents(arrived)
  BY <1>3, <1>4, NothingCut
<1>6. ToSet(ById(rows)) = ToSet(ById(arrived)) /\ Before(rows) = Before(arrived)
  BY <1>3, ReorderedSame DEF Nodes
<1>7. Tree(rows) = Tree(arrived)
  BY <1>5, <1>6 DEF Tree
<1>. QED
  BY <1>7, <1>p

\* The waterfall is a faithful picture of the spans.
THEOREM WaterfallIsSound == TreeSpec => []TreeIsSound
<1>1. TreeSpec => []TreeTypeOK
  BY TreeTypeInit, TreeTypeStep, PTL DEF TreeSpec
<1>2. TreeTypeOK => TreeIsSound
  BY SpansAreShown, RollupsAddUp, CutsAreRight, ReloadingShowsSame, CollapsingHides DEF TreeIsSound
<1>. QED
  BY <1>1, <1>2, PTL

======================================================================================
