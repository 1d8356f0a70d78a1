----------------------------- MODULE SharedLemmas -----------------------------
(* Facts about sets of numbers and sequences that several proofs rest on. *)
EXTENDS Integers, Sequences, FiniteSetTheorems, WellFoundedInduction, TLAPS

\* A set of naturals that is not empty has a least element: the sets 0..n-1
\* of its members are well-founded under inclusion.
LEMMA MinimumExists ==
  ASSUME NEW S \in SUBSET Nat, S # {}
  PROVE  \E n \in S : \A m \in S : n <= m
<1> DEFINE Below(n) == 0 .. n - 1
           T == {Below(n) : n \in S}
<1>1. T \subseteq FiniteSubsetsOf(Nat) /\ T # {}
  <2>1. ASSUME NEW n \in S
        PROVE  IsFiniteSet(Below(n)) /\ Below(n) \subseteq Nat
    BY FS_Interval
  <2> QED
    BY <2>1 DEF FiniteSubsetsOf
<1>2. PICK t \in T : \A u \in T : <<u, t>> \notin StrictSubsetOrdering(Nat)
  <2> HIDE DEF T
  <2> QED
    BY <1>1, WFMin, FS_StrictSubsetOrderingWellFounded, Zenon
<1>3. PICK n \in S : t = Below(n)
  OBVIOUS
<1>4. ASSUME NEW m \in S PROVE n <= m
  <2>1. SUFFICES ASSUME m < n PROVE FALSE
    OBVIOUS
  <2>2. Below(m) \subseteq Below(n) /\ Below(m) # Below(n)
    <3>1. m \in Below(n) /\ m \notin Below(m)
      BY <2>1
    <3> QED
      BY <2>1, <3>1
  <2>3. Below(m) \in SUBSET Nat /\ Below(n) \in SUBSET Nat
    OBVIOUS
  <2>4. <<Below(m), t>> \in StrictSubsetOrdering(Nat)
    BY <2>2, <2>3, <1>1, <1>3 DEF StrictSubsetOrdering, FiniteSubsetsOf
  <2> QED
    BY <2>4, <1>2
<1> QED
  BY <1>4

\* A set of naturals that is not empty and has a bound has a greatest element.
LEMMA MaximumExists ==
  ASSUME NEW b \in Nat, NEW S \in SUBSET (0 .. b), S # {}
  PROVE  \E n \in S : \A m \in S : m <= n
<1> DEFINE D == {b - n : n \in S}
<1>1. D \in SUBSET Nat /\ D # {}
  <2>1. \A n \in S : b - n \in Nat
    OBVIOUS
  <2> QED
    BY <2>1
<1>2. PICK d \in D : \A e \in D : d <= e
  <2> HIDE DEF D
  <2> QED
    BY <1>1, MinimumExists
<1>3. PICK n \in S : d = b - n
  OBVIOUS
<1>4. ASSUME NEW m \in S PROVE m <= n
  <2>1. d <= b - m
    BY <1>2
  <2> QED
    BY <1>3, <2>1
<1> QED
  BY <1>4

-----------------------------------------------------------------------------

\* The elements of a sequence, and that none of them occurs twice.
Elems(s) == {s[i] : i \in 1 .. Len(s)}

Once(s) == \A i, j \in 1 .. Len(s) : s[i] = s[j] => i = j

\* What appending an element does to both.
LEMMA AppendElems ==
  ASSUME NEW X, NEW s \in Seq(X), NEW r \in X
  PROVE  /\ Append(s, r) \in Seq(X)
         /\ Elems(Append(s, r)) = Elems(s) \cup {r}
         /\ Once(s) /\ r \notin Elems(s) => Once(Append(s, r))
<1>1. /\ Len(Append(s, r)) = Len(s) + 1
      /\ \A i \in 1 .. Len(s) : Append(s, r)[i] = s[i]
      /\ Append(s, r)[Len(s) + 1] = r
      /\ Len(s) \in Nat
  OBVIOUS
<1>2. Elems(Append(s, r)) = Elems(s) \cup {r}
  <2>1. ASSUME NEW x \in Elems(Append(s, r)) PROVE x \in Elems(s) \cup {r}
    BY <1>1 DEF Elems
  <2>2. ASSUME NEW x \in Elems(s) \cup {r} PROVE x \in Elems(Append(s, r))
    <3>1. CASE x = r
      <4>1. Len(s) + 1 \in 1 .. Len(Append(s, r))
        BY <1>1
      <4> QED
        BY <1>1, <3>1, <4>1 DEF Elems
    <3>2. CASE x \in Elems(s)
      <4>1. PICK i \in 1 .. Len(s) : x = s[i]
        BY <3>2 DEF Elems
      <4>2. i \in 1 .. Len(Append(s, r)) /\ Append(s, r)[i] = x
        BY <1>1, <4>1
      <4> QED
        BY <4>2 DEF Elems
    <3> QED
      BY <3>1, <3>2
  <2> QED
    BY <2>1, <2>2
<1>3. ASSUME Once(s), r \notin Elems(s) PROVE Once(Append(s, r))
  BY <1>1, <1>3 DEF Once, Elems
<1> QED
  BY <1>2, <1>3

\* What taking the first element does.
LEMMA TailElems ==
  ASSUME NEW X, NEW s \in Seq(X), s # <<>>
  PROVE  /\ Tail(s) \in Seq(X)
         /\ Head(s) \in Elems(s)
         /\ Elems(s) = Elems(Tail(s)) \cup {Head(s)}
         /\ Once(s) => Once(Tail(s)) /\ Head(s) \notin Elems(Tail(s))
<1>1. /\ Len(s) \in Nat \ {0}
      /\ Len(Tail(s)) = Len(s) - 1
      /\ Head(s) = s[1]
      /\ \A i \in 1 .. Len(s) - 1 : Tail(s)[i] = s[i + 1]
      /\ Tail(s) \in Seq(X)
  OBVIOUS
<1>2. Head(s) \in Elems(s)
  BY <1>1 DEF Elems
<1>3. ASSUME NEW x \in Elems(Tail(s)) PROVE x \in Elems(s)
  BY <1>1 DEF Elems
<1>4. ASSUME NEW x \in Elems(s), x # Head(s) PROVE x \in Elems(Tail(s))
  <2>1. PICK i \in 1 .. Len(s) : x = s[i]
    BY DEF Elems
  <2>2. i - 1 \in 1 .. Len(Tail(s)) /\ Tail(s)[i - 1] = x
    BY <1>1, <1>4, <2>1
  <2> QED
    BY <2>2 DEF Elems
<1>5. ASSUME Once(s) PROVE Once(Tail(s)) /\ Head(s) \notin Elems(Tail(s))
  <2>1. Once(Tail(s))
    BY <1>1, <1>5 DEF Once
  <2>2. ASSUME NEW i \in 1 .. Len(Tail(s)), Tail(s)[i] = Head(s) PROVE FALSE
    BY <1>1, <1>5, <2>2 DEF Once
  <2> QED
    BY <2>1, <2>2 DEF Elems
<1> QED
  BY <1>1, <1>2, <1>3, <1>4, <1>5

\* A sequence without repetition has as many elements as places.
LEMMA OnceCardinality ==
  ASSUME NEW X, NEW s \in Seq(X), Once(s)
  PROVE  IsFiniteSet(Elems(s)) /\ Cardinality(Elems(s)) = Len(s)
<1>1. Len(s) \in Nat /\ s \in [1 .. Len(s) -> X]
  OBVIOUS
<1>2. [i \in 1 .. Len(s) |-> s[i]] \in Bijection(1 .. Len(s), Elems(s))
  BY <1>1 DEF Bijection, Injection, Surjection, IsInjective, Elems, Once
<1>3. ExistsBijection(1 .. Len(s), Elems(s))
  BY <1>2 DEF ExistsBijection
<1>4. IsFiniteSet(1 .. Len(s))
  BY <1>1, FS_Interval
<1>5. IsFiniteSet(Elems(s))
  BY <1>3, <1>4, FS_Bijection
<1>6. Cardinality(Elems(s)) = Len(s)
  BY <1>1, <1>3, FS_CountingElements
<1> QED
  BY <1>5, <1>6

-----------------------------------------------------------------------------

\* How often x stands in s.
Occurrences(s, x) == Cardinality({i \in DOMAIN s : s[i] = x})

\* It is a number, and an append adds to it what is appended.
LEMMA AppendOccurrences ==
  ASSUME NEW X, NEW s \in Seq(X), NEW r \in X, NEW x
  PROVE  /\ Occurrences(s, x) \in Nat
         /\ Occurrences(Append(s, r), x) = Occurrences(s, x) + IF r = x THEN 1 ELSE 0
<1> DEFINE P == {i \in DOMAIN s : s[i] = x}
           Q == {i \in DOMAIN Append(s, r) : Append(s, r)[i] = x}
<1>1. /\ Len(s) \in Nat /\ DOMAIN s = 1 .. Len(s)
      /\ DOMAIN Append(s, r) = 1 .. Len(s) + 1
      /\ \A i \in 1 .. Len(s) : Append(s, r)[i] = s[i]
      /\ Append(s, r)[Len(s) + 1] = r
  OBVIOUS
<1>2. IsFiniteSet(P) /\ Cardinality(P) \in Nat
  <2>1. IsFiniteSet(1 .. Len(s)) /\ P \in SUBSET (1 .. Len(s))
    BY <1>1, FS_Interval
  <2> QED
    BY <2>1, FS_Subset, FS_CardinalityType
<1>3. CASE r = x
  <2>1. Q = P \cup {Len(s) + 1} /\ Len(s) + 1 \notin P
    BY <1>1, <1>3
  <2>2. Cardinality(Q) = Cardinality(P) + 1
    <3> HIDE DEF P, Q
    <3> QED
      BY <1>2, <2>1, FS_AddElement
  <2> QED
    BY <1>2, <1>3, <2>2 DEF Occurrences
<1>4. CASE r # x
  <2>1. Q = P
    BY <1>1, <1>4
  <2>2. Cardinality(Q) = Cardinality(P)
    BY <2>1
  <2>3. Cardinality(P) + 0 = Cardinality(P)
    <3> HIDE DEF P
    <3> QED
      BY <1>2
  <2> QED
    BY <1>2, <1>4, <2>2, <2>3 DEF Occurrences
<1> QED
  BY <1>3, <1>4

\* Taking the first element takes one away.
LEMMA TailOccurrences ==
  ASSUME NEW X, NEW s \in Seq(X), s # <<>>, NEW x
  PROVE  /\ Occurrences(Tail(s), x) \in Nat
         /\ Occurrences(s, x) = Occurrences(Tail(s), x) + IF Head(s) = x THEN 1 ELSE 0
<1> DEFINE P == {i \in DOMAIN s : s[i] = x}
           Q == {i \in DOMAIN Tail(s) : Tail(s)[i] = x}
           f == [i \in Q |-> i + 1]
<1>1. /\ Len(s) \in Nat \ {0} /\ DOMAIN s = 1 .. Len(s)
      /\ DOMAIN Tail(s) = 1 .. Len(s) - 1
      /\ \A i \in 1 .. Len(s) - 1 : Tail(s)[i] = s[i + 1]
      /\ Head(s) = s[1]
  OBVIOUS
<1>2. IsFiniteSet(P) /\ IsFiniteSet(Q) /\ Cardinality(Q) \in Nat
  <2>1. IsFiniteSet(1 .. Len(s)) /\ P \in SUBSET (1 .. Len(s)) /\ Q \in SUBSET (1 .. Len(s))
    BY SMTT(30), <1>1, FS_Interval
  <2> QED
    BY <2>1, FS_Subset, FS_CardinalityType
<1>3. Cardinality(Q) = Cardinality(P \ {1})
  <2>1. \A i \in Q : i \in Nat /\ i + 1 \in P \ {1}
    BY <1>1
  <2>2. \A j \in P \ {1} : j - 1 \in Q /\ (j - 1) + 1 = j
    BY <1>1
  <2>3. f \in Bijection(Q, P \ {1})
    <3> HIDE DEF P, Q
    <3>1. f \in [Q -> P \ {1}]
      BY <2>1
    <3>2. \A i, j \in Q : f[i] = f[j] => i = j
      BY <2>1
    <3>3. \A j \in P \ {1} : \E i \in Q : f[i] = j
      <4> TAKE j \in P \ {1}
      <4>1. j - 1 \in Q /\ f[j - 1] = j
        BY <2>2
      <4> QED
        BY <4>1
    <3> QED
      BY <3>1, <3>2, <3>3 DEF Bijection, Injection, Surjection, IsInjective
  <2>4. ExistsBijection(Q, P \ {1})
    BY <2>3 DEF ExistsBijection
  <2> QED
    BY <1>2, <2>4, FS_Bijection
<1>4. Cardinality(P \ {1}) = IF 1 \in P THEN Cardinality(P) - 1 ELSE Cardinality(P)
  BY <1>2, FS_RemoveElement
<1>5. 1 \in P <=> Head(s) = x
  BY <1>1
<1>6. Cardinality(P) \in Nat
  BY <1>2, FS_CardinalityType
<1> QED
  <2> HIDE DEF P, Q, f
  <2>1. Cardinality(P) = Cardinality(Q) + IF Head(s) = x THEN 1 ELSE 0
    BY <1>2, <1>3, <1>4, <1>5, <1>6
  <2> QED
    BY <1>2, <2>1 DEF Occurrences, P, Q

\* So does giving up the last one.
LEMMA FrontOccurrences ==
  ASSUME NEW X, NEW s \in Seq(X), s # <<>>, NEW x
  PROVE  LET front == SubSeq(s, 1, Len(s) - 1)
         IN  /\ front \in Seq(X) /\ Len(front) = Len(s) - 1
             /\ Occurrences(front, x) \in Nat
             /\ Occurrences(s, x) =
                    Occurrences(front, x) + IF s[Len(s)] = x THEN 1 ELSE 0
<1> DEFINE front == SubSeq(s, 1, Len(s) - 1)
<1>1. Len(s) \in Nat \ {0} /\ s[Len(s)] \in X
  OBVIOUS
<1>2. /\ front \in Seq(X) /\ Len(front) = Len(s) - 1
      /\ \A i \in 1 .. Len(s) - 1 : front[i] = s[i]
  <2>1. front = [i \in 1 .. Len(s) - 1 |-> s[i]]
    BY <1>1
  <2>2. \A i \in 1 .. Len(s) - 1 : s[i] \in X
    BY <1>1
  <2>3. Len(s) - 1 \in Nat
    BY <1>1
  <2> HIDE DEF front
  <2> QED
    BY <2>1, <2>2, <2>3
<1>3. Append(front, s[Len(s)]) = s
  <2>1. Append(front, s[Len(s)]) \in [1 .. Len(s) -> X] /\ s \in [1 .. Len(s) -> X]
    <3>1. Append(front, s[Len(s)]) \in Seq(X) /\ Len(Append(front, s[Len(s)])) = Len(s)
      BY <1>1, <1>2
    <3> HIDE DEF front
    <3>2. \A t \in Seq(X) : t \in [1 .. Len(t) -> X]
      OBVIOUS
    <3> QED
      BY <3>1, <3>2
  <2>2. \A i \in 1 .. Len(s) : Append(front, s[Len(s)])[i] = s[i]
    BY <1>1, <1>2
  <2>3. ASSUME NEW I, NEW g \in [I -> X], NEW h \in [I -> X], \A i \in I : g[i] = h[i]
        PROVE  g = h
    BY <2>3
  <2> HIDE DEF front
  <2> QED
    BY <2>1, <2>2, <2>3, ZenonT(30)
<1> QED
  <2> HIDE DEF front
  <2>1. /\ Occurrences(front, x) \in Nat
        /\ Occurrences(Append(front, s[Len(s)]), x)
              = Occurrences(front, x) + IF s[Len(s)] = x THEN 1 ELSE 0
    BY <1>1, <1>2, AppendOccurrences
  <2> QED
    BY <1>2, <1>3, <2>1 DEF front

=============================================================================
