---------------------------- MODULE VectorLemmas ----------------------------
(***************************************************************************)
(* Facts about sequences, for the components that keep their state in a    *)
(* std::vector or std::list and move elements between such containers, and *)
(* about sums over finite sets.                                            *)
(***************************************************************************)
EXTENDS Vectors, Integers, Sequences, Functions, FiniteSets,
        SequenceTheorems, FiniteSetTheorems, WellFoundedInduction, TLAPS

\* emplace_back adds one element to a vector and repeats none.
LEMMA AppendRange ==
  ASSUME NEW S, NEW s \in Seq(S), NEW e \in S
  PROVE  /\ Append(s, e) \in Seq(S)
         /\ Range(Append(s, e)) = Range(s) \cup {e}
         /\ IsInjective(s) /\ e \notin Range(s) => IsInjective(Append(s, e))
<1>1. /\ Append(s, e) \in Seq(S)
      /\ Len(Append(s, e)) = Len(s) + 1
      /\ \A i \in 1..Len(s) : Append(s, e)[i] = s[i]
      /\ Append(s, e)[Len(s) + 1] = e
  BY AppendProperties
<1>2. Range(Append(s, e)) = Range(s) \cup {e}
  <2>1. <<e>> \in Seq(S) /\ Range(<<e>>) = {e}
    BY DEF Range
  <2>2. Append(s, e) = s \o <<e>>
    BY AppendIsConcat
  <2>3. Range(s \o <<e>>) = Range(s) \cup Range(<<e>>)
    BY <2>1, RangeConcatenation
  <2>4. QED
    BY <2>1, <2>2, <2>3
<1>3. ASSUME IsInjective(s), e \notin Range(s)
      PROVE  IsInjective(Append(s, e))
  BY <1>1, <1>3, LenProperties DEF IsInjective, Range
<1>4. QED
  BY <1>1, <1>2, <1>3

\* Taking the first element of a vector without repetitions removes it.
LEMMA TailRange ==
  ASSUME NEW S, NEW s \in Seq(S), s # <<>>
  PROVE  /\ Head(s) \in S
         /\ Tail(s) \in Seq(S)
         /\ Range(s) = {Head(s)} \cup Range(Tail(s))
         /\ IsInjective(s) => /\ Head(s) \notin Range(Tail(s))
                              /\ IsInjective(Tail(s))
<1>1. /\ Head(s) \in S
      /\ Tail(s) \in Seq(S)
      /\ Len(Tail(s)) = Len(s) - 1
      /\ \A i \in 1..Len(Tail(s)) : Tail(s)[i] = s[i + 1]
  BY HeadTailProperties
<1>2. /\ Head(s) = s[1]
      /\ Len(s) \in Nat \ {0}
      /\ DOMAIN s = 1..Len(s)
      /\ DOMAIN Tail(s) = 1..(Len(s) - 1)
  BY <1>1, EmptySeq, LenProperties
<1>3. Range(s) \subseteq {Head(s)} \cup Range(Tail(s))
  <2>1. SUFFICES ASSUME NEW i \in 1..Len(s), i # 1
                 PROVE  s[i] \in Range(Tail(s))
    BY <1>2 DEF Range
  <2>2. i - 1 \in 1..Len(Tail(s)) /\ Tail(s)[i - 1] = s[i]
    BY <1>1, <1>2, <2>1
  <2>3. QED
    BY <1>1, <1>2, <2>2 DEF Range
<1>4. {Head(s)} \cup Range(Tail(s)) \subseteq Range(s)
  BY <1>1, <1>2 DEF Range
<1>5. IsInjective(s) => /\ Head(s) \notin Range(Tail(s))
                        /\ IsInjective(Tail(s))
  BY <1>1, <1>2 DEF IsInjective, Range
<1>6. QED
  BY <1>1, <1>3, <1>4, <1>5

\* Moving a vector to the end of another keeps exactly their elements.
LEMMA ConcatRange ==
  ASSUME NEW S, NEW s \in Seq(S), NEW t \in Seq(S)
  PROVE  /\ s \o t \in Seq(S)
         /\ Range(s \o t) = Range(s) \cup Range(t)
         /\ IsInjective(s) /\ IsInjective(t) /\ Range(s) \cap Range(t) = {}
              => IsInjective(s \o t)
<1>1. /\ s \o t \in Seq(S)
      /\ Len(s \o t) = Len(s) + Len(t)
      /\ \A i \in 1..Len(s) + Len(t) : (s \o t)[i] =
           IF i <= Len(s) THEN s[i] ELSE t[i - Len(s)]
  BY ConcatProperties
<1>2. Range(s \o t) = Range(s) \cup Range(t)
  BY RangeConcatenation
<1>3. ASSUME IsInjective(s), IsInjective(t), Range(s) \cap Range(t) = {}
      PROVE  IsInjective(s \o t)
  <2>1. SUFFICES ASSUME NEW i \in 1..Len(s) + Len(t),
                        NEW j \in 1..Len(s) + Len(t),
                        (s \o t)[i] = (s \o t)[j]
                 PROVE  i = j
    BY <1>1, LenProperties DEF IsInjective
  <2>2. /\ Len(s) \in Nat /\ DOMAIN s = 1..Len(s)
        /\ Len(t) \in Nat /\ DOMAIN t = 1..Len(t)
    BY LenProperties
  <2>3. CASE i <= Len(s) /\ j <= Len(s)
    BY <1>1, <1>3, <2>1, <2>2, <2>3 DEF IsInjective
  <2>4. CASE i > Len(s) /\ j > Len(s)
    BY <1>1, <1>3, <2>1, <2>2, <2>4 DEF IsInjective
  <2>5. \A k \in 1..Len(s), l \in 1..Len(t) : s[k] # t[l]
    BY <1>3, <2>2 DEF Range
  <2>6. CASE i <= Len(s) /\ j > Len(s)
    BY <1>1, <2>1, <2>2, <2>5, <2>6
  <2>7. CASE i > Len(s) /\ j <= Len(s)
    BY <1>1, <2>1, <2>2, <2>5, <2>7
  <2>8. QED
    BY <2>2, <2>3, <2>4, <2>6, <2>7
<1>4. QED
  BY <1>1, <1>2, <1>3

\* An empty vector holds nothing.
LEMMA EmptyRange == Range(<<>>) = {} /\ IsInjective(<<>>)
BY DEF Range, IsInjective

\* A vector without repetitions has as many elements as positions.
LEMMA InjectiveCardinality ==
  ASSUME NEW S, NEW s \in Seq(S), IsInjective(s)
  PROVE  IsFiniteSet(Range(s)) /\ Cardinality(Range(s)) = Len(s)
<1>1. /\ Len(s) \in Nat
      /\ s \in [1..Len(s) -> S]
      /\ DOMAIN s = 1..Len(s)
  BY LenProperties
<1>2. s \in [1..Len(s) -> Range(s)]
  BY <1>1 DEF Range
<1>3. s \in Bijection(1..Len(s), Range(s))
  BY <1>1, <1>2 DEF Bijection, Injection, Surjection, Range
<1>4. ExistsBijection(1..Len(s), Range(s))
  BY <1>3 DEF ExistsBijection
<1>5. IsFiniteSet(1..Len(s)) /\ Cardinality(1..Len(s)) = Len(s)
  BY <1>1, FS_Interval
<1>6. QED
  BY <1>4, <1>5, FS_Bijection

-----------------------------------------------------------------------------
(***************************************************************************)
(* Sums.  SumFunction of the library is a fold, which is a recursive       *)
(* function; that it computes the sum is shown by counting pieces.         *)
(***************************************************************************)

\* The least number principle: a set of naturals that has an element has a least one.
LEMMA LeastOf ==
  ASSUME NEW S \in SUBSET Nat, S # {}
  PROVE  \E m \in S : \A n \in S : m <= n
<1> DEFINE R == OpToRel(<, Nat)
<1>1. IsWellFoundedOn(R, Nat)
  BY NatLessThanWellFounded
<1> HIDE DEF R
<1>2. PICK m \in S : \A n \in S : ~(<<n, m>> \in R)
  BY <1>1, WFMin
<1>3. \A n \in S : n < m => <<n, m>> \in R
  BY DEF OpToRel, R
<1>4. \A n \in S : n \in Nat /\ m \in Nat /\ ~(n < m)
  BY <1>2, <1>3
<1>5. \A n \in S : m <= n
  BY <1>4
<1>6. QED
  BY <1>5

\* f[x] pieces for each x of s.  Their number is the sum of f over s.
Units(f, s) == {e \in s \X Nat : e[2] \in 1..f[e[1]]}

\* The sum of f over s, as a number of pieces.
Count(f, s) == Cardinality(Units(f, s))

\* a set of finite subsets that contains {} and grows by one element is everything
LEMMA FiniteCases ==
  ASSUME NEW S, IsFiniteSet(S), NEW good \in SUBSET (SUBSET S), {} \in good,
         \A s \in SUBSET S : s # {} => \E x \in s : s \ {x} \in good => s \in good
  PROVE  \A s \in SUBSET S : s \in good
<1> DEFINE bad == {n \in Nat : \E s \in SUBSET S : s \notin good /\ Cardinality(s) = n}
<1>1. SUFFICES ASSUME NEW s0 \in SUBSET S, s0 \notin good PROVE FALSE
  OBVIOUS
<1>2. \A s \in SUBSET S : IsFiniteSet(s) /\ Cardinality(s) \in Nat
  BY FS_Subset, FS_CardinalityType
<1>3. Cardinality(s0) \in bad
  BY <1>1, <1>2
<1>4. PICK n \in bad : \A m \in bad : n <= m
  <2>1. bad \in SUBSET Nat /\ bad # {}
    BY <1>3
  <2> HIDE DEF bad
  <2>2. QED
    BY <2>1, LeastOf
<1>5. PICK s \in SUBSET S : s \notin good /\ Cardinality(s) = n
  OBVIOUS
<1>6. s # {}
  BY <1>5
<1>7. PICK x \in s : s \ {x} \in good => s \in good
  BY <1>6
<1>8. s \ {x} \notin good
  BY <1>5, <1>7
<1>9. Cardinality(s \ {x}) = Cardinality(s) - 1
  BY <1>2, <1>5, <1>7, FS_RemoveElement
<1>10. n \in Nat /\ Cardinality(s \ {x}) \in bad
  BY <1>2, <1>5, <1>8, <1>9
<1>11. n <= Cardinality(s \ {x})
  BY <1>4, <1>10
<1>12. QED
  BY <1>5, <1>9, <1>10, <1>11

\* The sum over nothing.
LEMMA CountEmpty == ASSUME NEW f PROVE IsFiniteSet(Units(f, {})) /\ Count(f, {}) = 0
<1>1. Units(f, {}) = {}
  BY DEF Units
<1>2. QED
  BY <1>1, FS_EmptySet DEF Count

\* One element adds its value to the sum.
LEMMA CountStep ==
  ASSUME NEW S, NEW f \in [S -> Nat], NEW s \in SUBSET S, NEW x \in s,
         IsFiniteSet(Units(f, s \ {x}))
  PROVE  IsFiniteSet(Units(f, s)) /\ Count(f, s) = f[x] + Count(f, s \ {x})
<1> DEFINE A == {x} \X (1..f[x])
           B == Units(f, s \ {x})
<1>1. f[x] \in Nat
  OBVIOUS
<1>2. Units(f, s) = A \cup B
  <2>1. \A e : e \in Units(f, s) => e \in A \cup B
    BY DEF Units
  <2>2. \A e : e \in A \cup B => e \in Units(f, s)
    BY <1>1 DEF Units
  <2>3. QED
    BY <2>1, <2>2
<1>3. A \cap B = {}
  BY DEF Units
<1>4. IsFiniteSet(1..f[x]) /\ Cardinality(1..f[x]) = f[x]
  BY <1>1, FS_Interval
<1>5. IsFiniteSet({x}) /\ Cardinality({x}) = 1
  BY FS_Singleton
<1>6. IsFiniteSet(A) /\ Cardinality(A) = f[x]
  BY <1>1, <1>4, <1>5, FS_Product
<1>7. Cardinality(B) \in Nat
  BY FS_CardinalityType
<1>8. IsFiniteSet(A \cup B) /\ Cardinality(A \cup B) = Cardinality(A) + Cardinality(B) - Cardinality(A \cap B)
  BY <1>6, FS_Union
<1>9. Cardinality(A \cap B) = 0
  BY <1>3, FS_EmptySet
<1> HIDE DEF A, B
<1>10. Cardinality(A \cup B) = f[x] + Cardinality(B)
  BY <1>1, <1>6, <1>7, <1>8, <1>9
<1>11. QED
  BY <1>2, <1>8, <1>10 DEF Count, B

\* Sums over a finite set are natural numbers.
LEMMA CountFinite ==
  ASSUME NEW S, IsFiniteSet(S), NEW f \in [S -> Nat]
  PROVE  \A s \in SUBSET S : IsFiniteSet(Units(f, s)) /\ Count(f, s) \in Nat
<1> DEFINE good == {s \in SUBSET S : IsFiniteSet(Units(f, s))}
<1>1. {} \in good
  BY CountEmpty
<1>2. \A s \in SUBSET S : s # {} => \E x \in s : s \ {x} \in good => s \in good
  BY CountStep
<1>3. good \in SUBSET (SUBSET S)
  OBVIOUS
<1>4. \A s \in SUBSET S : s \in good
  <2> HIDE DEF good
  <2>1. QED
    BY <1>1, <1>2, <1>3, FiniteCases
<1>5. QED
  BY <1>4, FS_CardinalityType DEF Count

\* The sum without an element.
LEMMA CountSplit ==
  ASSUME NEW S, IsFiniteSet(S), NEW f \in [S -> Nat], NEW s \in SUBSET S, NEW x \in s
  PROVE  Count(f, s) = f[x] + Count(f, s \ {x})
BY CountFinite, CountStep

\* The recursive function that the folds of the library choose.
IsFold(iter, f, S) ==
  iter = [s \in SUBSET S |-> IF s = {} THEN 0 ELSE
            f[CHOOSE x \in s : TRUE] + iter[s \ {CHOOSE x \in s : TRUE}]]

\* A fold with addition is the value of such a function.
LEMMA FoldUnfolds ==
  ASSUME NEW S, NEW f \in [S -> Nat],
         NEW n, \A iter : IsFold(iter, f, S) => iter[S] = n,
         \E iter : IsFold(iter, f, S)
  PROVE  SumFunctionOnSet(f, S) = n
BY DEF SumFunctionOnSet, FoldFunctionOnSet, MapThenFoldSet, IsFold

\* There is such a function, because the sums are one.
LEMMA FoldExists ==
  ASSUME NEW S, IsFiniteSet(S), NEW f \in [S -> Nat]
  PROVE  IsFold([s \in SUBSET S |-> Count(f, s)], f, S)
<1> DEFINE iter == [s \in SUBSET S |-> Count(f, s)]
<1>1. ASSUME NEW s \in SUBSET S, s # {}
      PROVE  Count(f, s) = f[CHOOSE x \in s : TRUE] + iter[s \ {CHOOSE x \in s : TRUE}]
  <2> DEFINE c == CHOOSE x \in s : TRUE
  <2>1. c \in s
    BY <1>1
  <2> HIDE DEF c
  <2>2. Count(f, s) = f[c] + Count(f, s \ {c})
    BY <2>1, CountSplit
  <2>3. s \ {c} \in SUBSET S
    OBVIOUS
  <2>4. Count(f, s) = f[c] + iter[s \ {c}]
    BY <2>2, <2>3
  <2>5. QED
    BY <2>4 DEF c
<1>2. Count(f, {}) = 0
  BY CountEmpty
<1>3. \A s \in SUBSET S : Count(f, s) = IF s = {} THEN 0 ELSE
            f[CHOOSE x \in s : TRUE] + iter[s \ {CHOOSE x \in s : TRUE}]
  BY <1>1, <1>2
<1>4. iter = [s \in SUBSET S |-> IF s = {} THEN 0 ELSE
            f[CHOOSE x \in s : TRUE] + iter[s \ {CHOOSE x \in s : TRUE}]]
  BY <1>3
<1>5. QED
  BY <1>4 DEF IsFold

\* There is no other.
LEMMA FoldIsCount ==
  ASSUME NEW S, IsFiniteSet(S), NEW f \in [S -> Nat], NEW iter, IsFold(iter, f, S)
  PROVE  iter[S] = Count(f, S)
<1> DEFINE good == {s \in SUBSET S : iter[s] = Count(f, s)}
<1>1. iter[{}] = 0
  BY DEF IsFold
<1>2. {} \in good
  BY <1>1, CountEmpty
<1>3. ASSUME NEW s \in SUBSET S, s # {}
      PROVE  \E x \in s : s \ {x} \in good => s \in good
  <2> DEFINE c == CHOOSE x \in s : TRUE
  <2>1. c \in s
    BY <1>3
  <2>2. iter[s] = f[c] + iter[s \ {c}]
    BY <1>3 DEF IsFold
  <2> HIDE DEF c
  <2>3. Count(f, s) = f[c] + Count(f, s \ {c})
    BY <2>1, CountSplit
  <2>4. s \ {c} \in good => s \in good
    BY <2>2, <2>3
  <2>5. QED
    BY <2>1, <2>4
<1>4. S \in good
  <2>1. good \in SUBSET (SUBSET S)
    OBVIOUS
  <2> HIDE DEF good
  <2>2. QED
    BY <1>2, <1>3, <2>1, FiniteCases
<1>5. QED
  BY <1>4

\* What SumFunction computes is the sum, a natural number.
LEMMA SumIsCount ==
  ASSUME NEW S, IsFiniteSet(S), NEW f \in [S -> Nat]
  PROVE  SumFunction(f) = Count(f, S) /\ SumFunction(f) \in Nat
<1>1. \A iter : IsFold(iter, f, S) => iter[S] = Count(f, S)
  BY FoldIsCount
<1>2. \E iter : IsFold(iter, f, S)
  BY FoldExists
<1>3. SumFunctionOnSet(f, S) = Count(f, S)
  BY <1>1, <1>2, FoldUnfolds
<1>4. SumFunction(f) = SumFunctionOnSet(f, S)
  BY DEF SumFunction
<1>5. Count(f, S) \in Nat
  BY CountFinite
<1>6. QED
  BY <1>3, <1>4, <1>5

\* A function that changes at x changes its sum by as much.
LEMMA SumChange ==
  ASSUME NEW S, IsFiniteSet(S), NEW f \in [S -> Nat], NEW g \in [S -> Nat], NEW x \in S,
         \A y \in S : y # x => g[y] = f[y]
  PROVE  SumFunction(g) + f[x] = SumFunction(f) + g[x]
<1>1. Units(g, S \ {x}) = Units(f, S \ {x})
  BY DEF Units
<1>2. Count(g, S \ {x}) = Count(f, S \ {x})
  BY <1>1 DEF Count
<1>3. Count(f, S) = f[x] + Count(f, S \ {x}) /\ Count(g, S) = g[x] + Count(g, S \ {x})
  BY CountSplit
<1>4. Count(f, S \ {x}) \in Nat /\ f[x] \in Nat /\ g[x] \in Nat
  BY CountFinite
<1>5. Count(g, S) + f[x] = Count(f, S) + g[x]
  BY <1>2, <1>3, <1>4
<1>6. QED
  BY <1>5, SumIsCount

\* The sum of a constant function.
LEMMA SumConstant ==
  ASSUME NEW S, IsFiniteSet(S), NEW f \in [S -> Nat], NEW c \in Nat, \A x \in S : f[x] = c
  PROVE  SumFunction(f) = Cardinality(S) * c
<1>1. Units(f, S) = S \X (1..c)
  <2>1. \A e : e \in Units(f, S) => e \in S \X (1..c)
    BY DEF Units
  <2>2. \A e : e \in S \X (1..c) => e \in Units(f, S)
    BY DEF Units
  <2>3. QED
    BY <2>1, <2>2
<1>2. IsFiniteSet(1..c) /\ Cardinality(1..c) = c
  BY FS_Interval
<1>3. Cardinality(S \X (1..c)) = Cardinality(S) * c
  BY <1>2, FS_Product
<1>4. QED
  BY <1>1, <1>3, SumIsCount DEF Count

\* The sum of two functions.
LEMMA SumAdd ==
  ASSUME NEW S, IsFiniteSet(S), NEW f \in [S -> Nat], NEW g \in [S -> Nat], NEW h \in [S -> Nat],
         \A x \in S : h[x] = f[x] + g[x]
  PROVE  SumFunction(h) = SumFunction(f) + SumFunction(g)
<1> DEFINE good == {s \in SUBSET S : Count(h, s) = Count(f, s) + Count(g, s)}
<1>1. {} \in good
  BY CountEmpty
<1>2. ASSUME NEW s \in SUBSET S, s # {}
      PROVE  \E x \in s : s \ {x} \in good => s \in good
  <2>1. PICK x \in s : TRUE
    BY <1>2
  <2>2. /\ Count(f, s) = f[x] + Count(f, s \ {x})
        /\ Count(g, s) = g[x] + Count(g, s \ {x})
        /\ Count(h, s) = h[x] + Count(h, s \ {x})
    BY CountSplit
  <2>3. s \ {x} \in SUBSET S
    OBVIOUS
  <2>4. Count(f, s \ {x}) \in Nat /\ Count(g, s \ {x}) \in Nat /\ f[x] \in Nat /\ g[x] \in Nat
    BY <2>3, CountFinite
  <2>5. ASSUME s \ {x} \in good PROVE s \in good
    <3>1. Count(h, s \ {x}) = Count(f, s \ {x}) + Count(g, s \ {x}) /\ h[x] = f[x] + g[x]
      BY <2>5
    <3>2. Count(h, s) = Count(f, s) + Count(g, s)
      BY <2>2, <2>4, <3>1
    <3>3. QED
      BY <3>2
  <2>6. QED
    BY <2>5
<1>3. S \in good
  <2>1. good \in SUBSET (SUBSET S)
    OBVIOUS
  <2> HIDE DEF good
  <2>2. QED
    BY <1>1, <1>2, <2>1, FiniteCases
<1>4. QED
  BY <1>3, SumIsCount

\* Sums are monotonic.
LEMMA SumAtMost ==
  ASSUME NEW S, IsFiniteSet(S), NEW f \in [S -> Nat], NEW g \in [S -> Nat],
         \A x \in S : f[x] <= g[x]
  PROVE  SumFunction(f) <= SumFunction(g)
<1> DEFINE h == [x \in S |-> g[x] - f[x]]
<1>1. h \in [S -> Nat] /\ \A x \in S : g[x] = f[x] + h[x]
  OBVIOUS
<1> HIDE DEF h
<1>2. SumFunction(g) = SumFunction(f) + SumFunction(h)
  BY <1>1, SumAdd
<1>3. SumFunction(h) \in Nat /\ SumFunction(f) \in Nat
  BY <1>1, SumIsCount
<1>4. QED
  BY <1>2, <1>3

\* What of a belongs to t.
Share(S, own, a, t) == [x \in S |-> IF own[x] = t THEN a[x] ELSE 0]

\* A sum by owners is the whole sum.
LEMMA SumGroup ==
  ASSUME NEW S, IsFiniteSet(S), NEW T, IsFiniteSet(T),
         NEW own \in [S -> T], NEW a \in [S -> Nat], NEW g,
         g = [t \in T |-> SumFunction(Share(S, own, a, t))]
  PROVE  g \in [T -> Nat] /\ SumFunction(g) = SumFunction(a)
<1> DEFINE G(s) == [t \in T |-> Count(Share(S, own, a, t), s)]
           good == {s \in SUBSET S : Count(G(s), T) = Count(a, s)}
<1>1. \A t \in T : Share(S, own, a, t) \in [S -> Nat]
  BY DEF Share
<1>2. \A s \in SUBSET S : G(s) \in [T -> Nat]
  BY <1>1, CountFinite
<1>3. G(S) = g
  BY <1>1, SumIsCount
<1>4. {} \in good
  <2>1. \A t \in T : G({})[t] = 0
    BY CountEmpty
  <2>2. SumFunction(G({})) = Cardinality(T) * 0
    BY <1>2, <2>1, SumConstant
  <2>3. Cardinality(T) \in Nat
    BY FS_CardinalityType
  <2>4. Count(G({}), T) = 0
    BY <1>2, <2>2, <2>3, SumIsCount
  <2>5. QED
    BY <2>4, CountEmpty
<1>5. ASSUME NEW s \in SUBSET S, s # {}
      PROVE  \E x \in s : s \ {x} \in good => s \in good
  <2>1. PICK x \in s : TRUE
    BY <1>5
  <2> DEFINE r == s \ {x}
  <2>2. r \in SUBSET S
    OBVIOUS
  <2>3. \A t \in T : G(s)[t] = Share(S, own, a, t)[x] + G(r)[t]
    BY <1>1, CountSplit
  <2>4. Count(a, s) = a[x] + Count(a, r)
    BY CountSplit
  <2>5. own[x] \in T /\ a[x] \in Nat /\ Count(a, r) \in Nat
    BY <2>2, CountFinite
  <2>6. \A t \in T : Share(S, own, a, t)[x] = IF own[x] = t THEN a[x] ELSE 0
    BY DEF Share
  <2>7. G(s) \in [T -> Nat] /\ G(r) \in [T -> Nat]
    BY <1>2, <2>2
  <2> DEFINE gs == G(s)
             gr == G(r)
  <2> HIDE DEF r, G
  <2>8. gs[own[x]] = a[x] + gr[own[x]] /\ \A t \in T : t # own[x] => gs[t] = gr[t]
    BY <2>3, <2>5, <2>6, <2>7
  <2>9. SumFunction(gs) + gr[own[x]] = SumFunction(gr) + gs[own[x]]
    <3> HIDE DEF gs, gr
    <3>1. gs \in [T -> Nat] /\ gr \in [T -> Nat]
      BY <2>7 DEF gs, gr
    <3>2. QED
      BY <2>5, <2>8, <3>1, SumChange
  <2>10. SumFunction(gs) \in Nat /\ SumFunction(gr) \in Nat /\ gr[own[x]] \in Nat
    BY <2>5, <2>7, SumIsCount
  <2>11. SumFunction(gs) = SumFunction(gr) + a[x]
    BY <2>5, <2>8, <2>9, <2>10
  <2>12. SumFunction(gs) = Count(gs, T) /\ SumFunction(gr) = Count(gr, T)
    BY <2>7, SumIsCount
  <2>13. r \in good => s \in good
    BY <2>4, <2>5, <2>10, <2>11, <2>12
  <2>14. QED
    BY <2>13 DEF r
<1>6. S \in good
  <2>1. good \in SUBSET (SUBSET S)
    OBVIOUS
  <2> HIDE DEF good
  <2>2. QED
    BY <1>4, <1>5, <2>1, FiniteCases
<1>7. Count(g, T) = Count(a, S)
  BY <1>3, <1>6
<1>8. g \in [T -> Nat]
  BY <1>2, <1>3
<1>9. QED
  BY <1>7, <1>8, SumIsCount

\* The sum of a function that is zero but at x.
LEMMA SumSingle ==
  ASSUME NEW S, IsFiniteSet(S), NEW f \in [S -> Nat], NEW x \in S, \A y \in S : y # x => f[y] = 0
  PROVE  SumFunction(f) = f[x]
<1> DEFINE z == [y \in S |-> 0]
<1>1. z \in [S -> Nat] /\ z[x] = 0 /\ \A y \in S : y # x => f[y] = z[y]
  OBVIOUS
<1>2. SumFunction(z) = Cardinality(S) * 0
  <2>1. \A y \in S : z[y] = 0
    OBVIOUS
  <2> HIDE DEF z
  <2>2. QED
    BY <1>1, <2>1, SumConstant
<1> HIDE DEF z
<1>3. SumFunction(f) + z[x] = SumFunction(z) + f[x]
  BY <1>1, SumChange
<1>4. SumFunction(f) \in Nat /\ f[x] \in Nat /\ Cardinality(S) \in Nat
  BY SumIsCount, FS_CardinalityType
<1>5. QED
  BY <1>1, <1>2, <1>3, <1>4

\* The sum of a function that is zero.
LEMMA SumZero ==
  ASSUME NEW S, IsFiniteSet(S), NEW f \in [S -> Nat], \A y \in S : f[y] = 0
  PROVE  SumFunction(f) = 0
<1>1. SumFunction(f) = Cardinality(S) * 0
  BY SumConstant
<1>2. QED
  BY <1>1, FS_CardinalityType

-----------------------------------------------------------------------------
(***************************************************************************)
(* What the operators of Vectors compute, for every list and every number: *)
(* each recursive function is shown to obey its definition by the least    *)
(* number for which it would not.                                          *)
(***************************************************************************)

\* The function that Remaining() defines: what is left of each prefix of a list.
LeftAfter(list, gone) ==
  CHOOSE left : left = [i \in 0..Len(list) |->
        IF i = 0 THEN <<>>
        ELSE IF list[i] \in gone THEN left[i - 1] ELSE Append(left[i - 1], list[i])]

\* Remaining() is that function at the end of the list.
LEMMA LeftUnfolds ==
  ASSUME NEW list, NEW gone
  PROVE  Remaining(list, gone) = LeftAfter(list, gone)[Len(list)]
BY DEF Remaining, LeftAfter

\* f obeys the definition of that function up to the prefix of length n.
IsLeft(f, list, gone, n) ==
  /\ DOMAIN f = 0..n
  /\ \A i \in 0..n :
       f[i] = IF i = 0 THEN <<>>
              ELSE IF list[i] \in gone THEN f[i - 1] ELSE Append(f[i - 1], list[i])

\* A function that obeys the definition exists for every prefix, by the least
\* prefix that would have none.
LEMMA LeftExists ==
  ASSUME NEW S, NEW list \in Seq(S), NEW gone
  PROVE  \A n \in 0..Len(list) : \E f \in [0..n -> Seq(S)] : IsLeft(f, list, gone, n)
<1> DEFINE Bad == {n \in 0..Len(list) : ~ \E f \in [0..n -> Seq(S)] : IsLeft(f, list, gone, n)}
<1>1. SUFFICES ASSUME Bad # {} PROVE FALSE
  OBVIOUS
<1>0. Len(list) \in Nat /\ \A i \in 1..Len(list) : list[i] \in S
  OBVIOUS
<1>2. PICK n \in Bad : \A k \in Bad : n <= k
  <2>1. Bad \in SUBSET Nat
    BY <1>0
  <2> HIDE DEF Bad
  <2>2. QED
    BY <2>1, <1>1, LeastOf
<1>3. CASE n = 0
  <2>1. [i \in 0..n |-> <<>>] \in [0..n -> Seq(S)]
    OBVIOUS
  <2>2. IsLeft([i \in 0..n |-> <<>>], list, gone, n)
    BY <1>3 DEF IsLeft
  <2>3. QED
    BY <2>1, <2>2
<1>4. CASE n # 0
  <2>1. n \in 1..Len(list) /\ n - 1 \in 0..Len(list) /\ n - 1 \notin Bad
    <3>1. n \in 0..Len(list)
      OBVIOUS
    <3> HIDE DEF Bad
    <3>2. QED
      BY <3>1, <1>4, <1>2, <1>0
  <2>2. PICK f \in [0..(n - 1) -> Seq(S)] : IsLeft(f, list, gone, n - 1)
    BY <2>1
  <2> DEFINE last == IF list[n] \in gone THEN f[n - 1] ELSE Append(f[n - 1], list[n])
             h == [i \in 0..n |-> IF i = n THEN last ELSE f[i]]
  <2>3. f[n - 1] \in Seq(S) /\ list[n] \in S
    BY <2>1, <1>0
  <2>4. last \in Seq(S)
    BY <2>3
  <2>5. h \in [0..n -> Seq(S)]
    <3>1. \A i \in 0..n : i # n => i \in 0..(n - 1)
      BY <2>1, <1>0
    <3> HIDE DEF last
    <3>2. QED
      BY <3>1, <2>4
  <2>6. ASSUME NEW i \in 0..n
        PROVE  h[i] = IF i = 0 THEN <<>>
              ELSE IF list[i] \in gone THEN h[i - 1] ELSE Append(h[i - 1], list[i])
    <3>1. CASE i = n
      <4>1. h[i] = last /\ h[i - 1] = f[n - 1]
        BY <3>1, <2>1, <1>0
      <4>2. QED
        BY <4>1, <3>1, <1>4
    <3>2. CASE i # n
      <4>1. i \in 0..(n - 1) /\ h[i] = f[i]
        BY <3>2, <2>1, <1>0
      <4>2. i # 0 => h[i - 1] = f[i - 1]
        BY <4>1, <2>1, <1>0
      <4>3. QED
        BY <4>1, <4>2, <2>2 DEF IsLeft
    <3>3. QED
      BY <3>1, <3>2
  <2>7. IsLeft(h, list, gone, n)
    <3>1. DOMAIN h = 0..n
      OBVIOUS
    <3> HIDE DEF h
    <3>2. QED
      BY <2>6, <3>1 DEF IsLeft
  <2>8. QED
    BY <2>5, <2>7
<1>5. QED
  BY <1>3, <1>4

\* The function that Remaining() defines obeys its definition.
LEMMA LeftIs ==
  ASSUME NEW S, NEW list \in Seq(S), NEW gone
  PROVE  IsLeft(LeftAfter(list, gone), list, gone, Len(list))
<1> DEFINE n == Len(list)
           Rule(f) == f = [i \in 0..n |-> IF i = 0 THEN <<>>
              ELSE IF list[i] \in gone THEN f[i - 1] ELSE Append(f[i - 1], list[i])]
<1>1. PICK f \in [0..n -> Seq(S)] : IsLeft(f, list, gone, n)
  <2>1. n \in 0..n
    OBVIOUS
  <2>2. QED
    BY <2>1, LeftExists
<1>2. Rule(f)
  BY <1>1 DEF IsLeft
<1>3. Rule(LeftAfter(list, gone))
  BY <1>2 DEF LeftAfter
<1>4. QED
  BY <1>3 DEF IsLeft

\* w holds the first n entries of a list that are not gone, in their order.
LeftIn(w, list, gone, n) ==
  /\ Len(w) <= n
  /\ \A i \in 1..n : list[i] \notin gone => \E a \in 1..Len(w) : w[a] = list[i]
  /\ \A a \in 1..Len(w) : \E i \in 1..n : w[a] = list[i] /\ list[i] \notin gone
  /\ \A a, b \in 1..Len(w) : a < b => \E i, j \in 1..n : i < j /\ w[a] = list[i] /\ w[b] = list[j]

\* Erasing entries keeps the others in their order, by the least prefix for which
\* it would not.
LEMMA LeftInOrder ==
  ASSUME NEW S, NEW list \in Seq(S), NEW gone
  PROVE  /\ Remaining(list, gone) \in Seq(S)
         /\ LeftIn(Remaining(list, gone), list, gone, Len(list))
<1> DEFINE f == LeftAfter(list, gone)
           Bad == {n \in 0..Len(list) : ~(f[n] \in Seq(S) /\ LeftIn(f[n], list, gone, n))}
<1>0. Len(list) \in Nat /\ \A i \in 1..Len(list) : list[i] \in S
  OBVIOUS
<1>1. SUFFICES Bad = {}
  <2>1. Len(list) \in 0..Len(list)
    BY <1>0
  <2>2. QED
    BY <2>1, LeftUnfolds
<1>2. SUFFICES ASSUME Bad # {} PROVE FALSE
  OBVIOUS
<1>3. PICK n \in Bad : \A k \in Bad : n <= k
  <2>1. Bad \in SUBSET Nat
    BY <1>0
  <2> HIDE DEF Bad
  <2>2. QED
    BY <2>1, <1>2, LeastOf
<1>4. IsLeft(f, list, gone, Len(list))
  BY LeftIs
<1> HIDE DEF f
<1>5. CASE n = 0
  <2>1. f[0] = <<>>
    BY <1>4, <1>0 DEF IsLeft
  <2>2. f[n] \in Seq(S) /\ Len(f[n]) = 0 /\ 1..n = {} /\ 1..Len(f[n]) = {}
    BY <1>5, <2>1
  <2>3. LeftIn(f[n], list, gone, n)
    BY <2>2, <1>5 DEF LeftIn
  <2>4. QED
    BY <2>2, <2>3, <1>3
<1>6. CASE n # 0
  <2>1. n \in 1..Len(list) /\ n - 1 \in 0..Len(list) /\ n - 1 \notin Bad
    <3>1. n \in 0..Len(list)
      OBVIOUS
    <3> HIDE DEF Bad
    <3>2. QED
      BY <3>1, <1>6, <1>3, <1>0
  <2>2. f[n - 1] \in Seq(S) /\ LeftIn(f[n - 1], list, gone, n - 1)
    BY <2>1
  <2>3. f[n] = IF list[n] \in gone THEN f[n - 1] ELSE Append(f[n - 1], list[n])
    BY <1>4, <2>1 DEF IsLeft
  <2>4. 1..n = 1..(n - 1) \cup {n} /\ \A i \in 1..(n - 1) : i < n
    BY <2>1, <1>0
  <2> HIDE DEF Bad
  <2>5. CASE list[n] \in gone
    <3>1. f[n] = f[n - 1]
      BY <2>3, <2>5
    <3>2. LeftIn(f[n], list, gone, n)
      BY <3>1, <2>2, <2>4, <2>5, <2>1 DEF LeftIn
    <3>3. QED
      BY <3>1, <3>2, <2>2, <1>3 DEF Bad
  <2>6. CASE list[n] \notin gone
    <3> DEFINE v == f[n - 1]
               w == f[n]
    <3>1. w = Append(v, list[n])
      BY <2>3, <2>6
    <3>2. list[n] \in S /\ v \in Seq(S) /\ LeftIn(v, list, gone, n - 1)
      BY <2>1, <2>2
    <3> HIDE DEF v, w
    <3>3. /\ w \in Seq(S) /\ Len(w) = Len(v) + 1 /\ Len(v) \in Nat
          /\ \A a \in 1..Len(v) : w[a] = v[a]
          /\ w[Len(v) + 1] = list[n]
      BY <3>1, <3>2
    <3>4. 1..Len(w) = 1..Len(v) \cup {Len(v) + 1}
      BY <3>3
    <3>5. Len(w) <= n
      BY <3>2, <3>3, <2>1 DEF LeftIn
    <3>6. \A i \in 1..n : list[i] \notin gone => \E a \in 1..Len(w) : w[a] = list[i]
      <4>1. \A i \in 1..(n - 1) : list[i] \notin gone => \E a \in 1..Len(v) : v[a] = list[i]
        BY <3>2 DEF LeftIn
      <4>2. QED
        BY <4>1, <3>3, <3>4, <2>4
    <3>7. \A a \in 1..Len(w) : \E i \in 1..n : w[a] = list[i] /\ list[i] \notin gone
      <4>1. \A a \in 1..Len(v) : \E i \in 1..(n - 1) : v[a] = list[i] /\ list[i] \notin gone
        BY <3>2 DEF LeftIn
      <4>2. QED
        BY <4>1, <3>3, <3>4, <2>4, <2>6
    <3>8. ASSUME NEW a \in 1..Len(w), NEW b \in 1..Len(w), a < b
          PROVE  \E i, j \in 1..n : i < j /\ w[a] = list[i] /\ w[b] = list[j]
      <4>1. a \in 1..Len(v)
        BY <3>8, <3>3
      <4>2. CASE b \in 1..Len(v)
        <5>1. PICK i \in 1..(n - 1), j \in 1..(n - 1) : i < j /\ v[a] = list[i] /\ v[b] = list[j]
          BY <3>8, <4>1, <4>2, <3>2 DEF LeftIn
        <5>2. QED
          BY <5>1, <4>1, <4>2, <3>3, <2>4
      <4>3. CASE b = Len(v) + 1
        <5>1. PICK i \in 1..(n - 1) : v[a] = list[i]
          BY <4>1, <3>2 DEF LeftIn
        <5>2. QED
          BY <5>1, <4>1, <4>3, <3>3, <2>4
      <4>4. QED
        BY <4>2, <4>3, <3>4
    <3>9. LeftIn(w, list, gone, n)
      BY <3>5, <3>6, <3>7, <3>8 DEF LeftIn
    <3>10. QED
      BY <3>3, <3>9, <1>3 DEF Bad, w
  <2>7. QED
    BY <2>5, <2>6
<1>7. QED
  BY <1>5, <1>6

\* cleanupList() and the erase of a guest who is let in: a list of different guests
\* loses exactly those who are gone, and who was ahead of another still is.
LEMMA RemainingLeaves ==
  ASSUME NEW S, NEW list \in Seq(S), IsInjective(list), NEW gone
  PROVE  LET w == Remaining(list, gone)
         IN  /\ w \in Seq(S)
             /\ Len(w) <= Len(list)
             /\ IsInjective(w)
             /\ Range(w) = Range(list) \ gone
             /\ \A a, b \in DOMAIN w, i, j \in DOMAIN list :
                  w[a] = list[i] /\ w[b] = list[j] /\ i < j => a < b
<1> DEFINE w == Remaining(list, gone)
<1>1. w \in Seq(S) /\ LeftIn(w, list, gone, Len(list))
  BY LeftInOrder
<1> HIDE DEF w
<1>2. /\ DOMAIN w = 1..Len(w) /\ DOMAIN list = 1..Len(list)
      /\ Len(w) \in Nat /\ Len(list) \in Nat
  BY <1>1
<1>3. \A i, j \in 1..Len(list) : list[i] = list[j] => i = j
  BY <1>2 DEF IsInjective
<1>4. \A a, b \in 1..Len(w) : a < b => \E i, j \in 1..Len(list) : i < j /\ w[a] = list[i] /\ w[b] = list[j]
  BY <1>1 DEF LeftIn
<1>5. \A a, b \in 1..Len(w) : a < b => w[a] # w[b]
  BY <1>3, <1>4, <1>2
<1>6. IsInjective(w)
  <2>1. \A a, b \in 1..Len(w) : a < b \/ b < a \/ a = b
    BY <1>2
  <2>2. QED
    BY <1>5, <2>1, <1>2 DEF IsInjective
<1>7. Range(w) = Range(list) \ gone
  <2>1. \A i \in 1..Len(list) : list[i] \notin gone => \E a \in 1..Len(w) : w[a] = list[i]
    BY <1>1 DEF LeftIn
  <2>2. \A a \in 1..Len(w) : \E i \in 1..Len(list) : w[a] = list[i] /\ list[i] \notin gone
    BY <1>1 DEF LeftIn
  <2>3. Range(w) = {w[a] : a \in 1..Len(w)} /\ Range(list) = {list[i] : i \in 1..Len(list)}
    BY <1>2 DEF Range
  <2>4. QED
    BY <2>1, <2>2, <2>3
<1>8. ASSUME NEW a \in DOMAIN w, NEW b \in DOMAIN w, NEW i \in DOMAIN list, NEW j \in DOMAIN list,
             w[a] = list[i], w[b] = list[j], i < j
      PROVE  a < b
  <2>1. a # b
    BY <1>8, <1>3, <1>2
  <2>2. CASE b < a
    <3>1. PICK k \in 1..Len(list), m \in 1..Len(list) : k < m /\ w[b] = list[k] /\ w[a] = list[m]
      BY <2>2, <1>4, <1>2
    <3>2. k = j /\ m = i
      BY <3>1, <1>8, <1>3, <1>2
    <3>3. QED
      BY <3>1, <3>2, <1>8, <1>2
  <2>3. QED
    BY <2>1, <2>2, <1>2
<1>9. Len(w) <= Len(list)
  BY <1>1 DEF LeftIn
<1>10. QED
  BY <1>1, <1>6, <1>7, <1>8, <1>9 DEF w

\* Numbers have a least and a greatest.
LEMMA LeastMost ==
  ASSUME NEW a \in Int, NEW b \in Int
  PROVE  /\ Least(a, b) \in {a, b} /\ Least(a, b) <= a /\ Least(a, b) <= b
         /\ Most(a, b) \in {a, b} /\ Most(a, b) >= a /\ Most(a, b) >= b
BY DEF Least, Most

\* The sum of part of a function counts that part.
LEMMA SumOn ==
  ASSUME NEW S, IsFiniteSet(S), NEW f \in [S -> Nat], NEW s \in SUBSET S
  PROVE  SumFunction([x \in s |-> f[x]]) = Count(f, s) /\ Count(f, s) \in Nat
<1> DEFINE g == [x \in s |-> f[x]]
<1>1. g \in [s -> Nat] /\ IsFiniteSet(s)
  BY FS_Subset
<1>2. Units(g, s) = Units(f, s)
  BY DEF Units
<1> HIDE DEF g
<1>3. SumFunction(g) = Count(g, s) /\ SumFunction(g) \in Nat
  BY <1>1, SumIsCount
<1>4. QED
  BY <1>2, <1>3 DEF Count, g

\* The sum over two disjoint sets.
LEMMA CountUnion ==
  ASSUME NEW S, IsFiniteSet(S), NEW f \in [S -> Nat],
         NEW s \in SUBSET S, NEW t \in SUBSET S, s \cap t = {}
  PROVE  Count(f, s \cup t) = Count(f, s) + Count(f, t)
<1>1. /\ IsFiniteSet(Units(f, s)) /\ IsFiniteSet(Units(f, t))
      /\ Count(f, s) \in Nat /\ Count(f, t) \in Nat
  BY CountFinite
<1>2. Units(f, s \cup t) = Units(f, s) \cup Units(f, t)
  BY DEF Units
<1>3. Units(f, s) \cap Units(f, t) = {}
  BY DEF Units
<1>4. Cardinality(Units(f, s) \cap Units(f, t)) = 0
  BY <1>3, FS_EmptySet
<1>5. Cardinality(Units(f, s) \cup Units(f, t))
        = Cardinality(Units(f, s)) + Cardinality(Units(f, t)) - Cardinality(Units(f, s) \cap Units(f, t))
  BY <1>1, FS_Union
<1>6. /\ Cardinality(Units(f, s)) = Count(f, s) /\ Cardinality(Units(f, t)) = Count(f, t)
      /\ Cardinality(Units(f, s \cup t)) = Count(f, s \cup t)
  BY DEF Count
<1>7. Count(f, s \cup t) = Count(f, s) + Count(f, t) - 0
  BY <1>2, <1>4, <1>5, <1>6
<1>8. QED
  BY <1>1, <1>7

\* Only the values on the set count.
LEMMA CountSame ==
  ASSUME NEW f, NEW g, NEW s, \A x \in s : f[x] = g[x]
  PROVE  Count(f, s) = Count(g, s)
<1>1. Units(f, s) = Units(g, s)
  BY DEF Units
<1>2. QED
  BY <1>1 DEF Count

\* A function changed at one place.
LEMMA CountChange ==
  ASSUME NEW S, IsFiniteSet(S), NEW f \in [S -> Nat], NEW g \in [S -> Nat],
         NEW s \in SUBSET S, NEW x \in s, \A y \in s : y # x => g[y] = f[y]
  PROVE  Count(g, s) + f[x] = Count(f, s) + g[x]
<1>1. Count(f, s) = f[x] + Count(f, s \ {x})
  BY CountSplit
<1>2. Count(g, s) = g[x] + Count(g, s \ {x})
  BY CountSplit
<1>3. Count(f, s \ {x}) = Count(g, s \ {x}) /\ Count(f, s \ {x}) \in Nat
  BY CountSame, CountFinite
<1>4. f[x] \in Nat /\ g[x] \in Nat
  OBVIOUS
<1>5. QED
  BY <1>1, <1>2, <1>3, <1>4

\* A sum is no smaller than one of its terms.
LEMMA CountAtLeast ==
  ASSUME NEW S, IsFiniteSet(S), NEW f \in [S -> Nat], NEW s \in SUBSET S, NEW x \in s
  PROVE  f[x] <= Count(f, s)
<1>1. IsFiniteSet(Units(f, s \ {x})) /\ Count(f, s \ {x}) \in Nat
  BY CountFinite
<1>2. Count(f, s) = f[x] + Count(f, s \ {x})
  BY <1>1, CountStep
<1>3. f[x] \in Nat
  OBVIOUS
<1>4. QED
  BY <1>1, <1>2, <1>3

\* One more place takes what it has room for of what is left.
LEMMA PouredStep ==
  ASSUME NEW m \in Nat, NEW r \in Nat, NEW b \in Nat
  PROVE  Least(r, Most(0, m - b)) + Least(m, b) = Least(m, r + b)
<1>1. CASE m < b
  BY <1>1 DEF Least, Most
<1>2. CASE ~(m < b)
  <2>1. Most(0, m - b) = m - b /\ Least(m, b) = b
    BY <1>2 DEF Least, Most
  <2>2. Least(r, m - b) + b = Least(m, r + b)
    BY <1>2 DEF Least
  <2>3. QED
    BY <2>1, <2>2
<1>3. QED
  BY <1>1, <1>2

\* One more term, for every term: the form in which it is used for numbers.
LEMMA CountSplitAll ==
  ASSUME NEW S, IsFiniteSet(S), NEW s \in SUBSET S
  PROVE  \A x \in s : \A f \in [S -> Nat] : Count(f, s) = f[x] + Count(f, s \ {x})
BY CountSplit

\* The sum of a prefix and of one more term.
LEMMA CountLast ==
  ASSUME NEW n \in Nat, NEW k \in 1..n
  PROVE  \A f \in [1..n -> Nat] : Count(f, 1..k) = f[k] + Count(f, 1..(k - 1))
<1>1. IsFiniteSet(1..n)
  BY FS_Interval
<1>2. \A t \in SUBSET (1..n) : \A x \in t : \A f \in [1..n -> Nat] :
        Count(f, t) = f[x] + Count(f, t \ {x})
  BY <1>1, CountSplitAll, Zenon
<1>3. 1..k \in SUBSET (1..n) /\ k \in 1..k /\ (1..k) \ {k} = 1..(k - 1)
  OBVIOUS
<1>4. QED
  BY <1>2, <1>3

\* Places filled one after the other take all, or all they have room for.
LEMMA PouredCount ==
  ASSUME NEW n \in Nat, NEW room \in [1..n -> Nat], NEW m \in Nat, NEW f \in [1..n -> Nat],
         \A i \in 1..n : f[i] = Least(room[i], Most(0, m - Count(room, 1..(i - 1))))
  PROVE  Count(f, 1..n) = Least(m, Count(room, 1..n))
<1> DEFINE S == 1..n
           Agrees(k) == Count(f, 1..k) = Least(m, Count(room, 1..k))
<1>1. IsFiniteSet(S)
  BY FS_Interval
<1>2. \A s \in SUBSET S : Count(room, s) \in Nat
  BY <1>1, CountFinite
<1>3. Agrees(0)
  <2>1. 1..0 = {}
    OBVIOUS
  <2>2. Count(f, 1..0) = 0 /\ Count(room, 1..0) = 0
    BY <2>1, CountEmpty
  <2>3. QED
    BY <2>2 DEF Least
<1>4. ASSUME NEW k \in 1..n, Agrees(k - 1) PROVE Agrees(k)
  <2> DEFINE t == 1..k
             a == Count(f, 1..(k - 1))
             b == Count(room, 1..(k - 1))
  <2>1. t \in SUBSET S /\ 1..(k - 1) \in SUBSET S /\ t \ {k} = 1..(k - 1) /\ k \in t
    OBVIOUS
  <2>2. Count(f, t) = f[k] + a /\ Count(room, t) = room[k] + b
    BY CountLast
  <2>3. a = Least(m, b)
    BY <1>4
  <2>4. f[k] = Least(room[k], Most(0, m - b))
    OBVIOUS
  <2>5. b \in Nat /\ room[k] \in Nat
    BY <2>1, <1>2
  <2> HIDE DEF a, b, t
  <2>6. f[k] + a = Least(m, room[k] + b)
    BY <2>3, <2>4, <2>5, PouredStep
  <2>7. Count(f, t) = Least(m, Count(room, t))
    BY <2>2, <2>6
  <2>8. QED
    BY <2>7 DEF t
<1> DEFINE Bad == {k \in 0..n : ~Agrees(k)}
<1> HIDE DEF Agrees
<1>5. Bad = {}
  <2>1. SUFFICES ASSUME Bad # {} PROVE FALSE
    OBVIOUS
  <2>2. Bad \in SUBSET Nat
    OBVIOUS
  <2>3. \A k \in Bad : k \in 0..n /\ ~Agrees(k)
    OBVIOUS
  <2>4. \A k \in 0..n : k \notin Bad => Agrees(k)
    OBVIOUS
  <2> HIDE DEF Bad
  <2>5. PICK k \in Bad : \A j \in Bad : k <= j
    BY <2>1, <2>2, LeastOf
  <2>6. k \in 1..n
    BY <2>3, <1>3
  <2>7. k - 1 \in 0..n /\ k - 1 \notin Bad
    BY <2>5, <2>6
  <2>8. QED
    BY <2>3, <2>4, <2>6, <2>7, <1>4
<1>6. Agrees(n)
  BY <1>5
<1>7. QED
  BY <1>6 DEF Agrees

\* Poured(): no place takes more than it has room for, and together they take all or
\* all they have room for.
LEMMA PouredSum ==
  ASSUME NEW n \in Nat, NEW room \in [1..n -> Nat], NEW m \in Nat
  PROVE  /\ Poured(room, m) \in [1..n -> Nat]
         /\ \A i \in 1..n : Poured(room, m)[i] <= room[i] /\ Poured(room, m)[i] <= m
         /\ SumFunction(Poured(room, m)) = Least(m, SumFunction(room))
         /\ SumFunction(Poured(room, m)) \in Nat /\ SumFunction(room) \in Nat
<1> DEFINE S == 1..n
           f == Poured(room, m)
<1>1. IsFiniteSet(S)
  BY FS_Interval
<1>2. ASSUME NEW i \in S PROVE f[i] = Least(room[i], Most(0, m - Count(room, 1..(i - 1))))
  <2>1. 1..(i - 1) \in SUBSET S
    OBVIOUS
  <2>2. SumFunction([j \in 1..(i - 1) |-> room[j]]) = Count(room, 1..(i - 1))
    BY <1>1, <2>1, SumOn
  <2>3. QED
    BY <2>2 DEF Poured
<1>3. DOMAIN f = S
  BY DEF Poured
<1>4. \A s \in SUBSET S : Count(room, s) \in Nat
  BY <1>1, CountFinite
<1> HIDE DEF f
<1>5. ASSUME NEW i \in S PROVE f[i] \in Nat /\ f[i] <= room[i] /\ f[i] <= m
  <2>1. 1..(i - 1) \in SUBSET S
    OBVIOUS
  <2>2. Count(room, 1..(i - 1)) \in Nat
    BY <2>1, <1>4
  <2> DEFINE c == Count(room, 1..(i - 1))
             u == Most(0, m - c)
  <2> HIDE DEF c
  <2>3. u \in Nat /\ u <= m
    BY <2>2 DEF Most, c
  <2> HIDE DEF u
  <2>4. room[i] \in Nat
    OBVIOUS
  <2>5. QED
    BY <1>2, <2>3, <2>4 DEF Least, u, c
<1>6. f \in [S -> Nat]
  <2>1. f = [i \in S |-> f[i]]
    BY <1>3 DEF f, Poured
  <2>2. QED
    BY <2>1, <1>5
<1>8. Count(f, S) = Least(m, Count(room, S))
  BY <1>2, <1>6, PouredCount
<1>9. /\ SumFunction(f) = Count(f, S) /\ SumFunction(f) \in Nat
      /\ SumFunction(room) = Count(room, S) /\ SumFunction(room) \in Nat
  BY <1>1, <1>6, SumIsCount
<1>10. QED
  BY <1>5, <1>6, <1>8, <1>9 DEF f

\* Induction over the naturals up to a bound, by the least one without the property.
LEMMA NatInduct ==
  ASSUME NEW n \in Nat, NEW G \in SUBSET (0..n), 0 \in G,
         \A k \in 1..n : k - 1 \in G => k \in G
  PROVE  G = 0..n
<1> DEFINE Bad == (0..n) \ G
<1>1. SUFFICES ASSUME Bad # {} PROVE FALSE
  OBVIOUS
<1>2. Bad \in SUBSET Nat
  OBVIOUS
<1>3. PICK k \in Bad : \A j \in Bad : k <= j
  <2> HIDE DEF Bad
  <2>1. QED
    BY <1>1, <1>2, LeastOf
<1>4. k \in 1..n /\ k \notin G
  OBVIOUS
<1>5. k - 1 \in 0..n /\ ~(k <= k - 1)
  BY <1>4
<1>6. k - 1 \in G
  BY <1>3, <1>5
<1>7. QED
  BY <1>4, <1>6

\* f starts with u and makes n of the given steps.
IsRun(f, n, u, step) == f[0] = u /\ \A i \in 1..n : f[i] = step[i][f[i - 1]]

\* A function that obeys such a recursive definition exists for every number of steps.
LEMMA Recursion ==
  ASSUME NEW n \in Nat, NEW U, NEW u \in U, NEW step \in [1..n -> [U -> U]]
  PROVE  \E f \in [0..n -> U] : IsRun(f, n, u, step)
<1> DEFINE Good(k, f) == f[0] = u /\ \A i \in 1..k : f[i] = step[i][f[i - 1]]
           G == {k \in 0..n : \E f \in [0..n -> U] : Good(k, f)}
<1>1. 0 \in G
  <2> DEFINE f == [i \in 0..n |-> u]
  <2>1. f \in [0..n -> U] /\ Good(0, f)
    OBVIOUS
  <2>2. 0 \in 0..n
    OBVIOUS
  <2> HIDE DEF f, Good
  <2>3. QED
    BY <2>1, <2>2
<1>2. ASSUME NEW k \in 1..n, k - 1 \in G PROVE k \in G
  <2>1. PICK f \in [0..n -> U] : Good(k - 1, f)
    BY <1>2
  <2> DEFINE v == step[k][f[k - 1]]
             h == [f EXCEPT ![k] = v]
  <2>2. step[k] \in [U -> U] /\ f[k - 1] \in U
    OBVIOUS
  <2>3. v \in U
    BY <2>2
  <2>4. h \in [0..n -> U] /\ h[k] = v /\ \A i \in 0..n : i # k => h[i] = f[i]
    BY <2>3
  <2> HIDE DEF h
  <2>5. h[0] = u
    BY <2>1, <2>4
  <2>6. ASSUME NEW i \in 1..k PROVE h[i] = step[i][h[i - 1]]
    <3>1. h[i - 1] = f[i - 1]
      BY <2>4
    <3>2. CASE i = k
      BY <3>1, <3>2, <2>4
    <3>3. CASE i # k
      <4>1. i \in 1..(k - 1) /\ h[i] = f[i]
        BY <3>3, <2>4
      <4>2. QED
        BY <4>1, <3>1, <2>1
    <3>4. QED
      BY <3>2, <3>3
  <2>7. QED
    BY <2>4, <2>5, <2>6
<1>3. G \in SUBSET (0..n)
  OBVIOUS
<1>4. G = 0..n
  <2> HIDE DEF G
  <2>1. QED
    BY <1>1, <1>2, <1>3, NatInduct
<1>5. n \in G
  <2>1. n \in 0..n
    OBVIOUS
  <2> HIDE DEF G
  <2>2. QED
    BY <1>4, <2>1
<1>6. QED
  BY <1>5 DEF IsRun

\* Only where it is not zero does a function count.
LEMMA CountSupport ==
  ASSUME NEW S, NEW f \in [S -> Nat], NEW s \in SUBSET S, NEW r \in SUBSET S,
         \A x \in S : f[x] # 0 => (x \in s <=> x \in r)
  PROVE  Count(f, s) = Count(f, r)
<1>1. ASSUME NEW x \in S, NEW k \in Nat, k \in 1..f[x] PROVE x \in s <=> x \in r
  <2>1. f[x] \in Nat
    OBVIOUS
  <2>2. f[x] # 0
    BY <2>1, <1>1
  <2>3. QED
    BY <2>2
<1>2. Units(f, s) = Units(f, r)
  BY <1>1 DEF Units
<1>3. QED
  BY <1>2 DEF Count

\* The sum of two functions.
LEMMA CountPlus ==
  ASSUME NEW S, IsFiniteSet(S), NEW f \in [S -> Nat], NEW g \in [S -> Nat], NEW h \in [S -> Nat],
         \A x \in S : h[x] = f[x] + g[x], NEW s \in SUBSET S
  PROVE  Count(h, s) = Count(f, s) + Count(g, s)
<1> DEFINE F == [x \in s |-> f[x]]
           G == [x \in s |-> g[x]]
           H == [x \in s |-> h[x]]
<1>1. /\ SumFunction(F) = Count(f, s) /\ SumFunction(G) = Count(g, s) /\ SumFunction(H) = Count(h, s)
  BY SumOn
<1>2. IsFiniteSet(s) /\ F \in [s -> Nat] /\ G \in [s -> Nat] /\ H \in [s -> Nat]
      /\ \A x \in s : H[x] = F[x] + G[x]
  BY FS_Subset
<1> HIDE DEF F, G, H
<1>3. SumFunction(H) = SumFunction(F) + SumFunction(G)
  BY <1>2, SumAdd
<1>4. QED
  BY <1>1, <1>3

\* addThing() puts an element at the front of a list and repeats none.
LEMMA Prepended ==
  ASSUME NEW S, NEW q \in Seq(S), NEW x \in S, IsInjective(q), x \notin Range(q)
  PROVE  LET r == <<x>> \o q
         IN  r \in Seq(S) /\ Len(r) = Len(q) + 1 /\ IsInjective(r) /\ Range(r) = Range(q) \cup {x}
<1> DEFINE r == <<x>> \o q
<1>1. /\ r \in Seq(S) /\ Len(r) = Len(q) + 1 /\ r[1] = x
      /\ \A k \in 2..Len(r) : r[k] = q[k - 1]
  OBVIOUS
<1>2. DOMAIN r = 1..(Len(q) + 1) /\ DOMAIN q = 1..Len(q) /\ Len(q) \in Nat
  BY <1>1
<1> HIDE DEF r
<1>3. \A k \in 2..(Len(q) + 1) : k - 1 \in DOMAIN q /\ r[k] = q[k - 1] /\ r[k] \in Range(q)
  BY <1>1, <1>2 DEF Range
<1>4. \A k \in DOMAIN r : k = 1 \/ k \in 2..(Len(q) + 1)
  BY <1>2
<1>5. IsInjective(r)
  <2>1. ASSUME NEW j \in DOMAIN r, NEW k \in DOMAIN r, r[j] = r[k] PROVE j = k
    <3>1. CASE j = 1 /\ k = 1
      BY <3>1
    <3>2. CASE j = 1 /\ k # 1
      BY <3>2, <2>1, <1>1, <1>3, <1>4
    <3>3. CASE j # 1 /\ k = 1
      BY <3>3, <2>1, <1>1, <1>3, <1>4
    <3>4. CASE j # 1 /\ k # 1
      <4>1. j - 1 \in DOMAIN q /\ k - 1 \in DOMAIN q /\ q[j - 1] = q[k - 1]
        BY <3>4, <2>1, <1>3, <1>4
      <4>2. j - 1 = k - 1
        BY <4>1 DEF IsInjective
      <4>3. QED
        BY <4>2, <1>2
    <3>5. QED
      BY <3>1, <3>2, <3>3, <3>4
  <2>2. QED
    BY <2>1 DEF IsInjective
<1>6. Range(r) = Range(q) \cup {x}
  <2>1. \A y \in Range(r) : y \in Range(q) \cup {x}
    BY <1>1, <1>3, <1>4 DEF Range
  <2>2. x \in Range(r)
    BY <1>1, <1>2 DEF Range
  <2>3. ASSUME NEW y \in Range(q) PROVE y \in Range(r)
    <3>1. PICK k \in DOMAIN q : y = q[k]
      BY DEF Range
    <3>2. k + 1 \in DOMAIN r /\ k + 1 \in 2..Len(r) /\ (k + 1) - 1 = k
      BY <1>1, <1>2
    <3>3. r[k + 1] = y
      BY <3>1, <3>2, <1>1
    <3>4. QED
      BY <3>2, <3>3 DEF Range
  <2>4. QED
    BY <2>1, <2>2, <2>3
<1>7. QED
  BY <1>1, <1>5, <1>6 DEF r
=============================================================================
