-------------------------- MODULE ContainersProofs --------------------------
(***************************************************************************)
(* Proofs about the containers, for any tree of bags and piles, any limits *)
(* on their size and depth, and any number of units.                       *)
(***************************************************************************)
EXTENDS Containers, VectorLemmas

-----------------------------------------------------------------------------
(***************************************************************************)
(* What Reach computes: the least set that holds its start and is closed   *)
(* under the step.                                                         *)
(***************************************************************************)

\* One round of Reach: the set with the next items of its bags.
Onward(s, next) == s \cup UNION {next[x] : x \in s \cap Bags}

\* The function inside Reach obeys its definition for every number of rounds.
LEMMA ReachUnfolds ==
  ASSUME NEW start, NEW next
  PROVE  \E found :
           /\ found[0] = start
           /\ \A n \in 1..Cardinality(Bags) : found[n] = Onward(found[n - 1], next)
           /\ Reach(start, next) = found[Cardinality(Bags)]
<1> DEFINE N == Cardinality(Bags)
           Rule(f) == f = [n \in 0..N |-> IF n = 0 THEN start
                             ELSE f[n - 1] \cup UNION {next[x] : x \in f[n - 1] \cap Bags}]
           found == CHOOSE f : Rule(f)
           V == start \cup UNION {next[x] : x \in Bags}
           U == SUBSET V
           step == [i \in 1..N |-> [s \in U |-> Onward(s, next)]]
<1>1. N \in Nat
  BY ContainersAssumption, FS_CardinalityType
<1>2. Reach(start, next) = found[N]
  BY DEF Reach
<1>3. start \in U
  OBVIOUS
<1>4. \A s \in U : Onward(s, next) \in U
  BY DEF Onward
<1>5. step \in [1..N -> [U -> U]]
  BY <1>4
<1>6. \A i \in 1..N, s \in U : step[i][s] = Onward(s, next)
  OBVIOUS
<1> HIDE DEF U, N, step
<1>7. PICK f \in [0..N -> U] : IsRun(f, N, start, step)
  BY <1>1, <1>3, <1>5, Recursion
<1>8. \A i \in 1..N : f[i] = Onward(f[i - 1], next)
  BY <1>1, <1>6, <1>7 DEF IsRun
<1>9. Rule(f)
  <2>1. \A i \in 0..N : f[i] = IF i = 0 THEN start
                             ELSE f[i - 1] \cup UNION {next[x] : x \in f[i - 1] \cap Bags}
    BY <1>1, <1>7, <1>8 DEF Onward, IsRun
  <2>2. QED
    BY <2>1
<1>10. Rule(found)
  <2> HIDE DEF Rule
  <2>1. QED
    BY <1>9
<1>11. found[0] = start /\ \A i \in 1..N : found[i] = Onward(found[i - 1], next)
  <2> HIDE DEF found
  <2>1. 0 \in 0..N /\ \A i \in 1..N : i \in 0..N /\ i # 0
    BY <1>1
  <2>2. QED
    BY <1>10, <2>1 DEF Onward
<1> HIDE DEF found
<1>12. QED
  BY <1>2, <1>11 DEF N

\* Every round holds the start, and stays inside each closed set that does.
LEMMA ReachStarts ==
  ASSUME NEW N \in Nat, NEW found, NEW start, NEW next, found[0] = start,
         \A n \in 1..N : found[n] = Onward(found[n - 1], next)
  PROVE  /\ start \subseteq found[N]
         /\ \A S : start \subseteq S /\ (\A x \in S \cap Bags : next[x] \subseteq S)
                    => found[N] \subseteq S
<1>1. start \subseteq found[N]
  <2> DEFINE G == {n \in 0..N : start \subseteq found[n]}
  <2>1. 0 \in G /\ G \in SUBSET (0..N)
    OBVIOUS
  <2>2. ASSUME NEW k \in 1..N, k - 1 \in G PROVE k \in G
    <3>1. start \subseteq found[k - 1] /\ found[k] = Onward(found[k - 1], next)
      BY <2>2
    <3>2. start \subseteq found[k]
      BY <3>1 DEF Onward
    <3>3. QED
      BY <3>2
  <2>3. N \in 0..N
    OBVIOUS
  <2>4. N \in G
    <3> HIDE DEF G
    <3>1. QED
      BY <2>1, <2>2, <2>3, NatInduct
  <2>5. QED
    BY <2>4
<1>2. ASSUME NEW S, start \subseteq S, \A x \in S \cap Bags : next[x] \subseteq S
      PROVE  found[N] \subseteq S
  <2> DEFINE G == {n \in 0..N : found[n] \subseteq S}
  <2>1. 0 \in G /\ G \in SUBSET (0..N)
    BY <1>2
  <2>2. ASSUME NEW k \in 1..N, k - 1 \in G PROVE k \in G
    <3>1. found[k - 1] \subseteq S /\ found[k] = Onward(found[k - 1], next)
      BY <2>2
    <3>2. found[k] \subseteq S
      BY <3>1, <1>2 DEF Onward
    <3>3. QED
      BY <3>2
  <2>3. N \in 0..N
    OBVIOUS
  <2>4. N \in G
    <3> HIDE DEF G
    <3>1. QED
      BY <2>1, <2>2, <2>3, NatInduct
  <2>5. QED
    BY <2>4
<1>3. QED
  BY <1>1, <1>2

\* s leads nowhere else.
Closed(s, next) == \A x \in s \cap Bags : next[x] \subseteq s

\* As many rounds as there are bags are enough: a round that adds no bag closes the
\* set, and one that adds a bag cannot happen once more than there are bags.
LEMMA ReachCloses ==
  ASSUME NEW N \in Nat, N = Cardinality(Bags), NEW found, NEW next,
         \A n \in 1..N : found[n] = Onward(found[n - 1], next)
  PROVE  Closed(found[N], next)
<1> DEFINE B(n) == found[n] \cap Bags
           G == {n \in 0..N : Closed(found[n], next) \/ Cardinality(B(n)) >= n + 1}
<1>1. \A n \in 0..N : IsFiniteSet(B(n)) /\ Cardinality(B(n)) \in Nat /\ Cardinality(B(n)) <= N
  <2>1. ASSUME NEW n \in 0..N PROVE IsFiniteSet(B(n)) /\ Cardinality(B(n)) \in Nat /\ Cardinality(B(n)) <= N
    <3>1. B(n) \subseteq Bags /\ IsFiniteSet(Bags)
      BY ContainersAssumption
    <3>2. QED
      BY <3>1, FS_Subset, FS_CardinalityType
  <2>2. QED
    BY <2>1
<1>2. 0 \in G
  <2>1. 0 \in 0..N
    OBVIOUS
  <2>2. CASE B(0) = {}
    <3>1. Closed(found[0], next)
      BY <2>2 DEF Closed
    <3>2. QED
      BY <2>1, <3>1
  <2>3. CASE B(0) # {}
    <3>1. Cardinality(B(0)) # 0
      BY <2>1, <2>3, <1>1, FS_EmptySet
    <3>2. Cardinality(B(0)) >= 0 + 1
      BY <2>1, <3>1, <1>1
    <3>3. QED
      BY <2>1, <3>2
  <2>4. QED
    BY <2>2, <2>3
<1>3. ASSUME NEW k \in 1..N, k - 1 \in G PROVE k \in G
  <2> DEFINE f == found[k - 1]
             g == found[k]
  <2>1. g = Onward(f, next) /\ k - 1 \in 0..N /\ k \in 0..N
    OBVIOUS
  <2>2. Closed(f, next) \/ Cardinality(B(k - 1)) >= k
    BY <1>3
  <2>3. CASE Closed(f, next)
    <3>1. g = f
      BY <2>1, <2>3 DEF Closed, Onward
    <3>2. QED
      BY <3>1, <2>3, <2>1
  <2>4. CASE B(k - 1) = B(k)
    <3>1. Closed(g, next)
      BY <2>1, <2>4 DEF Closed, Onward
    <3>2. QED
      BY <3>1, <2>1
  <2>5. CASE B(k - 1) # B(k) /\ Cardinality(B(k - 1)) >= k
    <3>1. B(k - 1) \subseteq B(k)
      BY <2>1 DEF Onward
    <3>2. IsFiniteSet(B(k)) /\ Cardinality(B(k)) \in Nat /\ Cardinality(B(k - 1)) \in Nat
      BY <2>1, <1>1
    <3>3. Cardinality(B(k - 1)) < Cardinality(B(k))
      <4> HIDE DEF B
      <4>1. Cardinality(B(k - 1)) <= Cardinality(B(k))
        BY <3>1, <3>2, FS_Subset
      <4>2. Cardinality(B(k - 1)) = Cardinality(B(k)) => B(k - 1) = B(k)
        BY <3>1, <3>2, FS_Subset
      <4>3. QED
        BY <4>1, <4>2, <3>2, <2>5
    <3>4. Cardinality(B(k)) >= k + 1
      <4> HIDE DEF B
      <4>1. QED
        BY <3>2, <3>3, <2>5
    <3>5. QED
      BY <3>4, <2>1
  <2>6. QED
    BY <2>2, <2>3, <2>4, <2>5
<1>4. G \in SUBSET (0..N) /\ N \in 0..N
  OBVIOUS
<1>5. N \in G
  <2> HIDE DEF G
  <2>1. QED
    BY <1>2, <1>3, <1>4, NatInduct
<1>6. ~(Cardinality(B(N)) >= N + 1)
  <2>1. Cardinality(B(N)) \in Nat /\ Cardinality(B(N)) <= N
    BY <1>1, <1>4
  <2> HIDE DEF B
  <2>2. QED
    BY <2>1
<1>7. QED
  BY <1>5, <1>6

\* Reach is the least closed set with the start: the walk along getParent() ends, and
\* so does ContainerIterator.
LEMMA ReachIs ==
  ASSUME NEW start, NEW next
  PROVE  /\ start \subseteq Reach(start, next)
         /\ Closed(Reach(start, next), next)
         /\ \A S : start \subseteq S /\ (\A x \in S \cap Bags : next[x] \subseteq S)
                    => Reach(start, next) \subseteq S
<1>1. Cardinality(Bags) \in Nat
  BY ContainersAssumption, FS_CardinalityType
<1>2. PICK N \in Nat : N = Cardinality(Bags)
  BY <1>1
<1>3. PICK found : /\ found[0] = start
                   /\ \A n \in 1..N : found[n] = Onward(found[n - 1], next)
                   /\ Reach(start, next) = found[N]
  BY <1>2, ReachUnfolds
<1>4. Closed(found[N], next)
  BY <1>2, <1>3, ReachCloses
<1>5. /\ start \subseteq found[N]
      /\ \A S : start \subseteq S /\ (\A x \in S \cap Bags : next[x] \subseteq S)
                 => found[N] \subseteq S
  BY <1>3, ReachStarts
<1>6. QED
  BY <1>3, <1>4, <1>5

-----------------------------------------------------------------------------
(***************************************************************************)
(* The parents of the items.  A bag is above what lies in it, however      *)
(* deep.                                                                   *)
(***************************************************************************)

\* The parents of the items.
Parents == [Goods -> Holders \cup {Nowhere}]

\* A container and all those it lies in.
Up(w, x) == Reach({x}, [y \in Bags |-> {w[y]} \ {Nowhere}])

\* What lies in a container, however deep.
Under(w, b) == {i \in Goods : w[i] # Nowhere /\ b \in Up(w, w[i])}

\* A container is on its own line, and the line goes on to the parent.
LEMMA UpIs ==
  ASSUME NEW w, NEW x
  PROVE  /\ x \in Up(w, x)
         /\ \A y \in Up(w, x) \cap Bags : w[y] # Nowhere => w[y] \in Up(w, x)
<1> DEFINE next == [y \in Bags |-> {w[y]} \ {Nowhere}]
<1>1. {x} \subseteq Up(w, x) /\ Closed(Up(w, x), next)
  <2> HIDE DEF next
  <2>1. {x} \subseteq Reach({x}, next) /\ Closed(Reach({x}, next), next)
    BY ReachIs
  <2>2. QED
    BY <2>1 DEF Up, next
<1>2. QED
  BY <1>1 DEF Closed

\* Nothing else is on the line.
LEMMA UpLeast ==
  ASSUME NEW w, NEW x, NEW S, x \in S, \A y \in S \cap Bags : w[y] # Nowhere => w[y] \in S
  PROVE  Up(w, x) \subseteq S
<1> DEFINE next == [y \in Bags |-> {w[y]} \ {Nowhere}]
<1>1. \A y \in S \cap Bags : next[y] \subseteq S
  OBVIOUS
<1> HIDE DEF next
<1>2. Reach({x}, next) \subseteq S
  BY <1>1, ReachIs
<1>3. QED
  BY <1>2 DEF Up, next

\* Only containers are on the line of a container.
LEMMA UpHolders ==
  ASSUME NEW w \in Parents, NEW x \in Holders
  PROVE  Up(w, x) \subseteq Holders
BY UpLeast DEF Parents, Goods, Holders

\* The line of a container on the line is part of it.
LEMMA UpTransitive ==
  ASSUME NEW w, NEW x, NEW y \in Up(w, x)
  PROVE  Up(w, y) \subseteq Up(w, x)
BY UpIs, UpLeast

\* The line of a container is itself and the line of its parent.
LEMMA UpStep ==
  ASSUME NEW w, NEW x
  PROVE  /\ x \in Bags /\ w[x] # Nowhere => Up(w, x) = {x} \cup Up(w, w[x])
         /\ ~(x \in Bags /\ w[x] # Nowhere) => Up(w, x) = {x}
<1>1. ASSUME x \in Bags, w[x] # Nowhere PROVE Up(w, x) = {x} \cup Up(w, w[x])
  <2>1. Up(w, x) \subseteq {x} \cup Up(w, w[x])
    <3> DEFINE S == {x} \cup Up(w, w[x])
    <3>1. x \in S /\ \A y \in S \cap Bags : w[y] # Nowhere => w[y] \in S
      BY UpIs
    <3> HIDE DEF S
    <3>2. Up(w, x) \subseteq S
      BY <3>1, UpLeast
    <3>3. QED
      BY <3>2 DEF S
  <2>2. x \in Up(w, x) /\ w[x] \in Up(w, x)
    BY <1>1, UpIs
  <2>3. Up(w, w[x]) \subseteq Up(w, x)
    BY <2>2, UpTransitive
  <2>4. QED
    BY <2>1, <2>2, <2>3
<1>2. ASSUME ~(x \in Bags /\ w[x] # Nowhere) PROVE Up(w, x) = {x}
  <2> DEFINE S == {x}
  <2>1. x \in S /\ \A y \in S \cap Bags : w[y] # Nowhere => w[y] \in S
    BY <1>2
  <2> HIDE DEF S
  <2>2. Up(w, x) \subseteq S
    BY <2>1, UpLeast
  <2> USE DEF S
  <2>3. QED
    BY <2>2, UpIs
<1>3. QED
  BY <1>1, <1>2

\* Of two containers on a line one lies in the other.
LEMMA UpLinear ==
  ASSUME NEW w, NEW x, NEW y \in Up(w, x), NEW z \in Up(w, x)
  PROVE  z \in Up(w, y) \/ y \in Up(w, z)
<1> DEFINE S == {u \in Up(w, x) : z \in Up(w, u) \/ u \in Up(w, z)}
<1>1. x \in S
  BY UpIs
<1>2. ASSUME NEW u \in S, u \in Bags, w[u] # Nowhere PROVE w[u] \in S
  <2>1. w[u] \in Up(w, x)
    BY <1>2, UpIs
  <2>2. CASE u \in Up(w, z)
    BY <2>1, <2>2, <1>2, UpIs
  <2>3. CASE z = u
    BY <2>1, <2>3, <1>2, UpIs
  <2>4. CASE z \in Up(w, u) /\ z # u
    <3>1. z \in Up(w, w[u])
      BY <2>4, <1>2, UpStep
    <3>2. QED
      BY <2>1, <3>1
  <2>5. QED
    BY <2>2, <2>3, <2>4, <1>2
<1>3. Up(w, x) \subseteq S
  <2> HIDE DEF S
  <2>1. QED
    BY <1>1, <1>2, UpLeast
<1>4. QED
  BY <1>3

\* With lists that agree with the parents, ContainerIterator finds what lies in a
\* container.
LEMMA InsideIsUnder ==
  ASSUME NEW w \in Parents, NEW l, \A b \in Holders : Range(l[b]) = {i \in Goods : w[i] = b},
         NEW b \in Holders
  PROVE  Reach(Range(l[b]), [x \in Bags |-> Range(l[x])]) = Under(w, b)
<1> DEFINE next == [x \in Bags |-> Range(l[x])]
           R == Reach(Range(l[b]), next)
<1>0. Bags \subseteq Holders /\ Bags \subseteq Goods
  BY DEF Holders, Goods
<1>1. Nowhere \notin Holders
  BY ContainersAssumption
<1>2. /\ Range(l[b]) = {i \in Goods : w[i] = b}
      /\ \A x \in Bags : next[x] = {i \in Goods : w[i] = x}
  BY <1>0
<1>3. /\ {i \in Goods : w[i] = b} \subseteq R
      /\ \A x \in R \cap Bags : {i \in Goods : w[i] = x} \subseteq R
  <2> HIDE DEF next
  <2>1. QED
    BY <1>2, ReachIs DEF Closed
<1>4. R \subseteq Under(w, b)
  <2>1. {i \in Goods : w[i] = b} \subseteq Under(w, b)
    BY <1>1, UpIs DEF Under
  <2>2. ASSUME NEW x \in Under(w, b), x \in Bags, NEW i \in Goods, w[i] = x PROVE i \in Under(w, b)
    <3>1. w[x] # Nowhere /\ b \in Up(w, w[x])
      BY <2>2 DEF Under
    <3>2. b \in Up(w, x)
      BY <3>1, <2>2, UpStep
    <3>3. QED
      BY <3>2, <2>2, <1>0, <1>1 DEF Under
  <2> HIDE DEF next
  <2>3. QED
    BY <1>2, <2>1, <2>2, ReachIs
<1>5. ASSUME NEW j \in Under(w, b), j \notin R PROVE FALSE
  <2> DEFINE T == {z \in Holders : \E i \in Goods : w[i] = z /\ i \notin R}
  <2>1. w[j] \in T /\ b \in Up(w, w[j])
    BY <1>5 DEF Under, Parents
  <2>2. ASSUME NEW z \in T, z \in Bags, w[z] # Nowhere PROVE w[z] \in T
    <3>1. z \notin R
      BY <2>2, <1>3
    <3>2. z \in Goods /\ w[z] \in Holders
      BY <2>2, <1>0 DEF Parents
    <3>3. QED
      BY <3>1, <3>2
  <2>3. Up(w, w[j]) \subseteq T
    <3> HIDE DEF T
    <3>1. QED
      BY <2>1, <2>2, UpLeast
  <2>4. PICK i \in Goods : w[i] = b /\ i \notin R
    BY <2>1, <2>3
  <2>5. QED
    BY <2>4, <1>3
<1>6. QED
  BY <1>4, <1>5

\* Every bag with a parent lies, however deep, in a place of the game.
Rooted(w) == \A b \in Bags : w[b] # Nowhere => Up(w, b) \cap Roots # {}

\* No such bag lies in itself.
LEMMA RootedAcyclic ==
  ASSUME NEW w, Rooted(w), NEW b \in Bags, w[b] # Nowhere
  PROVE  b \notin Up(w, w[b])
<1>1. SUFFICES ASSUME b \in Up(w, w[b]) PROVE FALSE
  OBVIOUS
<1> DEFINE C == {z \in Up(w, b) : b \in Up(w, z)}
<1>2. b \in C
  BY UpIs
<1>3. ASSUME NEW z \in C, z \in Bags, w[z] # Nowhere PROVE w[z] \in C
  <2>1. w[z] \in Up(w, b)
    BY <1>3, UpIs
  <2>2. b \in Up(w, w[z])
    <3>1. CASE b = z
      BY <3>1, <1>1
    <3>2. CASE b # z
      BY <3>2, <1>3, UpStep
    <3>3. QED
      BY <3>1, <3>2
  <2>3. QED
    BY <2>1, <2>2
<1>4. Up(w, b) \subseteq C
  <2> HIDE DEF C
  <2>1. QED
    BY <1>2, <1>3, UpLeast
<1>5. PICK r \in Roots : r \in Up(w, b)
  BY DEF Rooted
<1>6. b \in Up(w, r) /\ r \notin Bags
  BY <1>4, <1>5, ContainersAssumption DEF Goods
<1>7. Up(w, r) = {r}
  BY <1>6, UpStep
<1>8. QED
  BY <1>6, <1>7

-----------------------------------------------------------------------------
(***************************************************************************)
(* One item goes to another place, with what it carries.                   *)
(***************************************************************************)

\* What ContainersAssumption says about the kinds of things.
LEMMA KindsApart ==
  /\ Roots \cap Goods = {} /\ Bags \cap Piles = {} /\ Piles \cap Holders = {}
  /\ Nowhere \notin Holders /\ Bags \subseteq Holders /\ Bags \subseteq Goods /\ Roots \subseteq Holders
  /\ Goods = Bags \cup Piles /\ Holders = Roots \cup Bags /\ Piles \subseteq Goods
  /\ IsFiniteSet(Goods) /\ IsFiniteSet(Bags) /\ IsFiniteSet(Piles)
  /\ NoItem \notin Holders /\ NoItem \notin Goods
<1>1. IsFiniteSet(Goods)
  BY ContainersAssumption, FS_Union DEF Goods
<1>2. QED
  BY <1>1, ContainersAssumption DEF Goods, Holders

\* Nothing lies in a pile.
LEMMA UnderPile ==
  ASSUME NEW w \in Parents, NEW p \in Piles
  PROVE  Under(w, p) = {}
<1>1. ASSUME NEW j \in Under(w, p) PROVE FALSE
  <2>1. w[j] \in Holders /\ p \in Up(w, w[j])
    BY DEF Under, Parents
  <2>2. QED
    BY <2>1, UpHolders, KindsApart
<1>2. QED
  BY <1>1

\* v is w with i at d.
Placed(w, i, d, v) == v \in Parents /\ v[i] = d /\ \A y \in Goods : y # i => v[y] = w[y]

\* Putting a loose item into a container lengthens the lines through the item.
LEMMA GraftUp ==
  ASSUME NEW w \in Parents, NEW i \in Goods, w[i] = Nowhere, NEW d \in Holders, i \notin Up(w, d),
         NEW v, Placed(w, i, d, v)
  PROVE  /\ v \in Parents
         /\ \A x : i \notin Up(w, x) => Up(v, x) = Up(w, x)
         /\ \A x : i \in Up(w, x) /\ i \in Bags => Up(v, x) = Up(w, x) \cup Up(w, d)
<1>1. v \in Parents /\ v[i] = d /\ d # Nowhere /\ \A y \in Goods : y # i => v[y] = w[y]
  BY KindsApart DEF Placed
<1>2. \A y \in Bags : y \in Goods
  BY KindsApart
<1>3. ASSUME NEW x PROVE Up(w, x) \subseteq Up(v, x)
  <2>1. \A y \in Up(v, x) \cap Bags : w[y] # Nowhere => w[y] \in Up(v, x)
    <3>1. ASSUME NEW y \in Up(v, x) \cap Bags, w[y] # Nowhere PROVE w[y] \in Up(v, x)
      <4>1. v[y] = w[y]
        BY <3>1, <1>1, <1>2
      <4>2. QED
        BY <4>1, <3>1, UpIs
    <3>2. QED
      BY <3>1
  <2>2. x \in Up(v, x)
    BY UpIs
  <2>3. QED
    BY <2>1, <2>2, UpLeast
<1>4. ASSUME NEW x, i \notin Up(w, x) PROVE Up(v, x) = Up(w, x)
  <2>1. \A y \in Up(w, x) \cap Bags : v[y] # Nowhere => v[y] \in Up(w, x)
    <3>1. ASSUME NEW y \in Up(w, x) \cap Bags, v[y] # Nowhere PROVE v[y] \in Up(w, x)
      <4>1. v[y] = w[y]
        BY <3>1, <1>1, <1>2, <1>4
      <4>2. QED
        BY <4>1, <3>1, UpIs
    <3>2. QED
      BY <3>1
  <2>2. x \in Up(w, x)
    BY UpIs
  <2>3. Up(v, x) \subseteq Up(w, x)
    BY <2>1, <2>2, UpLeast
  <2>4. QED
    BY <2>3, <1>3
<1>5. ASSUME NEW x, i \in Up(w, x), i \in Bags PROVE Up(v, x) = Up(w, x) \cup Up(w, d)
  <2> DEFINE S == Up(w, x) \cup Up(w, d)
  <2>1. ASSUME NEW y \in S \cap Bags, v[y] # Nowhere PROVE v[y] \in S
    <3>1. CASE y = i
      BY <3>1, <1>1, UpIs
    <3>2. CASE y # i
      <4>1. v[y] = w[y]
        BY <3>2, <1>1, <1>2, <2>1
      <4>2. QED
        BY <4>1, <2>1, UpIs
    <3>3. QED
      BY <3>1, <3>2
  <2>2. x \in S
    BY UpIs
  <2>3. Up(v, x) \subseteq S
    <3> HIDE DEF S
    <3>1. QED
      BY <2>1, <2>2, UpLeast
  <2>4. Up(v, d) = Up(w, d)
    BY <1>4
  <2>5. i \in Up(v, x)
    BY <1>3, <1>5
  <2>6. d \in Up(v, x)
    BY <2>5, <1>1, <1>5, UpIs
  <2>7. Up(w, d) \subseteq Up(v, x)
    BY <2>4, <2>6, UpTransitive
  <2>8. QED
    BY <2>3, <2>7, <1>3
<1>6. QED
  BY <1>1, <1>4, <1>5

\* An item with what lies in it.
Carried(w, i) == {i} \cup Under(w, i)

\* Then the containers above hold the item and all it carries, which they did not
\* before.
LEMMA GraftUnder ==
  ASSUME NEW w \in Parents, NEW i \in Goods, w[i] = Nowhere, NEW d \in Holders, i \notin Up(w, d),
         NEW v, Placed(w, i, d, v)
  PROVE  \A b \in Holders :
           /\ b \in Up(w, d) => /\ Under(v, b) = Under(w, b) \cup Carried(w, i)
                                /\ Under(w, b) \cap Carried(w, i) = {}
           /\ b \notin Up(w, d) => Under(v, b) = Under(w, b)
<1>1. /\ v \in Parents
      /\ \A x : i \notin Up(w, x) => Up(v, x) = Up(w, x)
      /\ \A x : i \in Up(w, x) /\ i \in Bags => Up(v, x) = Up(w, x) \cup Up(w, d)
  BY GraftUp
<1>2. v[i] = d /\ d # Nowhere /\ \A y \in Goods : y # i => v[y] = w[y]
  BY KindsApart DEF Placed
<1>3. Up(v, d) = Up(w, d)
  BY <1>1
<1>4. \A y \in Goods : w[y] # Nowhere => w[y] \in Holders
  BY DEF Parents
<1>5. \A x \in Holders : i \in Up(w, x) => i \in Bags
  BY UpHolders, KindsApart
<1> SUFFICES ASSUME NEW b \in Holders
             PROVE  /\ b \in Up(w, d) => /\ Under(v, b) = Under(w, b) \cup Carried(w, i)
                                         /\ Under(w, b) \cap Carried(w, i) = {}
                    /\ b \notin Up(w, d) => Under(v, b) = Under(w, b)
  OBVIOUS
<1>6. i \notin Under(w, b) /\ (i \in Under(v, b) <=> b \in Up(w, d))
  BY <1>2, <1>3 DEF Under
<1>7. ASSUME NEW j \in Goods, j # i
      PROVE  j \in Under(v, b) <=> j \in Under(w, b) \/ (j \in Under(w, i) /\ b \in Up(w, d))
  <2>1. v[j] = w[j]
    BY <1>2, <1>7
  <2>2. CASE w[j] = Nowhere
    BY <2>1, <2>2 DEF Under
  <2>3. CASE w[j] # Nowhere /\ i \in Up(w, w[j])
    <3>1. Up(v, w[j]) = Up(w, w[j]) \cup Up(w, d)
      BY <2>3, <1>1, <1>4, <1>5
    <3>2. QED
      BY <3>1, <2>1, <2>3 DEF Under
  <2>4. CASE w[j] # Nowhere /\ i \notin Up(w, w[j])
    <3>1. Up(v, w[j]) = Up(w, w[j])
      BY <2>4, <1>1
    <3>2. QED
      BY <3>1, <2>1, <2>4 DEF Under
  <2>5. QED
    BY <2>2, <2>3, <2>4
<1>8. /\ Under(v, b) \subseteq Goods /\ Under(w, b) \subseteq Goods /\ Under(w, i) \subseteq Goods
  BY DEF Under
<1>9. ASSUME b \in Up(w, d), NEW j \in Under(w, b), j \in Under(w, i) PROVE FALSE
  <2>1. b \in Up(w, w[j]) /\ i \in Up(w, w[j])
    BY <1>9 DEF Under
  <2>2. Up(w, i) = {i}
    BY UpStep
  <2>3. b \in {i} \/ i \in Up(w, b)
    BY <2>1, <2>2, UpLinear
  <2>4. Up(w, b) \subseteq Up(w, d)
    BY <1>9, UpTransitive
  <2>5. QED
    BY <2>3, <2>4, <1>9
<1>10. b \in Up(w, d) => Under(w, b) \cap Carried(w, i) = {}
  BY <1>6, <1>9 DEF Carried
<1>11. b \in Up(w, d) => Under(v, b) = Under(w, b) \cup Carried(w, i)
  BY <1>6, <1>7, <1>8 DEF Carried
<1>12. b \notin Up(w, d) => Under(v, b) = Under(w, b)
  BY <1>6, <1>7, <1>8
<1>13. QED
  BY <1>10, <1>11, <1>12

\* The other way round: taking i out of its container.
LEMMA PruneIs ==
  ASSUME NEW w \in Parents, Rooted(w), NEW i \in Goods, w[i] # Nowhere, NEW v,
         Placed(w, i, Nowhere, v)
  PROVE  /\ v \in Parents /\ v[i] = Nowhere /\ w[i] \in Holders /\ Placed(v, i, w[i], w)
         /\ \A x : Up(v, x) \subseteq Up(w, x)
         /\ i \notin Up(w, w[i]) /\ i \notin Up(v, w[i])
         /\ \A x : i \notin Up(w, x) => Up(v, x) = Up(w, x)
         /\ \A x : i \notin Up(v, x) => Up(v, x) = Up(w, x)
         /\ Under(v, i) = Under(w, i)
         /\ \A b : Under(v, b) \subseteq Under(w, b)
<1>1. /\ v \in Parents /\ v[i] = Nowhere /\ w[i] \in Holders /\ Placed(v, i, w[i], w)
      /\ \A y \in Goods : y # i => v[y] = w[y]
  BY DEF Parents, Placed
<1>2. ASSUME NEW x PROVE Up(v, x) \subseteq Up(w, x)
  <2>1. ASSUME NEW y \in Up(w, x) \cap Bags, v[y] # Nowhere PROVE v[y] \in Up(w, x)
    <3>1. y \in Goods /\ y # i
      BY <2>1, <1>1, KindsApart
    <3>2. v[y] = w[y]
      BY <3>1, <1>1
    <3>3. QED
      BY <3>2, <2>1, UpIs
  <2>2. x \in Up(w, x)
    BY UpIs
  <2>3. QED
    BY <2>1, <2>2, UpLeast
<1>3. i \notin Up(w, w[i])
  <2>1. CASE i \in Bags
    BY <2>1, RootedAcyclic
  <2>2. CASE i \in Piles
    BY <2>2, <1>1, UpHolders, KindsApart
  <2>3. QED
    BY <2>1, <2>2, KindsApart
<1>4. i \notin Up(v, w[i])
  BY <1>2, <1>3
<1>5. \A x : i \notin Up(v, x) => Up(w, x) = Up(v, x)
  <2> DEFINE d == w[i]
  <2>1. d \in Holders /\ Placed(v, i, d, w) /\ i \notin Up(v, d)
    BY <1>1, <1>4
  <2> HIDE DEF d
  <2>2. QED
    BY <2>1, <1>1, GraftUp
<1>6. \A x : i \notin Up(w, x) => Up(v, x) = Up(w, x)
  BY <1>2, <1>5
<1>7. \A b : Under(v, b) \subseteq Under(w, b)
  <2>1. ASSUME NEW b, NEW j \in Under(v, b) PROVE j \in Under(w, b)
    <3>1. j \in Goods /\ j # i /\ v[j] = w[j] /\ v[j] # Nowhere /\ b \in Up(v, v[j])
      BY <1>1 DEF Under
    <3>2. QED
      BY <3>1, <1>2 DEF Under
  <2>2. QED
    BY <2>1
<1>8. Under(w, i) \subseteq Under(v, i)
  <2>1. ASSUME NEW j \in Under(w, i) PROVE j \in Under(v, i)
    <3>1. j \in Goods /\ w[j] # Nowhere /\ i \in Up(w, w[j])
      BY DEF Under
    <3>2. j # i
      BY <3>1, <1>3
    <3>3. i \in Up(v, w[j])
      BY <3>1, <1>5
    <3>4. QED
      BY <3>1, <3>2, <3>3, <1>1 DEF Under
  <2>2. QED
    BY <2>1
<1>9. QED
  BY <1>1, <1>2, <1>3, <1>4, <1>5, <1>6, <1>7, <1>8

-----------------------------------------------------------------------------
(***************************************************************************)
(* One item is destroyed, with what it carries.                            *)
(***************************************************************************)

\* The containers in gone are those below i.
LEMMA CarriedIs ==
  ASSUME NEW w \in Parents, NEW i \in Goods
  PROVE  /\ Carried(w, i) \subseteq Goods
         /\ \A y \in Holders : i \in Up(w, y) <=> y \in Carried(w, i)
         /\ \A j \in Goods : w[j] \in Holders \cap Carried(w, i) => j \in Carried(w, i)
         /\ \A j \in Carried(w, i) : j # i => w[j] \in Carried(w, i)
<1>1. Carried(w, i) \subseteq Goods
  BY DEF Carried, Under
<1>2. ASSUME NEW y \in Holders PROVE i \in Up(w, y) <=> y \in Carried(w, i)
  <2>1. ASSUME i \in Up(w, y) PROVE y \in Carried(w, i)
    <3>1. CASE y = i
      BY <3>1 DEF Carried
    <3>2. CASE y # i
      <4>1. y \in Bags /\ w[y] # Nowhere /\ i \in Up(w, w[y])
        BY <3>2, <2>1, UpStep
      <4>2. QED
        BY <4>1, KindsApart DEF Carried, Under
    <3>3. QED
      BY <3>1, <3>2
  <2>2. ASSUME y \in Carried(w, i) PROVE i \in Up(w, y)
    <3>1. CASE y = i
      BY <3>1, UpIs
    <3>2. CASE y # i
      <4>1. y \in Goods /\ w[y] # Nowhere /\ i \in Up(w, w[y])
        BY <3>2, <2>2 DEF Carried, Under
      <4>2. y \in Bags
        BY <4>1, KindsApart
      <4>3. QED
        BY <4>1, <4>2, UpStep
    <3>3. QED
      BY <3>1, <3>2
  <2>3. QED
    BY <2>1, <2>2
<1>3. ASSUME NEW j \in Goods, w[j] \in Holders \cap Carried(w, i) PROVE j \in Carried(w, i)
  BY <1>2, <1>3, KindsApart DEF Carried, Under
<1>4. ASSUME NEW j \in Carried(w, i), j # i PROVE w[j] \in Carried(w, i)
  <2>1. j \in Goods /\ w[j] # Nowhere /\ i \in Up(w, w[j])
    BY <1>4 DEF Carried, Under
  <2>2. w[j] \in Holders
    BY <2>1 DEF Parents
  <2>3. QED
    BY <2>1, <2>2, <1>2
<1>5. QED
  BY <1>1, <1>2, <1>3, <1>4

\* v is w without the items in gone.
Cut(w, gone, v) ==
  /\ v \in Parents
  /\ \A x \in gone : v[x] = Nowhere
  /\ \A x \in Goods \ gone : v[x] = w[x]

\* Destroying an item with its contents leaves the other lines alone.
LEMMA CutUp ==
  ASSUME NEW w \in Parents, NEW i \in Goods, NEW v, Cut(w, Carried(w, i), v)
  PROVE  /\ \A b \in Holders : b \notin Carried(w, i) => Up(v, b) = Up(w, b)
         /\ Rooted(w) => Rooted(v)
<1> DEFINE gone == Carried(w, i)
<1>1. \A y \in Holders : i \in Up(w, y) <=> y \in gone
  BY CarriedIs
<1>2. v \in Parents /\ (\A x \in gone : v[x] = Nowhere) /\ \A x \in Goods \ gone : v[x] = w[x]
  BY DEF Cut
<1> HIDE DEF gone
<1>3. ASSUME NEW b \in Holders, b \notin gone PROVE Up(v, b) = Up(w, b)
  <2>1. \A y \in Up(w, b) : y \notin gone
    <3>1. ASSUME NEW y \in Up(w, b), y \in gone PROVE FALSE
      <4>1. y \in Holders
        BY UpHolders
      <4>2. i \in Up(w, y)
        BY <4>1, <3>1, <1>1
      <4>3. i \in Up(w, b)
        BY <4>2, UpTransitive
      <4>4. QED
        BY <4>3, <1>1, <1>3
    <3>2. QED
      BY <3>1
  <2>2. \A y \in Up(w, b) \cap Bags : v[y] = w[y]
    BY <2>1, <1>2, KindsApart
  <2>3. Up(v, b) \subseteq Up(w, b)
    <3>1. b \in Up(w, b) /\ \A y \in Up(w, b) \cap Bags : v[y] # Nowhere => v[y] \in Up(w, b)
      BY <2>2, UpIs
    <3>2. QED
      BY <3>1, UpLeast
  <2>4. Up(w, b) \subseteq Up(v, b)
    <3> DEFINE S == Up(w, b) \cap Up(v, b)
    <3>1. b \in S
      BY UpIs
    <3>2. ASSUME NEW y \in S, y \in Bags, w[y] # Nowhere PROVE w[y] \in S
      <4>1. v[y] = w[y]
        BY <3>2, <2>2
      <4>2. w[y] \in Up(w, b)
        BY <3>2, UpIs
      <4>3. v[y] \in Up(v, b)
        BY <3>2, <4>1, UpIs
      <4>4. QED
        BY <4>1, <4>2, <4>3
    <3>3. Up(w, b) \subseteq S
      <4> HIDE DEF S
      <4>1. QED
        BY <3>1, <3>2, UpLeast
    <3>4. QED
      BY <3>3
  <2>5. QED
    BY <2>3, <2>4
<1>4. ASSUME Rooted(w), NEW b \in Bags, v[b] # Nowhere PROVE Up(v, b) \cap Roots # {}
  <2>1. b \in Holders /\ b \in Goods /\ b \notin gone
    BY <1>2, <1>4, KindsApart
  <2>2. w[b] # Nowhere /\ Up(v, b) = Up(w, b)
    BY <2>1, <1>2, <1>3, <1>4
  <2>3. QED
    BY <2>2, <1>4 DEF Rooted
<1>5. QED
  BY <1>3, <1>4 DEF gone, Rooted

\* Then the other containers hold what they held without the destroyed items, of
\* which those above the item held all and the others none.
LEMMA CutUnder ==
  ASSUME NEW w \in Parents, Rooted(w), NEW i \in Goods, w[i] # Nowhere, NEW v, Cut(w, Carried(w, i), v),
         NEW b \in Holders
  PROVE  /\ b \in Carried(w, i) => Under(v, b) = {}
         /\ b \notin Carried(w, i) => Under(v, b) = Under(w, b) \ Carried(w, i)
         /\ b \notin Carried(w, i) /\ b \in Up(w, w[i]) => Carried(w, i) \subseteq Under(w, b)
         /\ b \notin Carried(w, i) /\ b \notin Up(w, w[i]) => Carried(w, i) \cap Under(w, b) = {}
<1> DEFINE gone == Carried(w, i)
<1>1. /\ gone \subseteq Goods
      /\ \A y \in Holders : i \in Up(w, y) <=> y \in gone
      /\ \A j \in Goods : w[j] \in Holders \cap gone => j \in gone
  BY CarriedIs
<1>2. v \in Parents /\ (\A x \in gone : v[x] = Nowhere) /\ \A x \in Goods \ gone : v[x] = w[x]
  BY DEF Cut
<1>3. \A y \in Holders : y \notin gone => Up(v, y) = Up(w, y)
  BY CutUp
<1>4. w[i] \in Holders
  BY DEF Parents
<1>5. \A j \in gone : j = i \/ (j \in Goods /\ w[j] # Nowhere /\ i \in Up(w, w[j]))
  BY DEF Carried, Under
<1> HIDE DEF gone
<1>6. ASSUME NEW j \in Under(v, b)
      PROVE  j \in Goods \ gone /\ w[j] # Nowhere /\ w[j] \in Holders \ gone /\ b \in Up(w, w[j])
  <2>1. j \in Goods /\ v[j] # Nowhere /\ b \in Up(v, v[j])
    BY DEF Under
  <2>2. j \notin gone /\ v[j] = w[j] /\ w[j] \in Holders
    BY <2>1, <1>2 DEF Parents
  <2>3. w[j] \notin gone
    BY <2>1, <2>2, <1>1
  <2>4. QED
    BY <2>1, <2>2, <2>3, <1>3
<1>7. ASSUME b \in gone PROVE Under(v, b) = {}
  <2>1. ASSUME NEW j \in Under(v, b) PROVE FALSE
    <3>1. w[j] \in Holders \ gone /\ b \in Up(w, w[j])
      BY <1>6
    <3>2. i \in Up(w, b)
      BY <1>1, <1>7
    <3>3. i \in Up(w, w[j])
      BY <3>1, <3>2, UpTransitive
    <3>4. QED
      BY <3>1, <3>3, <1>1
  <2>2. QED
    BY <2>1
<1>8. ASSUME NEW j \in Under(w, b) \ gone PROVE j \in Under(v, b)
  <2>1. j \in Goods /\ w[j] # Nowhere /\ w[j] \in Holders /\ b \in Up(w, w[j])
    BY DEF Under, Parents
  <2>2. w[j] \notin gone /\ v[j] = w[j]
    BY <2>1, <1>1, <1>2
  <2>3. Up(v, w[j]) = Up(w, w[j])
    BY <2>1, <2>2, <1>3
  <2>4. QED
    BY <2>1, <2>2, <2>3 DEF Under
<1>9. Under(v, b) \subseteq Under(w, b) \ gone
  BY <1>6 DEF Under
<1>10. ASSUME b \in Up(w, w[i]) PROVE gone \subseteq Under(w, b)
  <2>1. i \in Under(w, b)
    BY <1>4, <1>10, KindsApart DEF Under
  <2>2. ASSUME NEW j \in gone, j # i PROVE j \in Under(w, b)
    <3>1. j \in Goods /\ w[j] # Nowhere /\ i \in Up(w, w[j])
      BY <1>5, <2>2
    <3>2. i \in Bags
      BY <3>1, UpHolders, KindsApart DEF Parents
    <3>3. w[i] \in Up(w, w[j])
      BY <3>1, <3>2, UpIs
    <3>4. b \in Up(w, w[j])
      BY <3>3, <1>10, UpTransitive
    <3>5. QED
      BY <3>1, <3>4 DEF Under
  <2>3. QED
    BY <2>1, <2>2
<1>11. ASSUME b \notin gone, b \notin Up(w, w[i]), NEW j \in gone, j \in Under(w, b) PROVE FALSE
  <2>1. w[j] # Nowhere /\ b \in Up(w, w[j])
    BY <1>11 DEF Under
  <2>2. j # i /\ i \in Up(w, w[j])
    BY <2>1, <1>5, <1>11
  <2>3. i \in Up(w, b) \/ b \in Up(w, i)
    BY <2>1, <2>2, UpLinear
  <2>4. i \notin Up(w, b)
    BY <1>1, <1>11
  <2>5. i \in gone
    BY DEF gone, Carried
  <2>6. b = i \/ b \in Up(w, w[i])
    BY <2>3, <2>4, UpStep
  <2>7. QED
    BY <2>5, <2>6, <1>11
<1>12. QED
  <2>1. b \notin gone => Under(v, b) = Under(w, b) \ gone
    BY <1>8, <1>9
  <2>2. b \notin gone /\ b \notin Up(w, w[i]) => gone \cap Under(w, b) = {}
    BY <1>11
  <2>3. QED
    BY <1>7, <1>10, <2>1, <2>2 DEF gone

\* The only way from b below a container in a root is through that container.
LEMMA TopIs ==
  ASSUME NEW w \in Parents, NEW d \in Bags, NEW b \in Bags, b \in Up(w, d), w[b] \in Roots
  PROVE  (CHOOSE x \in Up(w, d) \cap Bags : w[x] \in Roots \cup {Nowhere}) = b
<1> DEFINE top == CHOOSE x \in Up(w, d) \cap Bags : w[x] \in Roots \cup {Nowhere}
<1>1. top \in Up(w, d) \cap Bags /\ w[top] \in Roots \cup {Nowhere}
  OBVIOUS
<1> HIDE DEF top
<1>2. w[b] \notin Bags /\ w[b] # Nowhere /\ (w[top] \in Roots => w[top] \notin Bags)
  BY KindsApart
<1>3. Up(w, w[b]) = {w[b]} /\ (w[top] \in Roots => Up(w, w[top]) = {w[top]})
  BY <1>2, UpStep
<1>4. Up(w, b) = {b, w[b]}
  BY <1>2, <1>3, UpStep
<1>5. Up(w, top) \subseteq {top, w[top]} /\ (w[top] = Nowhere => Up(w, top) = {top})
  <2>1. CASE w[top] = Nowhere
    BY <2>1, UpStep
  <2>2. CASE w[top] \in Roots
    <3>1. w[top] # Nowhere
      BY <2>2, KindsApart
    <3>2. Up(w, top) = {top} \cup Up(w, w[top])
      BY <3>1, <1>1, UpStep
    <3>3. QED
      BY <3>1, <3>2, <2>2, <1>3
  <2>3. QED
    BY <2>1, <2>2, <1>1
<1>6. top \in Up(w, b) \/ b \in Up(w, top)
  BY <1>1, UpLinear
<1>7. top = b
  <2>1. CASE top \in Up(w, b)
    BY <2>1, <1>1, <1>2, <1>4
  <2>2. CASE b \in Up(w, top)
    BY <2>2, <1>1, <1>2, <1>5
  <2>3. QED
    BY <2>1, <2>2, <1>6
<1>8. QED
  BY <1>7 DEF top

-----------------------------------------------------------------------------
(***************************************************************************)
(* The weight of a container counts the units of everything below it.      *)
(***************************************************************************)

\* The units that an item has without its contents.
Own(a) == [i \in Goods |-> IF i \in Bags THEN 1 ELSE a[i]]

\* Every container weighs what lies in it.
Weighs(w, a, t) == \A b \in Holders : t[b] = Count(Own(a), Under(w, b))

\* updateItemWeight() along a line of containers.
Shifted(t, s, line, n) == \A x \in Holders : s[x] = IF x \in line THEN t[x] + n ELSE t[x]

\* Weights are numbers; a bag weighs one.
LEMMA OwnType ==
  ASSUME NEW a \in [Piles -> Nat]
  PROVE  /\ Own(a) \in [Goods -> Nat]
         /\ \A p \in Piles : Own(a)[p] = a[p]
         /\ \A g \in Bags : Own(a)[g] = 1
BY KindsApart DEF Own

\* Finitely many items lie in a container.
LEMMA UnderSubset ==
  ASSUME NEW w, NEW b
  PROVE  Under(w, b) \in SUBSET Goods /\ IsFiniteSet(Under(w, b))
<1>1. Under(w, b) \in SUBSET Goods
  BY DEF Under
<1>2. QED
  BY <1>1, KindsApart, FS_Subset

\* What an item weighs with its contents.
LEMMA CarriedWeight ==
  ASSUME NEW w \in Parents, NEW a \in [Piles -> Nat], NEW t, Weighs(w, a, t), NEW i \in Goods,
         i \notin Under(w, i)
  PROVE  /\ Carried(w, i) \in SUBSET Goods
         /\ Count(Own(a), Carried(w, i)) = IF i \in Bags THEN 1 + t[i] ELSE a[i]
         /\ Count(Own(a), Carried(w, i)) \in Nat
<1> DEFINE f == Own(a)
           c == Carried(w, i)
<1>1. f \in [Goods -> Nat] /\ (\A p \in Piles : f[p] = a[p]) /\ \A g \in Bags : f[g] = 1
  BY OwnType
<1>2. c \in SUBSET Goods /\ i \in c /\ c \ {i} = Under(w, i)
  BY UnderSubset DEF Carried
<1>3. IsFiniteSet(Goods)
  BY KindsApart
<1> HIDE DEF f, c
<1>4. Count(f, c) = f[i] + Count(f, Under(w, i)) /\ Count(f, c) \in Nat
  BY <1>1, <1>2, <1>3, CountSplit, CountFinite
<1>5. CASE i \in Bags
  <2>1. f[i] = 1 /\ t[i] = Count(f, Under(w, i))
    BY <1>1, <1>5, KindsApart DEF Weighs, f
  <2>2. QED
    BY <2>1, <1>2, <1>4, <1>5 DEF f, c
<1>6. CASE i \in Piles
  <2>1. i \notin Bags /\ f[i] = a[i] /\ Under(w, i) = {} /\ a[i] \in Nat
    BY <1>1, <1>6, UnderPile, KindsApart
  <2>2. Count(f, Under(w, i)) = 0
    BY <2>1, CountEmpty
  <2>3. QED
    BY <2>1, <2>2, <1>2, <1>4 DEF f, c
<1>7. QED
  BY <1>5, <1>6, KindsApart

\* Adding the weight of an item to the containers above its new place keeps every
\* weight exact.
LEMMA WeighGraft ==
  ASSUME NEW w \in Parents, NEW a \in [Piles -> Nat], NEW t, Weighs(w, a, t), NEW i \in Goods,
         w[i] = Nowhere, NEW d \in Holders, i \notin Up(w, d), NEW v, Placed(w, i, d, v),
         NEW s, Shifted(t, s, Up(w, d), Count(Own(a), Carried(w, i)))
  PROVE  Weighs(v, a, s)
<1> DEFINE f == Own(a)
           c == Carried(w, i)
<1>1. f \in [Goods -> Nat] /\ IsFiniteSet(Goods)
  BY OwnType, KindsApart
<1>2. c \in SUBSET Goods
  BY UnderSubset DEF Carried
<1>3. ASSUME NEW b \in Holders PROVE s[b] = Count(f, Under(v, b))
  <2>1. t[b] = Count(f, Under(w, b)) /\ Under(w, b) \in SUBSET Goods
    BY UnderSubset DEF Weighs
  <2>2. CASE b \in Up(w, d)
    <3>1. Under(v, b) = Under(w, b) \cup c /\ Under(w, b) \cap c = {}
      BY <2>2, GraftUnder
    <3> HIDE DEF f, c
    <3>2. Count(f, Under(v, b)) = Count(f, Under(w, b)) + Count(f, c)
      BY <3>1, <2>1, <1>1, <1>2, CountUnion
    <3>3. QED
      BY <3>2, <2>1, <2>2 DEF f, c, Shifted
  <2>3. CASE b \notin Up(w, d)
    <3>1. Under(v, b) = Under(w, b)
      BY <2>3, GraftUnder
    <3>2. QED
      BY <3>1, <2>1, <2>3 DEF Shifted
  <2>4. QED
    BY <2>2, <2>3
<1>4. QED
  BY <1>3 DEF Weighs

\* So does subtracting it from those above its old place.
LEMMA WeighPrune ==
  ASSUME NEW w \in Parents, Rooted(w), NEW a \in [Piles -> Nat], NEW t, Weighs(w, a, t), NEW i \in Goods,
         w[i] # Nowhere, NEW v, Placed(w, i, Nowhere, v),
         NEW s, Shifted(t, s, Up(w, w[i]), -Count(Own(a), Carried(w, i)))
  PROVE  Weighs(v, a, s)
<1> DEFINE f == Own(a)
           c == Carried(w, i)
           d == w[i]
<1>1. f \in [Goods -> Nat] /\ IsFiniteSet(Goods)
  BY OwnType, KindsApart
<1>2. c \in SUBSET Goods /\ \A b : Under(v, b) \in SUBSET Goods
  BY UnderSubset DEF Carried
<1>3. /\ v \in Parents /\ v[i] = Nowhere /\ d \in Holders /\ Placed(v, i, d, w)
      /\ i \notin Up(v, d) /\ Up(v, d) = Up(w, d)
      /\ Carried(v, i) = c
  BY PruneIs DEF Carried
<1>4. ASSUME NEW b \in Holders PROVE s[b] = Count(f, Under(v, b))
  <2>1. t[b] = Count(f, Under(w, b))
    BY DEF Weighs
  <2>2. CASE b \in Up(w, d)
    <3>1. Under(w, b) = Under(v, b) \cup c /\ Under(v, b) \cap c = {}
      <4> HIDE DEF c, d
      <4>1. QED
        BY <2>2, <1>3, GraftUnder
    <3>2. s[b] = t[b] + (-Count(f, c))
      BY <2>2 DEF Shifted
    <3> HIDE DEF f, c
    <3>3. Count(f, Under(w, b)) = Count(f, Under(v, b)) + Count(f, c)
      BY <3>1, <1>1, <1>2, CountUnion
    <3>4. Count(f, Under(v, b)) \in Nat /\ Count(f, c) \in Nat
      BY <1>1, <1>2, CountFinite
    <3>5. QED
      BY <3>2, <3>3, <3>4, <2>1
  <2>3. CASE b \notin Up(w, d)
    <3>1. Under(w, b) = Under(v, b)
      <4> HIDE DEF c, d
      <4>1. QED
        BY <2>3, <1>3, GraftUnder
    <3>2. QED
      BY <3>1, <2>1, <2>3 DEF Shifted
  <2>4. QED
    BY <2>2, <2>3
<1>5. QED
  BY <1>4 DEF Weighs

\* And destroying the item with its contents.
LEMMA WeighCut ==
  ASSUME NEW w \in Parents, Rooted(w), NEW a \in [Piles -> Nat], NEW t, Weighs(w, a, t), NEW i \in Goods,
         w[i] # Nowhere, NEW v, Cut(w, Carried(w, i), v),
         NEW a2 \in [Piles -> Nat], \A p \in Piles : p \notin Carried(w, i) => a2[p] = a[p],
         NEW s, Shifted(t, s, Up(w, w[i]), -Count(Own(a), Carried(w, i))),
         NEW u, \A b \in Holders : u[b] = IF b \in Carried(w, i) THEN 0 ELSE s[b]
  PROVE  Weighs(v, a2, u)
<1> DEFINE f == Own(a)
           g == Own(a2)
           c == Carried(w, i)
<1>1. f \in [Goods -> Nat] /\ g \in [Goods -> Nat] /\ IsFiniteSet(Goods)
  BY OwnType, KindsApart
<1>2. c \in SUBSET Goods
  BY UnderSubset DEF Carried
<1>3. \A x \in Goods : x \notin c => f[x] = g[x]
  BY DEF Own, Goods
<1>4. ASSUME NEW b \in Holders PROVE u[b] = Count(g, Under(v, b))
  <2>1. t[b] = Count(f, Under(w, b)) /\ Under(w, b) \in SUBSET Goods
    BY UnderSubset DEF Weighs
  <2>2. CASE b \in c
    <3>1. Under(v, b) = {}
      BY <2>2, CutUnder
    <3>2. QED
      BY <3>1, <2>2, CountEmpty
  <2>3. CASE b \notin c /\ b \in Up(w, w[i])
    <3>1. Under(v, b) = Under(w, b) \ c /\ c \subseteq Under(w, b)
      BY <2>3, CutUnder
    <3>2. u[b] = t[b] + (-Count(f, c))
      BY <2>3 DEF Shifted
    <3> HIDE DEF f, g, c
    <3>3. Under(w, b) = Under(v, b) \cup c /\ Under(v, b) \cap c = {} /\ Under(v, b) \in SUBSET Goods
      BY <3>1, <2>1
    <3>4. Count(f, Under(w, b)) = Count(f, Under(v, b)) + Count(f, c)
      BY <3>3, <1>1, <1>2, CountUnion
    <3>5. Count(f, Under(v, b)) = Count(g, Under(v, b))
      BY <3>3, <1>3, CountSame
    <3>6. Count(f, Under(v, b)) \in Nat /\ Count(f, c) \in Nat
      BY <3>3, <1>1, <1>2, CountFinite
    <3>7. QED
      BY <3>2, <3>4, <3>5, <3>6, <2>1
  <2>4. CASE b \notin c /\ b \notin Up(w, w[i])
    <3>1. Under(v, b) = Under(w, b) \ c /\ c \cap Under(w, b) = {}
      BY <2>4, CutUnder
    <3>2. u[b] = t[b]
      BY <2>4 DEF Shifted
    <3> HIDE DEF f, g, c
    <3>3. Under(v, b) = Under(w, b)
      BY <3>1
    <3>4. Count(f, Under(v, b)) = Count(g, Under(v, b))
      BY <3>1, <3>3, <2>1, <1>3, CountSame
    <3>5. QED
      BY <3>2, <3>3, <3>4, <2>1
  <2>5. QED
    BY <2>2, <2>3, <2>4
<1>5. QED
  BY <1>4 DEF Weighs

\* Other units in a pile.
LEMMA WeighPile ==
  ASSUME NEW w \in Parents, NEW a \in [Piles -> Nat], NEW t, Weighs(w, a, t),
         NEW p \in Piles, w[p] # Nowhere,
         NEW a2 \in [Piles -> Nat], \A q \in Piles : q # p => a2[q] = a[q],
         NEW s, Shifted(t, s, Up(w, w[p]), a2[p] - a[p])
  PROVE  Weighs(w, a2, s)
<1> DEFINE f == Own(a)
           g == Own(a2)
<1>1. f \in [Goods -> Nat] /\ g \in [Goods -> Nat] /\ IsFiniteSet(Goods)
  BY OwnType, KindsApart
<1>2. f[p] = a[p] /\ g[p] = a2[p] /\ \A x \in Goods : x # p => f[x] = g[x]
  BY KindsApart DEF Own
<1>3. ASSUME NEW b \in Holders PROVE s[b] = Count(g, Under(w, b))
  <2> DEFINE U == Under(w, b)
  <2>1. t[b] = Count(f, U) /\ U \in SUBSET Goods
    BY UnderSubset DEF Weighs
  <2>2. p \in U <=> b \in Up(w, w[p])
    BY KindsApart DEF Under
  <2>3. Count(f, U) \in Nat /\ Count(g, U) \in Nat /\ a[p] \in Nat /\ a2[p] \in Nat
    BY <2>1, <1>1, CountFinite
  <2> HIDE DEF U, f, g
  <2>4. CASE p \in U
    <3>1. Count(g, U) + f[p] = Count(f, U) + g[p]
      BY <2>1, <2>4, <1>1, <1>2, CountChange
    <3>2. s[b] = t[b] + (a2[p] - a[p])
      BY <2>2, <2>4 DEF Shifted
    <3>3. QED
      BY <3>1, <3>2, <2>1, <2>3, <1>2 DEF U
  <2>5. CASE p \notin U
    <3>1. Count(f, U) = Count(g, U)
      BY <2>1, <2>5, <1>2, CountSame
    <3>2. QED
      BY <3>1, <2>1, <2>2, <2>5 DEF Shifted, U
  <2>6. QED
    BY <2>4, <2>5
<1>4. QED
  BY <1>3 DEF Weighs

\* A pile that is nowhere weighs on nobody.
LEMMA WeighLoose ==
  ASSUME NEW w \in Parents, NEW a \in [Piles -> Nat], NEW t, Weighs(w, a, t),
         NEW a2 \in [Piles -> Nat], \A q \in Piles : w[q] # Nowhere => a2[q] = a[q]
  PROVE  Weighs(w, a2, t)
<1> DEFINE f == Own(a)
           g == Own(a2)
<1>1. \A x \in Goods : w[x] # Nowhere => f[x] = g[x]
  BY DEF Own, Goods
<1>2. ASSUME NEW b \in Holders PROVE t[b] = Count(g, Under(w, b))
  <2>1. t[b] = Count(f, Under(w, b))
    BY DEF Weighs
  <2>2. \A x \in Under(w, b) : f[x] = g[x]
    BY <1>1 DEF Under
  <2> HIDE DEF f, g
  <2>3. QED
    BY <2>1, <2>2, CountSame
<1>3. QED
  BY <1>2 DEF Weighs

-----------------------------------------------------------------------------
(***************************************************************************)
(* The limits: how much a place at the top of a branch may carry.          *)
(***************************************************************************)

\* v is w with i nowhere.
Detached(w, i, v) ==
  /\ v \in Parents /\ v[i] = Nowhere
  /\ \A y \in Goods : y # i => v[y] = w[y]
  /\ \A x : i \notin Up(w, x) \/ i \notin Up(v, x) => Up(v, x) = Up(w, x)
  /\ Under(v, i) = Under(w, i)
  /\ \A b : Under(v, b) \subseteq Under(w, b)

\* An item that has been taken out of its container.
LEMMA PruneDetaches ==
  ASSUME NEW w \in Parents, Rooted(w), NEW i \in Goods, w[i] # Nowhere, NEW v, Placed(w, i, Nowhere, v)
  PROVE  Detached(w, i, v)
<1>1. /\ v \in Parents /\ v[i] = Nowhere
      /\ \A x : i \notin Up(w, x) => Up(v, x) = Up(w, x)
      /\ \A x : i \notin Up(v, x) => Up(v, x) = Up(w, x)
      /\ Under(v, i) = Under(w, i)
      /\ \A b : Under(v, b) \subseteq Under(w, b)
  BY PruneIs
<1>2. \A y \in Goods : y # i => v[y] = w[y]
  BY DEF Placed
<1>3. QED
  BY <1>1, <1>2 DEF Detached

\* An item that was nowhere.
LEMMA LooseDetached ==
  ASSUME NEW w \in Parents, NEW i \in Goods, w[i] = Nowhere
  PROVE  Detached(w, i, w)
BY DEF Detached

\* An item goes to a container of the game that does not lie in it: everything still
\* lies in a root.
LEMMA RootedGraft ==
  ASSUME NEW w \in Parents, Rooted(w), NEW i \in Goods, NEW u, Detached(w, i, u),
         NEW d \in Holders, d \in Roots \/ w[d] # Nowhere, i \notin Up(w, d),
         NEW v, Placed(u, i, d, v)
  PROVE  /\ Rooted(v) /\ Up(u, d) = Up(w, d)
<1>1. /\ u \in Parents /\ u[i] = Nowhere /\ Up(u, d) = Up(w, d)
      /\ \A y \in Goods : y # i => u[y] = w[y]
      /\ \A x : i \notin Up(u, x) => Up(u, x) = Up(w, x)
  BY DEF Detached
<1>2. i \notin Up(u, d)
  BY <1>1
<1>3. /\ \A x : i \notin Up(u, x) => Up(v, x) = Up(u, x)
      /\ \A x : i \in Up(u, x) /\ i \in Bags => Up(v, x) = Up(u, x) \cup Up(u, d)
  BY <1>1, <1>2, GraftUp
<1>4. Up(w, d) \cap Roots # {}
  <2>1. CASE d \in Roots
    BY <2>1, UpIs
  <2>2. CASE d \notin Roots
    BY <2>2, KindsApart DEF Rooted
  <2>3. QED
    BY <2>1, <2>2
<1>5. ASSUME NEW b \in Bags, v[b] # Nowhere PROVE Up(v, b) \cap Roots # {}
  <2>1. b \in Holders /\ b \in Goods
    BY KindsApart
  <2>2. CASE i \in Up(u, b)
    <3>1. i \in Bags
      BY <2>1, <2>2, <1>1, UpHolders, KindsApart
    <3>2. QED
      BY <3>1, <2>2, <1>1, <1>3, <1>4
  <2>3. CASE i \notin Up(u, b)
    <3>1. b # i
      BY <2>3, UpIs
    <3>2. v[b] = w[b]
      BY <3>1, <2>1, <1>1 DEF Placed
    <3>3. QED
      BY <3>2, <2>3, <1>1, <1>3, <1>5 DEF Rooted
  <2>4. QED
    BY <2>2, <2>3
<1>6. QED
  BY <1>1, <1>5 DEF Rooted

\* How many items and containers a branch may hold.
Fits(s) == Cardinality(s) <= MaxItems /\ Cardinality(s \cap Bags) <= MaxContainer

\* The branch of every bag that lies in a root respects the limits.
Bounded(w) == \A b \in Bags : w[b] \in Roots => Fits(Under(w, b))

\* Part of what fits fits.
LEMMA FitsSubset ==
  ASSUME NEW s \in SUBSET Goods, NEW r \in SUBSET s, Fits(s)
  PROVE  Fits(r)
<1>1. IsFiniteSet(s) /\ IsFiniteSet(s \cap Bags) /\ r \cap Bags \subseteq s \cap Bags
  BY KindsApart, FS_Subset
<1>2. /\ Cardinality(s) \in Nat /\ Cardinality(r) \in Nat /\ Cardinality(r) <= Cardinality(s)
      /\ Cardinality(s \cap Bags) \in Nat /\ Cardinality(r \cap Bags) \in Nat
      /\ Cardinality(r \cap Bags) <= Cardinality(s \cap Bags)
  BY <1>1, FS_Subset, FS_CardinalityType
<1>3. MaxItems \in Nat /\ MaxContainer \in Nat
  BY ContainersAssumption
<1>4. QED
  BY <1>2, <1>3 DEF Fits

\* What queryAdd() counts.
Counted(held, added, i) ==
  /\ i \in Bags => Cardinality(added \cap Bags) + 1 + Cardinality(held \cap Bags) <= MaxContainer
  /\ Cardinality(added) + 1 + Cardinality(held) <= MaxItems

\* What queryAdd() has counted fits.
LEMMA CountedFits ==
  ASSUME NEW held \in SUBSET Goods, NEW added \in SUBSET Goods, NEW i \in Goods, Fits(held),
         Counted(held, added, i), i \in Piles => added = {}
  PROVE  Fits(held \cup ({i} \cup added))
<1>0. \A s \in SUBSET Goods : IsFiniteSet(s) /\ Cardinality(s) \in Nat
  BY KindsApart, FS_Subset, FS_CardinalityType
<1>1. ASSUME NEW s \in SUBSET Goods, NEW r \in SUBSET Goods
      PROVE  Cardinality(s \cup r) <= Cardinality(s) + Cardinality(r)
  <2>1. Cardinality(s \cup r) = Cardinality(s) + Cardinality(r) - Cardinality(s \cap r)
    BY <1>0, FS_Union
  <2>2. Cardinality(s) \in Nat /\ Cardinality(r) \in Nat /\ Cardinality(s \cap r) \in Nat
    BY <1>0
  <2>3. QED
    BY <2>1, <2>2
<1>2. Cardinality({i}) = 1 /\ {i} \in SUBSET Goods
  BY FS_Singleton
<1> DEFINE all == held \cup ({i} \cup added)
<1>3. Cardinality(all) <= MaxItems
  <2>1. Cardinality(all) <= Cardinality(held) + Cardinality({i} \cup added)
    BY <1>1
  <2>2. Cardinality({i} \cup added) <= 1 + Cardinality(added)
    BY <1>1, <1>2
  <2>3. /\ Cardinality(all) \in Nat /\ Cardinality(held) \in Nat /\ Cardinality(added) \in Nat
        /\ Cardinality({i} \cup added) \in Nat
    BY <1>0
  <2>4. MaxItems \in Nat
    BY ContainersAssumption
  <2> HIDE DEF all
  <2>5. QED
    BY <2>1, <2>2, <2>3, <2>4 DEF Counted
<1>4. Cardinality(all \cap Bags) <= MaxContainer
  <2> DEFINE h == held \cap Bags
             a == added \cap Bags
  <2>1. CASE i \in Bags
    <3>1. all \cap Bags = h \cup ({i} \cup a)
      BY <2>1
    <3>2. h \in SUBSET Goods /\ a \in SUBSET Goods
      OBVIOUS
    <3>3. Cardinality(h \cup ({i} \cup a)) <= Cardinality(h) + Cardinality({i} \cup a)
      BY <3>2, <1>1
    <3>4. Cardinality({i} \cup a) <= 1 + Cardinality(a)
      BY <3>2, <1>1, <1>2
    <3>5. /\ Cardinality(h \cup ({i} \cup a)) \in Nat /\ Cardinality(h) \in Nat /\ Cardinality(a) \in Nat
          /\ Cardinality({i} \cup a) \in Nat
      BY <3>2, <1>0
    <3>6. MaxContainer \in Nat
      BY ContainersAssumption
    <3>7. Cardinality(a) + 1 + Cardinality(h) <= MaxContainer
      BY <2>1 DEF Counted
    <3> HIDE DEF all, h, a
    <3>8. QED
      BY <3>1, <3>3, <3>4, <3>5, <3>6, <3>7
  <2>2. CASE i \in Piles
    <3>1. all \cap Bags = held \cap Bags
      BY <2>2, KindsApart
    <3>2. QED
      BY <3>1 DEF Fits
  <2>3. QED
    BY <2>1, <2>2, KindsApart
<1>5. QED
  BY <1>3, <1>4 DEF Fits

\* An item that queryAdd() has counted leaves the branches bounded.
LEMMA BoundedGraft ==
  ASSUME NEW w \in Parents, Bounded(w), NEW i \in Goods, NEW u, Detached(w, i, u),
         NEW d \in Holders, i \notin Up(w, d), NEW v, Placed(u, i, d, v),
         i \in Bags => Fits(Under(w, i)),
         \A b \in Bags : b \in Up(w, d) /\ w[b] \in Roots => Counted(Under(w, b), Under(w, i), i)
  PROVE  Bounded(v)
<1>1. /\ u \in Parents /\ u[i] = Nowhere /\ Up(u, d) = Up(w, d)
      /\ \A y \in Goods : y # i => u[y] = w[y]
      /\ Under(u, i) = Under(w, i)
      /\ \A b : Under(u, b) \subseteq Under(w, b)
  BY DEF Detached
<1>2. i \notin Up(u, d)
  BY <1>1
<1>3. \A b \in Holders : /\ b \in Up(w, d) => Under(v, b) = Under(u, b) \cup Carried(u, i)
                         /\ b \notin Up(w, d) => Under(v, b) = Under(u, b)
  BY <1>1, <1>2, GraftUnder
<1>4. ASSUME NEW b \in Bags, v[b] \in Roots PROVE Fits(Under(v, b))
  <2>1. b \in Holders /\ b \in Goods
    BY KindsApart
  <2>2. CASE b \in Up(w, d)
    <3>1. b # i /\ w[b] = v[b]
      BY <2>1, <2>2, <1>1 DEF Placed
    <3>2. Fits(Under(w, b)) /\ Counted(Under(w, b), Under(w, i), i)
      BY <3>1, <2>2, <1>4 DEF Bounded
    <3>3. Under(w, b) \in SUBSET Goods /\ Under(w, i) \in SUBSET Goods /\ (i \in Piles => Under(w, i) = {})
      BY UnderSubset, UnderPile
    <3> DEFINE s == Under(w, b) \cup ({i} \cup Under(w, i))
    <3>4. Fits(s) /\ s \in SUBSET Goods
      BY <3>2, <3>3, CountedFits
    <3>5. Under(v, b) \in SUBSET s
      BY <2>1, <2>2, <1>1, <1>3 DEF Carried
    <3> HIDE DEF s
    <3>6. QED
      BY <3>4, <3>5, FitsSubset
  <2>3. CASE b \notin Up(w, d)
    <3>1. Under(v, b) \in SUBSET Under(w, b) /\ Under(w, b) \in SUBSET Goods
      BY <2>1, <2>3, <1>1, <1>3, UnderSubset
    <3>2. Fits(Under(w, b))
      <4>1. CASE b = i
        BY <4>1
      <4>2. CASE b # i
        <5>1. w[b] = v[b]
          BY <4>2, <2>1, <1>1 DEF Placed
        <5>2. QED
          BY <5>1, <1>4 DEF Bounded
      <4>3. QED
        BY <4>1, <4>2
    <3>3. QED
      BY <3>1, <3>2, FitsSubset
  <2>4. QED
    BY <2>2, <2>3
<1>5. QED
  BY <1>4 DEF Bounded

-----------------------------------------------------------------------------
(***************************************************************************)
(* The list of a container and the parents of its items say the same.      *)
(***************************************************************************)

\* The list of a container holds its items, each once, and no more than its capacity.
ListOK(w, q, b) ==
  /\ q \in Seq(Goods)
  /\ Range(q) = {i \in Goods : w[i] = b}
  /\ IsInjective(q)
  /\ b \notin Paged => Len(q) <= Capacity

\* The lists of all containers.
Listed(w, l) == l \in [Holders -> Seq(Goods)] /\ \A b \in Holders : ListOK(w, l[b], b)

\* A list is in order when an item passes between other containers.
LEMMA ListElsewhere ==
  ASSUME NEW w, NEW q, NEW b, ListOK(w, q, b), NEW i \in Goods, NEW d, NEW v, Placed(w, i, d, v),
         w[i] # b, d # b
  PROVE  ListOK(v, q, b)
<1>1. \A j \in Goods : v[j] = b <=> w[j] = b
  BY DEF Placed
<1>2. QED
  BY <1>1 DEF ListOK

\* removeThing() erases an item from the list of its container.
LEMMA ListTaken ==
  ASSUME NEW w, NEW q, NEW i \in Goods, ListOK(w, q, w[i]), w[i] # Nowhere,
         NEW v, Placed(w, i, Nowhere, v)
  PROVE  ListOK(v, Remaining(q, {i}), w[i]) /\ Len(Remaining(q, {i})) <= Len(q)
<1> DEFINE r == Remaining(q, {i})
<1>1. q \in Seq(Goods) /\ IsInjective(q) /\ Range(q) = {j \in Goods : w[j] = w[i]}
  BY DEF ListOK
<1>2. r \in Seq(Goods) /\ Len(r) <= Len(q) /\ IsInjective(r) /\ Range(r) = Range(q) \ {i}
  BY <1>1, RemainingLeaves
<1> HIDE DEF r
<1>3. v[i] = Nowhere /\ \A j \in Goods : j # i => v[j] = w[j]
  BY DEF Placed
<1>4. Range(r) = {j \in Goods : v[j] = w[i]}
  BY <1>1, <1>2, <1>3
<1>5. w[i] \notin Paged => Len(r) <= Capacity
  <2>1. Capacity \in Int /\ Len(r) \in Int /\ Len(q) \in Int
    BY <1>1, <1>2, ContainersAssumption
  <2>2. w[i] \notin Paged => Len(q) <= Capacity
    BY DEF ListOK
  <2>3. QED
    BY <2>1, <2>2, <1>2
<1>6. QED
  BY <1>2, <1>4, <1>5 DEF ListOK, r

\* addThing() puts an item at the front.
LEMMA ListGiven ==
  ASSUME NEW w, NEW q, NEW i \in Goods, NEW d, ListOK(w, q, d), w[i] # d,
         NEW v, Placed(w, i, d, v), d \notin Paged => Len(q) < Capacity
  PROVE  ListOK(v, <<i>> \o q, d)
<1> DEFINE r == <<i>> \o q
<1>1. q \in Seq(Goods) /\ IsInjective(q) /\ Range(q) = {j \in Goods : w[j] = d}
  BY DEF ListOK
<1>2. r \in Seq(Goods) /\ Len(r) = Len(q) + 1 /\ IsInjective(r) /\ Range(r) = Range(q) \cup {i}
  BY <1>1, Prepended
<1> HIDE DEF r
<1>3. v[i] = d /\ \A j \in Goods : j # i => v[j] = w[j]
  BY DEF Placed
<1>4. Range(r) = {j \in Goods : v[j] = d}
  BY <1>1, <1>2, <1>3
<1>5. Capacity \in Int /\ Len(q) \in Int
  BY <1>1, ContainersAssumption
<1>6. QED
  BY <1>2, <1>4, <1>5 DEF ListOK, r

\* Removing an item keeps all lists in order, and none grows.
LEMMA ListedTaken ==
  ASSUME NEW w \in Parents, NEW l, Listed(w, l), NEW i \in Goods, w[i] # Nowhere,
         NEW v, Placed(w, i, Nowhere, v), NEW m, m = [l EXCEPT ![w[i]] = Remaining(@, {i})]
  PROVE  Listed(v, m) /\ \A b \in Holders : Len(m[b]) <= Len(l[b])
<1>0. w[i] \in Holders /\ Nowhere \notin Holders
  BY KindsApart DEF Parents
<1>1. l \in [Holders -> Seq(Goods)] /\ \A b \in Holders : ListOK(w, l[b], b)
  BY DEF Listed
<1>2. /\ DOMAIN m = Holders /\ m[w[i]] = Remaining(l[w[i]], {i})
      /\ \A b \in Holders : b # w[i] => m[b] = l[b]
      /\ m = [b \in Holders |-> m[b]]
  BY <1>0, <1>1
<1> HIDE DEF Listed
<1>3. ASSUME NEW b \in Holders PROVE ListOK(v, m[b], b) /\ Len(m[b]) <= Len(l[b])
  <2>1. CASE b = w[i]
    BY <2>1, <1>0, <1>1, <1>2, ListTaken
  <2>2. CASE b # w[i]
    <3>1. ListOK(v, l[b], b)
      BY <2>2, <1>0, <1>1, ListElsewhere
    <3>2. Len(l[b]) \in Nat
      BY <1>1
    <3>3. QED
      BY <3>1, <3>2, <2>2, <1>2
  <2>3. QED
    BY <2>1, <2>2
<1>4. m \in [Holders -> Seq(Goods)]
  BY <1>2, <1>3 DEF ListOK
<1>5. QED
  BY <1>3, <1>4 DEF Listed

\* Adding an item keeps all lists in order.
LEMMA ListedGiven ==
  ASSUME NEW w \in Parents, NEW l, Listed(w, l), NEW i \in Goods, w[i] = Nowhere, NEW d \in Holders,
         NEW v, Placed(w, i, d, v), d \notin Paged => Len(l[d]) < Capacity,
         NEW m, m = [l EXCEPT ![d] = <<i>> \o @]
  PROVE  Listed(v, m)
<1>0. Nowhere \notin Holders
  BY KindsApart
<1>1. l \in [Holders -> Seq(Goods)] /\ \A b \in Holders : ListOK(w, l[b], b)
  BY DEF Listed
<1>2. /\ DOMAIN m = Holders /\ m[d] = <<i>> \o l[d]
      /\ \A b \in Holders : b # d => m[b] = l[b]
      /\ m = [b \in Holders |-> m[b]]
  BY <1>0, <1>1
<1>3. ASSUME NEW b \in Holders PROVE ListOK(v, m[b], b)
  <2>1. CASE b = d
    <3>1. ListOK(v, <<i>> \o l[d], d)
      BY <1>0, <1>1, ListGiven
    <3>2. QED
      BY <2>1, <3>1, <1>2
  <2>2. CASE b # d
    <3>1. ListOK(v, l[b], b)
      BY <2>2, <1>0, <1>1, ListElsewhere
    <3>2. QED
      BY <3>1, <2>2, <1>2
  <2>3. QED
    BY <2>1, <2>2
<1>4. m \in [Holders -> Seq(Goods)]
  BY <1>2, <1>3 DEF ListOK
<1>5. QED
  BY <1>3, <1>4 DEF Listed

-----------------------------------------------------------------------------
(***************************************************************************)
(* A sound state, and what placing and changing items does to it.          *)
(***************************************************************************)

\* A bag that is nowhere is empty.
Loose(w) == \A b \in Bags : w[b] = Nowhere => \A j \in Goods : w[j] # b

\* A pile in the game has units, and no more than a stack.
Amounts(w, a) == a \in [Piles -> 0..StackMax] /\ \A p \in Piles : a[p] = 0 <=> w[p] = Nowhere

\* The inductive invariant, for any values of the variables: parents, amounts and
\* lists agree, everything lies in a root, the branches are bounded, and the weights
\* and the units are exact.
Sound(w, l, a, t, u) ==
  /\ w \in Parents /\ Amounts(w, a) /\ Listed(w, l)
  /\ Rooted(w) /\ Loose(w) /\ Bounded(w) /\ Weighs(w, a, t) /\ u = Count(a, Piles)

\* A container is in the game.
InGameAt(w, d) == d \in Roots \/ w[d] # Nowhere

\* The amounts are numbers.
LEMMA AmountsNat ==
  ASSUME NEW w, NEW a, Amounts(w, a)
  PROVE  /\ a \in [Piles -> Nat] /\ StackMax \in Nat /\ StackMax >= 1
         /\ \A p \in Piles : a[p] \in Nat /\ a[p] <= StackMax
<1>1. StackMax \in Nat /\ StackMax >= 1
  BY ContainersAssumption
<1>2. QED
  BY <1>1 DEF Amounts

\* So are the units in all piles.
LEMMA PilesCount ==
  ASSUME NEW a \in [Piles -> Nat]
  PROVE  Count(a, Piles) \in Nat
BY KindsApart, CountFinite

\* One pile with other units.
LEMMA PilesChange ==
  ASSUME NEW a \in [Piles -> Nat], NEW c \in [Piles -> Nat], NEW p \in Piles,
         \A q \in Piles : q # p => c[q] = a[q]
  PROVE  Count(c, Piles) = Count(a, Piles) + (c[p] - a[p])
<1>1. Count(c, Piles) + a[p] = Count(a, Piles) + c[p]
  BY KindsApart, CountChange
<1>2. Count(c, Piles) \in Nat /\ Count(a, Piles) \in Nat /\ a[p] \in Nat /\ c[p] \in Nat
  BY PilesCount
<1>3. QED
  BY <1>1, <1>2

\* Nothing changes the lines of the containers when a pile goes.
LEMMA PilePlaced ==
  ASSUME NEW w \in Parents, NEW p \in Piles, NEW d, NEW v, Placed(w, p, d, v), Loose(w),
         d = Nowhere \/ InGameAt(w, d)
  PROVE  Loose(v)
<1>1. v[p] = d /\ \A y \in Goods : y # p => v[y] = w[y]
  BY DEF Placed
<1>2. ASSUME NEW b \in Bags, v[b] = Nowhere, NEW j \in Goods, v[j] = b PROVE FALSE
  <2>1. b # p /\ b \in Goods /\ b # Nowhere /\ b \notin Roots
    BY KindsApart
  <2>2. w[b] = Nowhere
    BY <2>1, <1>1, <1>2
  <2>3. j # p
    BY <2>1, <2>2, <1>1, <1>2 DEF InGameAt
  <2>4. QED
    BY <2>2, <2>3, <1>1, <1>2 DEF Loose
<1>3. QED
  BY <1>2 DEF Loose

\* A pile of other size in its place.
LEMMA SizedSound ==
  ASSUME NEW w, NEW l, NEW a, NEW t, NEW u, Sound(w, l, a, t, u), NEW p \in Piles, w[p] # Nowhere,
         NEW n \in 1..StackMax, NEW c, c = [a EXCEPT ![p] = n],
         NEW s, Shifted(t, s, Up(w, w[p]), n - a[p])
  PROVE  Sound(w, l, c, s, u + (n - a[p]))
<1>1. /\ w \in Parents /\ Amounts(w, a) /\ Listed(w, l) /\ Rooted(w) /\ Loose(w) /\ Bounded(w)
      /\ Weighs(w, a, t) /\ u = Count(a, Piles)
  BY DEF Sound
<1>2. a \in [Piles -> Nat] /\ StackMax \in Nat
  BY <1>1, AmountsNat
<1>3. c \in [Piles -> Nat] /\ c[p] = n /\ \A q \in Piles : q # p => c[q] = a[q]
  BY <1>2
<1>4. Amounts(w, c)
  <2>1. c \in [Piles -> 0..StackMax]
    BY <1>1, <1>2 DEF Amounts
  <2>2. \A q \in Piles : c[q] = 0 <=> w[q] = Nowhere
    BY <1>1, <1>2, <1>3 DEF Amounts
  <2>3. QED
    BY <2>1, <2>2 DEF Amounts
<1>5. Weighs(w, c, s)
  BY <1>1, <1>2, <1>3, WeighPile
<1>6. Count(c, Piles) = u + (n - a[p])
  BY <1>1, <1>2, <1>3, PilesChange
<1>7. QED
  BY <1>1, <1>4, <1>5, <1>6 DEF Sound

\* A whole pile leaves its container.
LEMMA TakenSound ==
  ASSUME NEW w, NEW l, NEW a, NEW t, NEW u, Sound(w, l, a, t, u), NEW p \in Piles, w[p] # Nowhere,
         NEW c, c = [a EXCEPT ![p] = 0], NEW v, v = [w EXCEPT ![p] = Nowhere],
         NEW m, m = [l EXCEPT ![w[p]] = Remaining(@, {p})],
         NEW s, Shifted(t, s, Up(w, w[p]), -a[p])
  PROVE  /\ Sound(v, m, c, s, u - a[p])
         /\ Detached(w, p, v)
         /\ \A b \in Holders : Len(m[b]) <= Len(l[b])
<1>1. /\ w \in Parents /\ Amounts(w, a) /\ Listed(w, l) /\ Rooted(w) /\ Loose(w) /\ Bounded(w)
      /\ Weighs(w, a, t) /\ u = Count(a, Piles)
  BY DEF Sound
<1>2. a \in [Piles -> Nat] /\ StackMax \in Nat
  BY <1>1, AmountsNat
<1>3. c \in [Piles -> Nat] /\ c[p] = 0 /\ \A q \in Piles : q # p => c[q] = a[q]
  BY <1>2
<1>4. p \in Goods
  BY KindsApart
<1>5. Placed(w, p, Nowhere, v)
  BY <1>1, <1>4 DEF Placed, Parents
<1>6. Amounts(v, c)
  <2>1. c \in [Piles -> 0..StackMax]
    BY <1>1, <1>2 DEF Amounts
  <2>2. \A q \in Piles : q \in Goods
    BY KindsApart
  <2>3. \A q \in Piles : c[q] = 0 <=> v[q] = Nowhere
    BY <2>2, <1>1, <1>3, <1>5 DEF Amounts, Placed
  <2>4. QED
    BY <2>1, <2>3 DEF Amounts
<1>7. Detached(w, p, v)
  BY <1>1, <1>4, <1>5, PruneDetaches
<1>8. Listed(v, m) /\ \A b \in Holders : Len(m[b]) <= Len(l[b])
  BY <1>1, <1>4, <1>5, ListedTaken
<1>9. Loose(v)
  BY <1>1, <1>5, PilePlaced
<1>10. v \in Parents /\ (\A x \in Bags : v[x] = w[x]) /\ \A x \in Holders : Up(v, x) = Up(w, x)
  <2>1. \A x \in Holders : p \notin Up(w, x)
    BY <1>1, UpHolders, KindsApart
  <2>2. \A x \in Bags : x \in Goods /\ x # p
    BY KindsApart
  <2>3. QED
    BY <2>1, <2>2, <1>7 DEF Detached
<1>11. Rooted(v)
  BY <1>1, <1>10, KindsApart DEF Rooted
<1>12. Bounded(v)
  <2>1. ASSUME NEW b \in Bags, v[b] \in Roots PROVE Fits(Under(v, b))
    <3>1. Fits(Under(w, b))
      BY <2>1, <1>1, <1>10 DEF Bounded
    <3>2. Under(v, b) \in SUBSET Under(w, b) /\ Under(w, b) \in SUBSET Goods
      BY <1>7, UnderSubset DEF Detached
    <3>3. QED
      BY <3>1, <3>2, FitsSubset
  <2>2. QED
    BY <2>1 DEF Bounded
<1>13. Weighs(v, c, s)
  <2>1. p \notin Under(w, p)
    BY <1>1, UnderPile
  <2>2. p \notin Bags
    BY KindsApart
  <2>3. Count(Own(a), Carried(w, p)) = a[p]
    BY <2>1, <2>2, <1>1, <1>2, <1>4, CarriedWeight
  <2>4. Weighs(v, a, s)
    BY <2>3, <1>1, <1>2, <1>4, <1>5, WeighPrune
  <2>5. \A q \in Piles : v[q] # Nowhere => c[q] = a[q]
    BY <1>3, <1>5 DEF Placed
  <2>6. QED
    BY <2>4, <2>5, <1>2, <1>3, <1>10, WeighLoose
<1>14. Count(c, Piles) = u - a[p]
  <2>1. Count(c, Piles) = u + (0 - a[p])
    BY <1>1, <1>2, <1>3, PilesChange
  <2>2. u \in Nat /\ a[p] \in Nat
    BY <1>1, <1>2, PilesCount
  <2>3. QED
    BY <2>1, <2>2
<1>15. QED
  BY <1>6, <1>7, <1>8, <1>9, <1>10, <1>11, <1>12, <1>13, <1>14 DEF Sound

\* A container has room for an item in its branch.
RoomFor(w, d, i) ==
  \A b \in Bags : b \in Up(w, d) /\ w[b] \in Roots => Counted(Under(w, b), Under(w, i), i)

\* A new pile.
LEMMA GivenSound ==
  ASSUME NEW w, NEW l, NEW a, NEW t, NEW u, Sound(w, l, a, t, u), NEW p \in Piles, w[p] = Nowhere,
         NEW d \in Holders, InGameAt(w, d), RoomFor(w, d, p),
         d \notin Paged => Len(l[d]) < Capacity,
         NEW n \in 1..StackMax, NEW c, c = [a EXCEPT ![p] = n], NEW v, v = [w EXCEPT ![p] = d],
         NEW m, m = [l EXCEPT ![d] = <<p>> \o @],
         NEW s, Shifted(t, s, Up(w, d), n)
  PROVE  Sound(v, m, c, s, u + n)
<1>1. /\ w \in Parents /\ Amounts(w, a) /\ Listed(w, l) /\ Rooted(w) /\ Loose(w) /\ Bounded(w)
      /\ Weighs(w, a, t) /\ u = Count(a, Piles)
  BY DEF Sound
<1>2. a \in [Piles -> Nat] /\ StackMax \in Nat /\ a[p] = 0
  BY <1>1, AmountsNat DEF Amounts
<1>3. c \in [Piles -> Nat] /\ c[p] = n /\ \A q \in Piles : q # p => c[q] = a[q]
  BY <1>2
<1>4. p \in Goods /\ p \notin Bags /\ d # Nowhere
  BY KindsApart
<1>5. Placed(w, p, d, v)
  BY <1>1, <1>4 DEF Placed, Parents
<1>6. Amounts(v, c)
  <2>1. c \in [Piles -> 0..StackMax]
    BY <1>1, <1>2 DEF Amounts
  <2>2. \A q \in Piles : q \in Goods
    BY KindsApart
  <2>3. \A q \in Piles : c[q] = 0 <=> v[q] = Nowhere
    BY <2>2, <1>1, <1>2, <1>3, <1>4, <1>5 DEF Amounts, Placed
  <2>4. QED
    BY <2>1, <2>3 DEF Amounts
<1>7. Detached(w, p, w)
  BY <1>1, <1>4, LooseDetached
<1>8. p \notin Up(w, d)
  BY <1>1, UpHolders, KindsApart
<1>9. Rooted(v)
  BY <1>1, <1>4, <1>5, <1>7, <1>8, RootedGraft DEF InGameAt
<1>10. Bounded(v)
  BY <1>1, <1>4, <1>5, <1>7, <1>8, BoundedGraft DEF RoomFor
<1>11. Loose(v)
  BY <1>1, <1>5, PilePlaced
<1>12. Listed(v, m)
  BY <1>1, <1>4, <1>5, ListedGiven
<1>13. Weighs(v, c, s)
  <2>1. \A q \in Piles : w[q] # Nowhere => c[q] = a[q]
    BY <1>3
  <2>2. Weighs(w, c, t)
    BY <2>1, <1>1, <1>2, <1>3, WeighLoose
  <2>3. p \notin Under(w, p)
    BY <1>1, UnderPile
  <2>4. Count(Own(c), Carried(w, p)) = n
    BY <2>2, <2>3, <1>1, <1>3, <1>4, CarriedWeight
  <2>5. Shifted(t, s, Up(w, d), Count(Own(c), Carried(w, p)))
    BY <2>4
  <2>6. c \in [Piles -> Nat] /\ w \in Parents /\ p \in Goods
    BY <1>1, <1>3, <1>4
  <2>7. QED
    BY <2>2, <2>5, <2>6, <1>5, <1>8, WeighGraft
<1>14. Count(c, Piles) = u + n
  <2>1. Count(c, Piles) = u + (n - 0)
    BY <1>1, <1>2, <1>3, PilesChange
  <2>2. QED
    BY <2>1, <1>2
<1>15. v \in Parents
  BY <1>5 DEF Placed
<1>16. QED
  BY <1>6, <1>9, <1>10, <1>11, <1>12, <1>13, <1>14, <1>15 DEF Sound

\* A bag that is nowhere, or has been taken out of its container, is put into one.
LEMMA BagSound ==
  ASSUME NEW w, NEW l, NEW a, NEW t, NEW u, Sound(w, l, a, t, u), NEW i \in Bags,
         NEW w1, Detached(w, i, w1), NEW l1, Listed(w1, l1), NEW t1, Weighs(w1, a, t1),
         NEW d \in Holders, InGameAt(w, d), i \notin Up(w, d), RoomFor(w, d, i), Fits(Under(w, i)),
         d \notin Paged => Len(l1[d]) < Capacity,
         NEW v, v = [w EXCEPT ![i] = d], NEW m, m = [l1 EXCEPT ![d] = <<i>> \o @],
         NEW s, Shifted(t1, s, Up(w, d), Count(Own(a), Carried(w, i)))
  PROVE  Sound(v, m, a, s, u)
<1>1. /\ w \in Parents /\ Amounts(w, a) /\ Listed(w, l) /\ Rooted(w) /\ Loose(w) /\ Bounded(w)
      /\ Weighs(w, a, t) /\ u = Count(a, Piles)
  BY DEF Sound
<1>2. i \in Goods /\ i \notin Piles /\ d # Nowhere /\ a \in [Piles -> Nat]
  BY <1>1, KindsApart, AmountsNat
<1>3. /\ w1 \in Parents /\ w1[i] = Nowhere
      /\ \A y \in Goods : y # i => w1[y] = w[y]
      /\ Up(w1, d) = Up(w, d) /\ Under(w1, i) = Under(w, i)
  BY DEF Detached
<1>4. Placed(w, i, d, v) /\ Placed(w1, i, d, v)
  BY <1>1, <1>2, <1>3 DEF Placed, Parents
<1>5. v \in Parents /\ v[i] = d /\ \A y \in Goods : y # i => v[y] = w[y]
  BY <1>4 DEF Placed
<1>6. Amounts(v, a)
  <2>1. \A q \in Piles : v[q] = w[q]
    BY <1>2, <1>5, KindsApart
  <2>2. QED
    BY <2>1, <1>1 DEF Amounts
<1>7. Rooted(v)
  BY <1>1, <1>2, <1>4, RootedGraft DEF InGameAt
<1>8. Bounded(v)
  BY <1>1, <1>2, <1>4, BoundedGraft DEF RoomFor
<1>9. Listed(v, m)
  BY <1>2, <1>3, <1>4, ListedGiven
<1>10. Loose(v)
  <2>1. ASSUME NEW b \in Bags, v[b] = Nowhere, NEW j \in Goods, v[j] = b PROVE FALSE
    <3>1. b # i /\ b \in Goods /\ w[b] = Nowhere /\ b \notin Roots
      BY <2>1, <1>2, <1>5, KindsApart
    <3>2. j # i
      BY <3>1, <2>1, <1>5 DEF InGameAt
    <3>3. QED
      BY <3>1, <3>2, <2>1, <1>1, <1>5 DEF Loose
  <2>2. QED
    BY <2>1 DEF Loose
<1>11. Weighs(v, a, s)
  <2>1. Carried(w1, i) = Carried(w, i) /\ i \notin Up(w1, d)
    BY <1>3 DEF Carried
  <2>2. QED
    BY <2>1, <1>2, <1>3, <1>4, WeighGraft
<1>12. QED
  BY <1>1, <1>5, <1>6, <1>7, <1>8, <1>9, <1>10, <1>11 DEF Sound

-----------------------------------------------------------------------------
(***************************************************************************)
(* What destroying an item and filling piles do to a sound state.          *)
(***************************************************************************)

\* The variables after an item has been destroyed with its contents.
Ruined(w, l, a, i, gone, v, l1, m, c, s, z) ==
  /\ v = [x \in Goods |-> IF x \in gone THEN Nowhere ELSE w[x]]
  /\ l1 = [l EXCEPT ![w[i]] = Remaining(@, {i})]
  /\ m = [b \in Holders |-> IF b \in gone THEN <<>> ELSE l1[b]]
  /\ c = [p \in Piles |-> IF p \in gone THEN 0 ELSE a[p]]
  /\ z = [b \in Holders |-> IF b \in gone THEN 0 ELSE s[b]]

\* internalRemoveItem() of an item with all its contents.
LEMMA CutSound ==
  ASSUME NEW w, NEW l, NEW a, NEW t, NEW u, Sound(w, l, a, t, u), NEW i \in Goods, w[i] # Nowhere,
         NEW gone, gone = Carried(w, i),
         NEW v, NEW l1, NEW m, NEW c, NEW s, NEW z, Ruined(w, l, a, i, gone, v, l1, m, c, s, z),
         Shifted(t, s, Up(w, w[i]), -Count(Own(a), gone))
  PROVE  Sound(v, m, c, z, u - Count(a, gone \cap Piles))
<1> USE DEF Ruined
<1>1. /\ w \in Parents /\ Amounts(w, a) /\ Listed(w, l) /\ Rooted(w) /\ Loose(w) /\ Bounded(w)
      /\ Weighs(w, a, t) /\ u = Count(a, Piles)
  BY DEF Sound
<1>2. a \in [Piles -> Nat] /\ StackMax \in Nat
  BY <1>1, AmountsNat
<1>3. /\ gone \subseteq Goods /\ i \in gone
      /\ \A y \in Holders : i \in Up(w, y) <=> y \in gone
      /\ \A j \in Goods : w[j] \in Holders \cap gone => j \in gone
      /\ \A j \in gone : j # i => w[j] \in gone
  BY <1>1, CarriedIs DEF Carried
<1>4. /\ v \in Parents
      /\ \A x \in gone : v[x] = Nowhere
      /\ \A x \in Goods \ gone : v[x] = w[x]
  BY <1>1, <1>3 DEF Parents
<1>5. Cut(w, Carried(w, i), v)
  BY <1>4 DEF Cut
<1>6. Rooted(v)
  BY <1>1, <1>5, CutUp
<1>7. /\ c \in [Piles -> 0..StackMax] /\ c \in [Piles -> Nat]
      /\ \A p \in Piles : p \in gone => c[p] = 0
      /\ \A p \in Piles : p \notin gone => c[p] = a[p]
  BY <1>1, <1>2 DEF Amounts
<1>8. Amounts(v, c)
  <2>1. \A p \in Piles : p \in Goods
    BY KindsApart
  <2>2. \A p \in Piles : c[p] = 0 <=> v[p] = Nowhere
    BY <2>1, <1>1, <1>4, <1>7 DEF Amounts
  <2>3. QED
    BY <2>2, <1>7 DEF Amounts
<1>9. Loose(v)
  <2>1. ASSUME NEW b \in Bags, v[b] = Nowhere, NEW j \in Goods, v[j] = b PROVE FALSE
    <3>1. b \in Goods /\ b \in Holders /\ b # Nowhere
      BY KindsApart
    <3>2. j \notin gone /\ w[j] = b
      BY <3>1, <2>1, <1>4
    <3>3. b \notin gone /\ w[b] = Nowhere
      BY <3>1, <3>2, <2>1, <1>3, <1>4
    <3>4. QED
      BY <3>2, <3>3, <1>1 DEF Loose
  <2>2. QED
    BY <2>1 DEF Loose
<1>10. Weighs(v, c, z)
  <2>1. \A p \in Piles : p \notin Carried(w, i) => c[p] = a[p]
    BY <1>7
  <2>2. \A b \in Holders : z[b] = IF b \in Carried(w, i) THEN 0 ELSE s[b]
    OBVIOUS
  <2>3. Shifted(t, s, Up(w, w[i]), -Count(Own(a), Carried(w, i)))
    OBVIOUS
  <2>4. QED
    BY <2>1, <2>2, <2>3, <1>1, <1>2, <1>5, <1>7, WeighCut
<1>11. Bounded(v)
  <2>1. ASSUME NEW b \in Bags, v[b] \in Roots PROVE Fits(Under(v, b))
    <3>1. b \in Holders /\ b \in Goods /\ b \notin gone
      BY <2>1, <1>4, KindsApart
    <3>2. w[b] \in Roots
      BY <3>1, <2>1, <1>4
    <3>3. Under(v, b) = Under(w, b) \ gone
      BY <3>1, <1>1, <1>5, CutUnder
    <3>4. Fits(Under(w, b)) /\ Under(v, b) \in SUBSET Under(w, b) /\ Under(w, b) \in SUBSET Goods
      BY <3>2, <3>3, <1>1, UnderSubset DEF Bounded
    <3>5. QED
      BY <3>4, FitsSubset
  <2>2. QED
    BY <2>1 DEF Bounded
<1>12. Listed(v, m)
  <2> DEFINE w1 == [w EXCEPT ![i] = Nowhere]
  <2>1. Placed(w, i, Nowhere, w1)
    BY <1>1 DEF Placed, Parents
  <2>2. w1[i] = Nowhere /\ \A j \in Goods : j # i => w1[j] = w[j]
    BY <2>1 DEF Placed
  <2> HIDE DEF w1
  <2>3. Listed(w1, l1)
    BY <2>1, <1>1, ListedTaken
  <2>4. l1 \in [Holders -> Seq(Goods)] /\ \A b \in Holders : ListOK(w1, l1[b], b)
    BY <2>3 DEF Listed
  <2>5. ASSUME NEW b \in Holders PROVE ListOK(v, m[b], b)
    <3>0. b # Nowhere
      BY KindsApart
    <3>1. CASE b \in gone
      <4>1. m[b] = <<>>
        BY <3>1
      <4>2. \A j \in Goods : v[j] # b
        BY <3>0, <3>1, <1>3, <1>4
      <4>3. Capacity \in Nat
        BY ContainersAssumption
      <4>4. <<>> \in Seq(Goods) /\ Len(<<>>) = 0 /\ Range(<<>>) = {} /\ IsInjective(<<>>)
        BY DEF Range, IsInjective
      <4>5. ListOK(v, <<>>, b)
        BY <4>2, <4>3, <4>4 DEF ListOK
      <4>6. QED
        BY <4>1, <4>5
    <3>2. CASE b \notin gone
      <4>1. m[b] = l1[b]
        BY <3>2
      <4>2. \A j \in Goods : v[j] = b <=> w1[j] = b
        <5>1. ASSUME NEW j \in Goods PROVE v[j] = b <=> w1[j] = b
          <6>1. CASE j = i
            BY <6>1, <2>2, <1>3, <1>4
          <6>2. CASE j # i /\ j \in gone
            BY <6>2, <3>0, <3>2, <2>2, <1>3, <1>4
          <6>3. CASE j \notin gone
            BY <6>3, <2>2, <1>3, <1>4
          <6>4. QED
            BY <6>1, <6>2, <6>3
        <5>2. QED
          BY <5>1
      <4>3. ListOK(w1, l1[b], b)
        BY <2>4
      <4>4. ListOK(v, l1[b], b)
        BY <4>2, <4>3 DEF ListOK
      <4>5. QED
        BY <4>1, <4>4
    <3>3. QED
      BY <3>1, <3>2
  <2>6. m \in [Holders -> Seq(Goods)]
    BY <2>4
  <2>7. QED
    BY <2>5, <2>6 DEF Listed
<1>13. u - Count(a, gone \cap Piles) = Count(c, Piles)
  <2> DEFINE A == gone \cap Piles
             B == Piles \ gone
  <2>1. A \in SUBSET Piles /\ B \in SUBSET Piles /\ A \cap B = {} /\ A \cup B = Piles
    OBVIOUS
  <2>2. \A x \in A : c[x] = 0
    BY <1>7
  <2>3. \A x \in B : c[x] = a[x]
    BY <1>7
  <2>4. IsFiniteSet(Piles) /\ {} \in SUBSET Piles
    BY KindsApart
  <2> HIDE DEF A, B
  <2>5. Count(a, Piles) = Count(a, A) + Count(a, B)
    BY <2>1, <2>4, <1>2, CountUnion
  <2>6. Count(c, Piles) = Count(c, A) + Count(c, B)
    BY <2>1, <2>4, <1>7, CountUnion
  <2>7. Count(c, B) = Count(a, B)
    BY <2>3, CountSame
  <2>8. Count(c, A) = 0
    <3> DEFINE o == [p \in Piles |-> 0]
    <3>1. o \in [Piles -> Nat] /\ (\A x \in Piles : o[x] = 0) /\ \A x \in A : c[x] = o[x]
      BY <2>1, <2>2
    <3> HIDE DEF o
    <3>2. Count(o, A) = Count(o, {})
      BY <3>1, <2>1, <2>4, CountSupport
    <3>3. Count(c, A) = Count(o, A)
      <4>1. \A x \in A : c[x] = o[x]
        BY <3>1
      <4>2. QED
        BY <4>1, CountSame, Zenon
    <3>4. QED
      BY <3>2, <3>3, CountEmpty
  <2>9. Count(a, A) \in Nat /\ Count(a, B) \in Nat
    BY <2>1, <2>4, <1>2, CountFinite
  <2>10. u = Count(a, Piles)
    BY <1>1
  <2>11. QED
    BY <2>5, <2>6, <2>7, <2>8, <2>9, <2>10 DEF A
<1>14. QED
  BY <1>4, <1>6, <1>8, <1>9, <1>10, <1>11, <1>12, <1>13 DEF Sound

\* Units that come to the piles of one container weigh on those above it.
LEMMA WeighFill ==
  ASSUME NEW w \in Parents, NEW a \in [Piles -> Nat], NEW t, Weighs(w, a, t), NEW d \in Holders,
         NEW D \in [Piles -> Nat], \A p \in Piles : D[p] # 0 => w[p] = d,
         NEW c \in [Piles -> Nat], \A p \in Piles : c[p] = a[p] + D[p],
         NEW s, Shifted(t, s, Up(w, d), Count(D, Piles))
  PROVE  Weighs(w, c, s)
<1> DEFINE f == Own(a)
           g == Own(c)
           h == [x \in Goods |-> IF x \in Piles THEN D[x] ELSE 0]
<1>1. /\ f \in [Goods -> Nat] /\ g \in [Goods -> Nat] /\ IsFiniteSet(Goods) /\ Piles \in SUBSET Goods
      /\ {} \in SUBSET Goods /\ d # Nowhere
  BY OwnType, KindsApart
<1>2. h \in [Goods -> Nat] /\ (\A x \in Piles : h[x] = D[x]) /\ \A x \in Goods : x \notin Piles => h[x] = 0
  BY <1>1
<1>3. \A x \in Goods : g[x] = f[x] + h[x]
  BY <1>2, KindsApart DEF Own
<1>4. \A x \in Goods : h[x] # 0 => x \in Piles /\ w[x] = d
  BY <1>2
<1> HIDE DEF f, g, h
<1>5. Count(h, Piles) = Count(D, Piles)
  BY <1>2, CountSame
<1>6. ASSUME NEW b \in Holders PROVE s[b] = Count(g, Under(w, b))
  <2> DEFINE U == Under(w, b)
  <2>1. t[b] = Count(f, U) /\ U \in SUBSET Goods
    BY UnderSubset DEF Weighs, f
  <2>2. \A x \in Goods : w[x] = d => (x \in U <=> b \in Up(w, d))
    BY <1>1 DEF Under
  <2> HIDE DEF U
  <2>3. Count(g, U) = Count(f, U) + Count(h, U)
    BY <2>1, <1>1, <1>2, <1>3, CountPlus
  <2>4. Count(f, U) \in Nat
    BY <2>1, <1>1, CountFinite
  <2>5. CASE b \in Up(w, d)
    <3>1. \A x \in Goods : h[x] # 0 => (x \in U <=> x \in Piles)
      BY <2>2, <2>5, <1>4
    <3>2. Count(h, U) = Count(h, Piles)
      BY <3>1, <2>1, <1>1, <1>2, CountSupport
    <3>3. s[b] = t[b] + Count(D, Piles)
      BY <2>5 DEF Shifted
    <3>4. QED
      BY <3>2, <3>3, <2>1, <2>3, <1>5 DEF U
  <2>6. CASE b \notin Up(w, d)
    <3>1. \A x \in Goods : h[x] # 0 => (x \in U <=> x \in {})
      BY <2>2, <2>6, <1>4
    <3>2. Count(h, U) = Count(h, {})
      BY <3>1, <2>1, <1>1, <1>2, CountSupport
    <3>3. Count(h, U) = 0
      BY <3>2, CountEmpty
    <3>4. s[b] = t[b]
      BY <2>6 DEF Shifted
    <3>5. QED
      BY <3>3, <3>4, <2>1, <2>3, <2>4 DEF U
  <2>7. QED
    BY <2>5, <2>6
<1>7. QED
  BY <1>6 DEF Weighs, g

\* Filling piles up to a stack.
LEMMA FilledSound ==
  ASSUME NEW w, NEW l, NEW a, NEW t, NEW u, Sound(w, l, a, t, u), NEW d \in Holders,
         NEW D \in [Piles -> Nat], \A p \in Piles : D[p] # 0 => w[p] = d /\ a[p] + D[p] <= StackMax,
         NEW c, c = [p \in Piles |-> a[p] + D[p]],
         NEW s, Shifted(t, s, Up(w, d), Count(D, Piles))
  PROVE  Sound(w, l, c, s, u + Count(D, Piles))
<1>1. /\ w \in Parents /\ Amounts(w, a) /\ Listed(w, l) /\ Rooted(w) /\ Loose(w) /\ Bounded(w)
      /\ Weighs(w, a, t) /\ u = Count(a, Piles)
  BY DEF Sound
<1>2. a \in [Piles -> Nat] /\ StackMax \in Nat /\ \A p \in Piles : a[p] <= StackMax
  BY <1>1, AmountsNat
<1>3. c \in [Piles -> Nat] /\ \A p \in Piles : c[p] = a[p] + D[p]
  BY <1>2
<1>4. Amounts(w, c)
  <2>1. ASSUME NEW p \in Piles PROVE c[p] \in 0..StackMax /\ (c[p] = 0 <=> w[p] = Nowhere)
    <3>1. a[p] \in Nat /\ D[p] \in Nat /\ c[p] = a[p] + D[p] /\ a[p] <= StackMax /\ (a[p] = 0 <=> w[p] = Nowhere)
      BY <1>1, <1>2, <1>3 DEF Amounts
    <3>2. CASE D[p] = 0
      BY <3>1, <3>2, <1>2
    <3>3. CASE D[p] # 0
      BY <3>1, <3>3, <1>2, KindsApart
    <3>4. QED
      BY <3>2, <3>3
  <2>2. c \in [Piles -> 0..StackMax]
    BY <2>1
  <2>3. QED
    BY <2>1, <2>2 DEF Amounts
<1>5. Weighs(w, c, s)
  BY <1>1, <1>2, <1>3, WeighFill
<1>6. Count(c, Piles) = u + Count(D, Piles)
  BY <1>1, <1>2, <1>3, KindsApart, CountPlus
<1>7. QED
  BY <1>1, <1>4, <1>5, <1>6 DEF Sound

-----------------------------------------------------------------------------
(***************************************************************************)
(* The invariant of the containers, and what the guards of the handlers    *)
(* say about it.                                                           *)
(***************************************************************************)

\* The inductive invariant of the containers.
ContainersInv == Sound(within, itemlist, amount, totalWeight, units)

\* Its parts.
LEMMA InvParts ==
  ASSUME ContainersInv
  PROVE  /\ within \in Parents /\ Amounts(within, amount) /\ Listed(within, itemlist)
         /\ Rooted(within) /\ Loose(within) /\ Bounded(within) /\ Weighs(within, amount, totalWeight)
         /\ units = Count(amount, Piles) /\ units \in Nat
         /\ amount \in [Piles -> Nat]
<1>1. /\ within \in Parents /\ Amounts(within, amount) /\ Listed(within, itemlist)
      /\ Rooted(within) /\ Loose(within) /\ Bounded(within) /\ Weighs(within, amount, totalWeight)
      /\ units = Count(amount, Piles)
  BY DEF ContainersInv, Sound
<1>2. amount \in [Piles -> Nat]
  BY <1>1, AmountsNat
<1>3. QED
  BY <1>1, <1>2, PilesCount

\* The walk along getParent() finds the line of a container.
LEMMA AboveIsUp == ASSUME NEW b PROVE Above(b) = Up(within, b)
BY DEF Above, Up

\* ContainerIterator finds what lies in a container.
LEMMA InsideIs ==
  ASSUME ContainersInv, NEW b \in Holders
  PROVE  Inside(b) = Under(within, b)
<1>1. within \in Parents /\ \A x \in Holders : Range(itemlist[x]) = {i \in Goods : within[i] = x}
  BY InvParts DEF Listed, ListOK
<1>2. Reach(Range(itemlist[b]), [x \in Bags |-> Range(itemlist[x])]) = Under(within, b)
  BY <1>1, InsideIsUnder
<1>3. QED
  BY <1>2 DEF Inside

\* updateItemWeight() changes the weights along the line.
LEMMA UpdateShifts ==
  ASSUME NEW b, NEW n, NEW t
  PROVE  Shifted(t, UpdateItemWeight(b, n, t), Up(within, b), n)
BY AboveIsUp DEF Shifted, UpdateItemWeight

\* getWeight() is what the item weighs with its contents.
LEMMA GetWeightIs ==
  ASSUME ContainersInv, NEW i \in Goods
  PROVE  /\ i \notin Under(within, i)
         /\ GetWeight(i) = Count(Own(amount), Carried(within, i))
         /\ GetWeight(i) \in Nat
<1>1. i \notin Under(within, i)
  <2>1. CASE within[i] = Nowhere
    BY <2>1 DEF Under
  <2>2. CASE within[i] # Nowhere /\ i \in Bags
    <3>1. i \notin Up(within, within[i])
      BY <2>2, InvParts, RootedAcyclic
    <3>2. QED
      BY <3>1 DEF Under
  <2>3. CASE i \in Piles
    BY <2>3, InvParts, UnderPile
  <2>4. QED
    BY <2>1, <2>2, <2>3, KindsApart
<1>2. QED
  BY <1>1, InvParts, CarriedWeight DEF GetWeight

\* Every line has an end.
LEMMA TopExists ==
  ASSUME NEW w \in Parents, Rooted(w), NEW d \in Bags
  PROVE  \E x \in Up(w, d) \cap Bags : w[x] \in Roots \cup {Nowhere}
<1>1. CASE w[d] = Nowhere
  BY <1>1, UpIs
<1>2. CASE w[d] # Nowhere
  <2>1. SUFFICES ASSUME \A x \in Up(w, d) \cap Bags : w[x] \notin Roots PROVE FALSE
    OBVIOUS
  <2> DEFINE S == Up(w, d) \cap Bags
  <2>2. d \in S
    BY UpIs
  <2>3. ASSUME NEW y \in S, y \in Bags, w[y] # Nowhere PROVE w[y] \in S
    <3>1. w[y] \in Up(w, d)
      BY <2>3, UpIs
    <3>2. w[y] \in Holders /\ w[y] \notin Roots
      BY <2>1, <2>3, KindsApart DEF Parents
    <3>3. QED
      BY <3>1, <3>2, KindsApart
  <2>4. Up(w, d) \subseteq S
    <3> HIDE DEF S
    <3>1. QED
      BY <2>2, <2>3, UpLeast
  <2>5. QED
    BY <2>4, <1>2, KindsApart DEF Rooted
<1>3. QED
  BY <1>1, <1>2

\* getTopParentContainer() is the bag of the branch that lies in a root.
LEMMA TopParentIs ==
  ASSUME ContainersInv, NEW d \in Holders
  PROVE  /\ TopParent(d) \in Holders
         /\ \A b \in Bags : b \in Up(within, d) /\ within[b] \in Roots => TopParent(d) = b
<1>0. within \in Parents /\ Rooted(within)
  BY InvParts
<1>1. CASE d \in Roots
  <2>1. d \notin Bags
    BY <1>1, KindsApart
  <2>2. Up(within, d) = {d} /\ TopParent(d) = d
    BY <2>1, <1>1, UpStep DEF TopParent
  <2>3. QED
    BY <2>1, <2>2
<1>2. CASE d \notin Roots
  <2>1. d \in Bags
    BY <1>2, KindsApart
  <2>2. TopParent(d) = CHOOSE x \in Up(within, d) \cap Bags : within[x] \in Roots \cup {Nowhere}
    BY <1>2, AboveIsUp DEF TopParent
  <2>3. TopParent(d) \in Bags
    BY <2>1, <2>2, <1>0, TopExists
  <2>4. \A b \in Bags : b \in Up(within, d) /\ within[b] \in Roots => TopParent(d) = b
    BY <2>1, <2>2, <1>0, TopIs
  <2>5. QED
    BY <2>3, <2>4, KindsApart
<1>3. QED
  BY <1>1, <1>2

\* The numbers of items and bags.
LEMMA CardsNat ==
  ASSUME NEW s \in SUBSET Goods
  PROVE  Cardinality(s) \in Nat /\ Cardinality(s \cap Bags) \in Nat
<1>1. IsFiniteSet(s) /\ IsFiniteSet(s \cap Bags)
  BY KindsApart, FS_Subset
<1>2. QED
  BY <1>1, FS_CardinalityType

\* queryAdd() of a bag: the destination does not lie in it, and its branch has room.
LEMMA QueryAddBag ==
  ASSUME ContainersInv, NEW d \in Holders, NEW index, NEW i \in Bags, QueryAdd(d, index, i)
  PROVE  i \notin Up(within, d) /\ RoomFor(within, d, i) /\ Fits(Under(within, i))
<1>1. TopParent(d) \in Holders /\ i \in Holders
  BY TopParentIs, KindsApart
<1>2. i \notin Up(within, d)
  BY AboveIsUp DEF QueryAdd
<1>3. Counted(Under(within, TopParent(d)), Under(within, i), i)
  BY <1>1, InsideIs DEF QueryAdd, Counted
<1>4. RoomFor(within, d, i)
  BY <1>3, TopParentIs DEF RoomFor
<1>5. Fits(Under(within, i))
  <2> DEFINE h == Under(within, TopParent(d))
             a == Under(within, i)
  <2>1. h \in SUBSET Goods /\ a \in SUBSET Goods
    BY UnderSubset
  <2> HIDE DEF h, a
  <2>2. /\ Cardinality(h) \in Nat /\ Cardinality(h \cap Bags) \in Nat
        /\ Cardinality(a) \in Nat /\ Cardinality(a \cap Bags) \in Nat
    BY <2>1, CardsNat
  <2>3. /\ Cardinality(a \cap Bags) + 1 + Cardinality(h \cap Bags) <= MaxContainer
        /\ Cardinality(a) + 1 + Cardinality(h) <= MaxItems
    BY <1>3 DEF Counted, h, a
  <2>4. MaxItems \in Nat /\ MaxContainer \in Nat
    BY ContainersAssumption
  <2>5. Cardinality(a) <= MaxItems /\ Cardinality(a \cap Bags) <= MaxContainer
    BY <2>2, <2>3, <2>4
  <2>6. QED
    BY <2>5 DEF Fits, a
<1>6. QED
  BY <1>2, <1>4, <1>5

\* queryAdd() of a pile: the branch of the destination has room.
LEMMA QueryAddPile ==
  ASSUME ContainersInv, NEW d \in Holders, NEW index, NEW i, i \notin Bags, QueryAdd(d, index, i),
         NEW p \in Piles
  PROVE  RoomFor(within, d, p)
<1>1. TopParent(d) \in Holders /\ p \notin Bags
  BY TopParentIs, KindsApart
<1>2. Cardinality({}) + 1 + Cardinality(Under(within, TopParent(d))) <= MaxItems
  BY <1>1, InsideIs DEF QueryAdd
<1>3. Under(within, p) = {}
  BY InvParts, UnderPile
<1>4. Counted(Under(within, TopParent(d)), Under(within, p), p)
  BY <1>1, <1>2, <1>3 DEF Counted
<1>5. QED
  BY <1>4, TopParentIs DEF RoomFor

\* InGame() of the present state.
LEMMA InGameIs ==
  ASSUME NEW d \in Holders
  PROVE  InGame(d) <=> InGameAt(within, d)
BY KindsApart DEF InGame, InGameAt

\* A container with free slots is not full.
LEMMA FreeSlotsIs ==
  ASSUME ContainersInv, NEW d \in Holders
  PROVE  /\ FreeSlots(d) \in Nat /\ (FreeSlots(d) > 0 => Len(itemlist[d]) < Capacity)
         /\ Len(itemlist[d]) \in Nat /\ Capacity \in Nat
<1>1. itemlist \in [Holders -> Seq(Goods)]
  BY InvParts DEF Listed
<1>2. Len(itemlist[d]) \in Nat /\ Capacity \in Nat
  BY <1>1, ContainersAssumption
<1>3. QED
  BY <1>2 DEF FreeSlots, Most

\* A new bag is put into a container.
LEMMA AddBagInv ==
  ASSUME ContainersInv, NEW i \in Bags, NEW b \in Holders, AddBag(i, b)
  PROVE  ContainersInv'
<1>1. /\ within[i] = Nowhere /\ InGame(b) /\ QueryAdd(b, WhereEver, i)
      /\ within' = [within EXCEPT ![i] = b]
      /\ itemlist' = [itemlist EXCEPT ![b] = <<i>> \o @]
      /\ totalWeight' = UpdateItemWeight(b, GetWeight(i), totalWeight)
      /\ amount' = amount /\ units' = units
  BY DEF AddBag
<1>2. i \in Goods
  BY KindsApart
<1>3. Detached(within, i, within) /\ Listed(within, itemlist) /\ Weighs(within, amount, totalWeight)
  BY <1>1, <1>2, InvParts, LooseDetached
<1>4. i \notin Up(within, b) /\ RoomFor(within, b, i) /\ Fits(Under(within, i)) /\ InGameAt(within, b)
  BY <1>1, QueryAddBag, InGameIs
<1>5. b \notin Paged => Len(itemlist[b]) < Capacity
  BY <1>1 DEF QueryAdd
<1>6. Shifted(totalWeight, totalWeight', Up(within, b), Count(Own(amount), Carried(within, i)))
  BY <1>1, <1>2, GetWeightIs, UpdateShifts
<1>7. Sound(within', itemlist', amount, totalWeight', units)
  BY <1>1, <1>3, <1>4, <1>5, <1>6, BagSound DEF ContainersInv
<1>8. QED
  BY <1>1, <1>7 DEF ContainersInv

\* An item is destroyed with its contents.
LEMMA DestroyedInv ==
  ASSUME ContainersInv, NEW i \in Goods, within[i] # Nowhere, Destroyed(i)
  PROVE  ContainersInv'
<1> DEFINE gone == {i} \cup (IF i \in Bags THEN Inside(i) ELSE {})
<1>1. gone = Carried(within, i)
  <2>1. CASE i \in Bags
    BY <2>1, InsideIs, KindsApart DEF Carried
  <2>2. CASE i \in Piles
    BY <2>2, InvParts, UnderPile, KindsApart DEF Carried
  <2>3. QED
    BY <2>1, <2>2, KindsApart
<1>2. /\ within' = [x \in Goods |-> IF x \in gone THEN Nowhere ELSE within[x]]
      /\ itemlist' = [b \in Holders |-> IF b \in gone THEN <<>> ELSE TakenLists(i)[b]]
      /\ amount' = [p \in Piles |-> IF p \in gone THEN 0 ELSE amount[p]]
      /\ totalWeight' = [b \in Holders |-> IF b \in gone THEN 0 ELSE TakenWeights(i)[b]]
      /\ units' = units - UnitsOf(gone \cap Piles)
  BY DEF Destroyed
<1>3. UnitsOf(gone \cap Piles) = Count(amount, gone \cap Piles)
  <2>1. amount \in [Piles -> Nat] /\ IsFiniteSet(Piles) /\ gone \cap Piles \in SUBSET Piles
    BY InvParts, KindsApart
  <2> HIDE DEF gone
  <2>2. QED
    BY <2>1, SumOn DEF UnitsOf
<1>4. TakenLists(i) = [itemlist EXCEPT ![within[i]] = Remaining(@, {i})]
  BY DEF TakenLists
<1>5. Shifted(totalWeight, TakenWeights(i), Up(within, within[i]), -Count(Own(amount), gone))
  <2>1. GetWeight(i) = Count(Own(amount), gone)
    BY <1>1, GetWeightIs
  <2> HIDE DEF gone
  <2>2. QED
    BY <2>1, UpdateShifts DEF TakenWeights
<1> HIDE DEF gone
<1>6. Ruined(within, itemlist, amount, i, gone, within', TakenLists(i), itemlist', amount',
              TakenWeights(i), totalWeight')
  BY <1>2, <1>4 DEF Ruined
<1>7. Sound(within', itemlist', amount', totalWeight', units - Count(amount, gone \cap Piles))
  BY <1>1, <1>5, <1>6, CutSound DEF ContainersInv
<1>8. QED
  BY <1>2, <1>3, <1>7 DEF ContainersInv

\* internalRemoveItem() of a whole item or of some units.
LEMMA RemoveItemInv ==
  ASSUME ContainersInv, NEW i \in Goods, NEW c \in 1..StackMax, RemoveItemOf(i, c)
  PROVE  ContainersInv'
<1>1. within[i] # Nowhere /\ (i \in Piles => c <= amount[i])
  BY DEF RemoveItemOf
<1>2. CASE i \in Bags \/ c = amount[i]
  <2>1. Destroyed(i)
    BY <1>2 DEF RemoveItemOf
  <2>2. QED
    BY <2>1, <1>1, DestroyedInv
<1>3. CASE ~(i \in Bags \/ c = amount[i])
  <2>1. /\ amount' = [amount EXCEPT ![i] = @ - c]
        /\ totalWeight' = UpdateItemWeight(within[i], -c, totalWeight)
        /\ units' = units - c /\ within' = within /\ itemlist' = itemlist
    BY <1>3 DEF RemoveItemOf
  <2>2. i \in Piles /\ amount[i] \in Nat /\ amount[i] <= StackMax /\ StackMax \in Nat /\ c \in Nat /\ units \in Nat
    BY <1>3, InvParts, AmountsNat, KindsApart, ContainersAssumption
  <2> DEFINE n == amount[i] - c
  <2>3. n \in 1..StackMax /\ n - amount[i] = -c /\ units + (n - amount[i]) = units - c
    BY <2>2, <1>1, <1>3
  <2>4. amount' = [amount EXCEPT ![i] = n]
    BY <2>1
  <2> HIDE DEF n
  <2>5. Shifted(totalWeight, totalWeight', Up(within, within[i]), n - amount[i])
    BY <2>1, <2>3, UpdateShifts
  <2>6. Sound(within, itemlist, amount', totalWeight', units + (n - amount[i]))
    BY <2>2, <2>3, <2>4, <2>5, <1>1, SizedSound DEF ContainersInv
  <2>7. QED
    BY <2>1, <2>3, <2>6 DEF ContainersInv
<1>4. QED
  BY <1>2, <1>3

-----------------------------------------------------------------------------
(***************************************************************************)
(* Moves of bags, and the merge of a pile with another.                    *)
(***************************************************************************)

\* A bag moves, with all it carries.
LEMMA MoveBagInv ==
  ASSUME ContainersInv, NEW i \in Bags, within[i] # Nowhere, NEW dest, MoveBag(i, dest),
         dest.box \in Holders, InGame(dest.box), QueryAdd(dest.box, dest.index, i),
         dest.box \notin Paged => FreeSlots(dest.box) > 0
  PROVE  ContainersInv'
<1>0. i \in Goods
  BY KindsApart
<1>1. CASE dest.index >= Capacity
  <2>1. Destroyed(i)
    BY <1>1 DEF MoveBag
  <2>2. QED
    BY <2>1, <1>0, DestroyedInv
<1>2. CASE ~(dest.index >= Capacity)
  <2> DEFINE d == dest.box
             w1 == [within EXCEPT ![i] = Nowhere]
  <2>1. /\ within' = [within EXCEPT ![i] = d]
        /\ itemlist' = [TakenLists(i) EXCEPT ![d] = <<i>> \o @]
        /\ totalWeight' = UpdateItemWeight(d, GetWeight(i), TakenWeights(i))
        /\ amount' = amount /\ units' = units
    BY <1>2 DEF MoveBag
  <2>2. d \in Holders /\ (d \notin Paged => FreeSlots(d) > 0)
    OBVIOUS
  <2>3. i \notin Up(within, d) /\ RoomFor(within, d, i) /\ Fits(Under(within, i)) /\ InGameAt(within, d)
    BY QueryAddBag, InGameIs
  <2> HIDE DEF d
  <2>4. within \in Parents /\ Rooted(within) /\ Listed(within, itemlist) /\ Weighs(within, amount, totalWeight)
        /\ amount \in [Piles -> Nat]
    BY InvParts
  <2>5. Placed(within, i, Nowhere, w1)
    BY <2>4, <1>0 DEF Placed, Parents
  <2> HIDE DEF w1
  <2>6. Detached(within, i, w1)
    BY <2>4, <2>5, <1>0, PruneDetaches
  <2>7. Listed(w1, TakenLists(i)) /\ \A b \in Holders : Len(TakenLists(i)[b]) <= Len(itemlist[b])
    BY <2>4, <2>5, <1>0, ListedTaken DEF TakenLists
  <2>8. GetWeight(i) = Count(Own(amount), Carried(within, i))
    BY <1>0, GetWeightIs
  <2>9. Weighs(w1, amount, TakenWeights(i))
    <3>1. Shifted(totalWeight, TakenWeights(i), Up(within, within[i]), -Count(Own(amount), Carried(within, i)))
      BY <2>8, UpdateShifts DEF TakenWeights
    <3>2. QED
      BY <3>1, <2>4, <2>5, <1>0, WeighPrune
  <2>10. d \notin Paged => Len(TakenLists(i)[d]) < Capacity
    <3>1. Len(TakenLists(i)[d]) \in Nat
      BY <2>2, <2>7 DEF Listed
    <3>2. QED
      BY <3>1, <2>2, <2>7, FreeSlotsIs
  <2>11. Shifted(TakenWeights(i), totalWeight', Up(within, d), Count(Own(amount), Carried(within, i)))
    BY <2>1, <2>8, UpdateShifts
  <2>12. Sound(within', itemlist', amount, totalWeight', units)
    BY <2>1, <2>2, <2>3, <2>6, <2>7, <2>9, <2>10, <2>11, BagSound DEF ContainersInv
  <2>13. QED
    BY <2>1, <2>12 DEF ContainersInv
<1>3. QED
  BY <1>1, <1>2

\* M units leave a pile: all that the rest of a move needs.
Drawn(i, m, v, l, a, t) ==
  /\ Sound(v, l, a, t, units - m)
  /\ \A x \in Goods : x # i => v[x] = within[x]
  /\ \A q \in Piles : q # i => a[q] = amount[q]
  /\ \A x \in Holders : Up(v, x) = Up(within, x)
  /\ \A b : Under(v, b) \subseteq Under(within, b)
  /\ \A b \in Holders : Len(l[b]) <= Len(itemlist[b])

\* All the units of a pile are moved.
LEMMA DrawnWhole ==
  ASSUME ContainersInv, NEW i \in Piles, within[i] # Nowhere
  PROVE  Drawn(i, amount[i], [within EXCEPT ![i] = Nowhere], TakenLists(i), [amount EXCEPT ![i] = 0],
               UpdateItemWeight(within[i], -amount[i], totalWeight))
<1> DEFINE v == [within EXCEPT ![i] = Nowhere]
           l == TakenLists(i)
           a == [amount EXCEPT ![i] = 0]
           t == UpdateItemWeight(within[i], -amount[i], totalWeight)
<1>0. i \in Goods /\ within \in Parents /\ amount \in [Piles -> Nat]
  BY KindsApart, InvParts
<1>1. Shifted(totalWeight, t, Up(within, within[i]), -amount[i])
  BY UpdateShifts
<1>2. l = [itemlist EXCEPT ![within[i]] = Remaining(@, {i})]
  BY DEF TakenLists
<1>3. v = [within EXCEPT ![i] = Nowhere] /\ a = [amount EXCEPT ![i] = 0]
  OBVIOUS
<1>4. (\A x \in Goods : x # i => v[x] = within[x]) /\ \A q \in Piles : q # i => a[q] = amount[q]
  BY <1>0 DEF Parents
<1> HIDE DEF v, l, a, t
<1>5. /\ Sound(v, l, a, t, units - amount[i]) /\ Detached(within, i, v)
      /\ \A b \in Holders : Len(l[b]) <= Len(itemlist[b])
  BY <1>1, <1>2, <1>3, TakenSound DEF ContainersInv
<1>6. \A x \in Holders : Up(v, x) = Up(within, x)
  <2>1. \A x \in Holders : i \notin Up(within, x)
    BY <1>0, UpHolders, KindsApart
  <2>2. QED
    BY <2>1, <1>5 DEF Detached
<1>7. \A b : Under(v, b) \subseteq Under(within, b)
  BY <1>5 DEF Detached
<1>8. Drawn(i, amount[i], v, l, a, t)
  BY <1>4, <1>5, <1>6, <1>7 DEF Drawn
<1>9. QED
  BY <1>8 DEF v, l, a, t

\* Some of them are.
LEMMA DrawnPart ==
  ASSUME ContainersInv, NEW i \in Piles, within[i] # Nowhere, NEW m \in Nat, m >= 1, m < amount[i]
  PROVE  Drawn(i, m, within, itemlist, [amount EXCEPT ![i] = amount[i] - m],
               UpdateItemWeight(within[i], -m, totalWeight))
<1> DEFINE n == amount[i] - m
           a == [amount EXCEPT ![i] = n]
           t == UpdateItemWeight(within[i], -m, totalWeight)
<1>0. amount \in [Piles -> Nat] /\ amount[i] \in Nat /\ amount[i] <= StackMax /\ StackMax \in Nat /\ units \in Nat
  BY InvParts, AmountsNat
<1>1. n \in 1..StackMax /\ n - amount[i] = -m /\ units + (n - amount[i]) = units - m
  BY <1>0
<1> HIDE DEF n
<1>2. Shifted(totalWeight, t, Up(within, within[i]), n - amount[i])
  BY <1>1, UpdateShifts
<1>3. a = [amount EXCEPT ![i] = n] /\ \A q \in Piles : q # i => a[q] = amount[q]
  BY <1>0
<1> HIDE DEF a, t
<1>4. Sound(within, itemlist, a, t, units + (n - amount[i]))
  BY <1>1, <1>2, <1>3, SizedSound DEF ContainersInv
<1>5. \A b \in Holders : Len(itemlist[b]) <= Len(itemlist[b])
  BY FreeSlotsIs
<1>6. Drawn(i, m, within, itemlist, a, t)
  BY <1>1, <1>3, <1>4, <1>5 DEF Drawn
<1>7. QED
  BY <1>6 DEF a, t, n

\* An update of no weight.
LEMMA ShiftNothing ==
  ASSUME NEW w, NEW l, NEW a, NEW t, NEW u, Sound(w, l, a, t, u), NEW line, NEW s, Shifted(t, s, line, 0)
  PROVE  Sound(w, l, a, s, u)
<1>1. a \in [Piles -> Nat] /\ Weighs(w, a, t)
  BY AmountsNat DEF Sound
<1>2. Own(a) \in [Goods -> Nat] /\ IsFiniteSet(Goods)
  BY <1>1, OwnType, KindsApart
<1>3. ASSUME NEW b \in Holders PROVE s[b] = Count(Own(a), Under(w, b))
  <2>1. Count(Own(a), Under(w, b)) \in Nat
    BY <1>2, UnderSubset, CountFinite
  <2>2. QED
    BY <2>1, <1>1 DEF Weighs, Shifted
<1>4. QED
  BY <1>3 DEF Sound, Weighs

\* N units are merged with the pile at the slot.
LEMMA MergedInv ==
  ASSUME ContainersInv, NEW i \in Piles, NEW m \in Nat, NEW v, NEW l, NEW a, NEW t, Drawn(i, m, v, l, a, t),
         NEW d \in Holders, NEW x, x # i, NEW n \in Nat,
         n > 0 => x \in Piles /\ within[x] = d /\ amount[x] + n <= StackMax,
         NEW c, c = (IF n > 0 THEN [a EXCEPT ![x] = a[x] + n] ELSE a),
         NEW s, Shifted(t, s, Up(within, d), n), m <= units
  PROVE  Sound(v, l, c, s, units - m + n)
<1>0. units \in Nat /\ d # Nowhere /\ StackMax \in Nat
  BY InvParts, KindsApart, ContainersAssumption
<1>1. Sound(v, l, a, t, units - m)
  BY DEF Drawn
<1>2. CASE n = 0
  <2>1. c = a /\ Shifted(t, s, Up(within, d), 0) /\ units - m + n = units - m
    BY <1>0, <1>2
  <2>2. QED
    BY <2>1, <1>1, ShiftNothing
<1>3. CASE n > 0
  <2>1. x \in Piles /\ x \in Goods /\ within[x] = d /\ amount[x] + n <= StackMax
    BY <1>3, KindsApart
  <2>2. v[x] = d /\ a[x] = amount[x] /\ Up(v, d) = Up(within, d)
    BY <2>1 DEF Drawn
  <2>3. amount[x] \in Nat
    BY <2>1, InvParts
  <2> DEFINE k == a[x] + n
  <2>4. k \in 1..StackMax /\ k - a[x] = n /\ (units - m) + (k - a[x]) = units - m + n
    BY <2>1, <2>2, <2>3, <1>0, <1>3
  <2>5. c = [a EXCEPT ![x] = k]
    BY <1>3
  <2> HIDE DEF k
  <2>6. Shifted(t, s, Up(v, v[x]), k - a[x])
    BY <2>2, <2>4
  <2>7. v[x] # Nowhere
    BY <2>2, <1>0
  <2>8. Sound(v, l, c, s, (units - m) + (k - a[x]))
    BY <2>1, <2>4, <2>5, <2>6, <2>7, <1>1, SizedSound
  <2>9. QED
    BY <2>4, <2>8
<1>4. QED
  BY <1>2, <1>3

\* A branch that has room still has it with less in it.
LEMMA RoomStays ==
  ASSUME ContainersInv, NEW i \in Piles, NEW m, NEW v, NEW l, NEW a, NEW t, Drawn(i, m, v, l, a, t),
         NEW d \in Holders, InGameAt(within, d), NEW p \in Piles, RoomFor(within, d, p)
  PROVE  RoomFor(v, d, p) /\ InGameAt(v, d)
<1>1. /\ v \in Parents /\ Up(v, d) = Up(within, d)
      /\ \A b \in Bags : v[b] = within[b]
      /\ \A b : Under(v, b) \subseteq Under(within, b)
  BY KindsApart DEF Drawn, Sound
<1>2. Under(v, p) = {} /\ Under(within, p) = {} /\ p \notin Bags
  BY <1>1, UnderPile, InvParts, KindsApart
<1>3. ASSUME NEW b \in Bags, b \in Up(v, d), v[b] \in Roots PROVE Counted(Under(v, b), Under(v, p), p)
  <2>1. Cardinality({}) + 1 + Cardinality(Under(within, b)) <= MaxItems
    BY <1>1, <1>2, <1>3 DEF RoomFor, Counted
  <2>2. Cardinality(Under(v, b)) <= Cardinality(Under(within, b))
    BY <1>1, UnderSubset, FS_Subset
  <2>3. Cardinality(Under(v, b)) \in Nat /\ Cardinality(Under(within, b)) \in Nat
    BY UnderSubset, CardsNat
  <2>4. Cardinality({}) = 0 /\ MaxItems \in Nat
    BY FS_EmptySet, ContainersAssumption
  <2>5. Cardinality({}) + 1 + Cardinality(Under(v, b)) <= MaxItems
    BY <2>1, <2>2, <2>3, <2>4
  <2>6. QED
    BY <2>5, <1>2 DEF Counted
<1>4. InGameAt(v, d)
  BY <1>1, KindsApart DEF InGameAt
<1>5. QED
  BY <1>3, <1>4 DEF RoomFor

\* The least of some numbers is one of them.
LEMMA MinIn ==
  ASSUME NEW S \in SUBSET Nat, S # {}
  PROVE  Min(S) \in S
<1>1. \E x \in S : \A y \in S : x <= y
  BY LeastOf
<1>2. QED
  BY <1>1 DEF Min

-----------------------------------------------------------------------------
(***************************************************************************)
(* Moves of piles.                                                         *)
(***************************************************************************)

\* The item at a slot lies in the container.
LEMMA ItemAt ==
  ASSUME ContainersInv, NEW d \in Holders, NEW index, NEW x, x = ItemByIndex(d, index)
  PROVE  /\ x \in Goods => within[x] = d
         /\ x \in Goods \/ x = NoItem
<1>1. itemlist[d] \in Seq(Goods) /\ Range(itemlist[d]) = {i \in Goods : within[i] = d}
  BY InvParts DEF Listed, ListOK
<1>2. CASE index \in 0..(Len(itemlist[d]) - 1)
  <2>1. Len(itemlist[d]) \in Nat /\ DOMAIN itemlist[d] = 1..Len(itemlist[d])
    BY <1>1
  <2>2. index + 1 \in DOMAIN itemlist[d]
    BY <2>1, <1>2
  <2>3. x = itemlist[d][index + 1]
    BY <1>2 DEF ItemByIndex
  <2>4. x \in Range(itemlist[d])
    BY <2>2, <2>3 DEF Range
  <2>5. QED
    BY <2>4, <1>1
<1>3. CASE ~(index \in 0..(Len(itemlist[d]) - 1))
  BY <1>3, KindsApart DEF ItemByIndex
<1>4. QED
  BY <1>2, <1>3

\* No more is merged than fits on the pile at the slot.
LEMMA MergedIs ==
  ASSUME ContainersInv, NEW d \in Holders, NEW index, NEW x, x = ItemByIndex(d, index), NEW m \in Nat
  PROVE  /\ Merged(m, x) \in Nat /\ Merged(m, x) <= m
         /\ Merged(m, x) > 0 => x \in Piles /\ within[x] = d /\ amount[x] + Merged(m, x) <= StackMax
         /\ Merged(m, x) < m => Merged(m, x) = Room(x)
<1>1. CASE x \in Piles
  <2>1. amount[x] \in Nat /\ amount[x] <= StackMax /\ StackMax \in Nat
    BY <1>1, InvParts, AmountsNat
  <2>2. within[x] = d
    BY <1>1, ItemAt, KindsApart
  <2>3. Merged(m, x) = Least(StackMax - amount[x], m)
    BY <1>1 DEF Merged
  <2>4. /\ Least(StackMax - amount[x], m) \in Nat /\ Least(StackMax - amount[x], m) <= m
        /\ amount[x] + Least(StackMax - amount[x], m) <= StackMax
        /\ Least(StackMax - amount[x], m) < m => Least(StackMax - amount[x], m) = StackMax - amount[x]
    BY <2>1 DEF Least
  <2>5. Room(x) = StackMax - amount[x]
    BY <1>1, <2>1 DEF Room, NotFull
  <2>6. QED
    BY <1>1, <2>2, <2>3, <2>4, <2>5
<1>2. CASE x \notin Piles
  BY <1>2 DEF Merged, Room, NotFull
<1>3. QED
  BY <1>1, <1>2

\* Units move: some are merged with the pile at the slot, the rest becomes a pile.
LEMMA MovePileInv ==
  ASSUME ContainersInv, NEW i \in Piles, within[i] # Nowhere, NEW dest, dest.box \in Holders,
         InGameAt(within, dest.box), dest.item = ItemByIndex(dest.box, dest.index), dest.item # i,
         \A p \in Piles : RoomFor(within, dest.box, p),
         NEW m \in Nat, 1 <= m, m <= amount[i], MovePile(i, dest, m),
         Split(m, Merged(m, dest.item)) > 0 /\ dest.box \notin Paged => Len(itemlist[dest.box]) < Capacity
  PROVE  ContainersInv'
<1> DEFINE d == dest.box
           x == dest.item
           whole == m = amount[i]
           n == Merged(m, x)
           rest == Split(m, n)
           free == IF whole THEN FreePiles \cup {i} ELSE FreePiles
           clone == Min(free)
           left == [amount EXCEPT ![i] = amount[i] - m]
           merged == IF n > 0 THEN [left EXCEPT ![x] = left[x] + n] ELSE left
           lists == IF whole THEN TakenLists(i) ELSE itemlist
           places == IF whole THEN [within EXCEPT ![i] = Nowhere] ELSE within
           drawn == UpdateItemWeight(within[i], -m, totalWeight)
           weights == UpdateItemWeight(d, n, drawn)
           added == rest > 0 /\ dest.index < Capacity
<1>1. /\ added => /\ free # {}
                  /\ amount' = [merged EXCEPT ![clone] = rest]
                  /\ within' = [places EXCEPT ![clone] = d]
                  /\ itemlist' = [lists EXCEPT ![d] = <<clone>> \o @]
                  /\ totalWeight' = UpdateItemWeight(d, rest, weights)
                  /\ units' = units
      /\ ~added => /\ amount' = merged /\ within' = places /\ itemlist' = lists
                   /\ totalWeight' = weights
                   /\ units' = units - rest
  BY DEF MovePile
<1>2. /\ amount \in [Piles -> Nat] /\ amount[i] \in Nat /\ amount[i] <= StackMax /\ StackMax \in Nat
      /\ units \in Nat /\ units = Count(amount, Piles) /\ i \in Goods /\ within \in Parents
  BY InvParts, AmountsNat, KindsApart
<1>3. m <= units
  <2>1. amount[i] <= Count(amount, Piles)
    BY <1>2, KindsApart, CountAtLeast
  <2>2. QED
    BY <2>1, <1>2
<1>4. d \in Holders /\ x # i /\ InGameAt(within, d) /\ \A p \in Piles : RoomFor(within, d, p)
  OBVIOUS
<1>5. /\ n \in Nat /\ n <= m
      /\ n > 0 => x \in Piles /\ within[x] = d /\ amount[x] + n <= StackMax
  BY <1>4, MergedIs
<1>6. rest = m - n /\ rest \in Nat /\ rest <= StackMax
  BY <1>2, <1>5 DEF Split
<1>7. Drawn(i, m, places, lists, left, drawn)
  <2>1. CASE whole
    <3>1. left = [amount EXCEPT ![i] = 0] /\ drawn = UpdateItemWeight(within[i], -amount[i], totalWeight)
      <4>1. amount[i] - m = 0 /\ -m = -amount[i]
        BY <2>1, <1>2
      <4>2. left = [amount EXCEPT ![i] = 0]
        BY <4>1
      <4>3. drawn = UpdateItemWeight(within[i], -amount[i], totalWeight)
        BY <4>1
      <4>4. QED
        BY <4>2, <4>3
    <3>2. places = [within EXCEPT ![i] = Nowhere] /\ lists = TakenLists(i)
      BY <2>1
    <3> HIDE DEF left, drawn, places, lists
    <3>3. QED
      BY <3>1, <3>2, <2>1, DrawnWhole
  <2>2. CASE ~whole
    <3>1. places = within /\ lists = itemlist /\ m < amount[i]
      BY <2>2, <1>2
    <3> HIDE DEF places, lists
    <3>2. QED
      BY <3>1, DrawnPart
  <2>3. QED
    BY <2>1, <2>2
<1>8. \A p \in free : p \in Piles /\ places[p] = Nowhere
  BY <1>2 DEF FreePiles, Parents
<1>9. free # {} => clone \in free
  <2>1. free \in SUBSET Nat
    BY <1>8, ContainersAssumption
  <2> HIDE DEF free
  <2>2. QED
    BY <2>1, MinIn
<1>10. Shifted(drawn, weights, Up(within, d), n)
  BY UpdateShifts
<1>11. d \notin Paged /\ rest > 0 => Len(itemlist[d]) < Capacity
  OBVIOUS
<1>12. merged = IF n > 0 THEN [left EXCEPT ![x] = left[x] + n] ELSE left
  OBVIOUS
<1>13. Shifted(weights, UpdateItemWeight(d, rest, weights), Up(within, d), rest)
  BY UpdateShifts
<1> HIDE DEF d, x, n, rest, free, clone, left, merged, lists, places, drawn, weights
<1>14. Sound(places, lists, merged, weights, units - m + n)
  BY <1>3, <1>4, <1>5, <1>7, <1>10, <1>12, MergedInv
<1>15. CASE ~added
  <2>1. units' = units - m + n
    BY <1>1, <1>2, <1>5, <1>6, <1>15
  <2>2. QED
    BY <2>1, <1>1, <1>14, <1>15 DEF ContainersInv
<1>16. CASE added
  <2>1. /\ amount' = [merged EXCEPT ![clone] = rest]
        /\ within' = [places EXCEPT ![clone] = d]
        /\ itemlist' = [lists EXCEPT ![d] = <<clone>> \o @]
        /\ totalWeight' = UpdateItemWeight(d, rest, weights)
        /\ units' = units /\ clone \in free
    BY <1>1, <1>9, <1>16
  <2>2. clone \in Piles /\ places[clone] = Nowhere /\ rest \in 1..StackMax
    BY <2>1, <1>2, <1>6, <1>8, <1>16
  <2>3. RoomFor(places, d, clone) /\ InGameAt(places, d)
    BY <2>2, <1>4, <1>7, RoomStays
  <2>4. d \notin Paged => Len(lists[d]) < Capacity
    <3>1. Len(lists[d]) <= Len(itemlist[d]) /\ Len(itemlist[d]) \in Nat /\ Capacity \in Nat
      BY <1>4, <1>7, FreeSlotsIs DEF Drawn
    <3>2. Len(lists[d]) \in Nat
      BY <1>4, <1>14 DEF Sound, Listed
    <3>3. d \notin Paged => Len(itemlist[d]) < Capacity
      BY <1>11, <1>16
    <3>4. QED
      BY <3>1, <3>2, <3>3
  <2>5. Shifted(weights, totalWeight', Up(places, d), rest)
    BY <2>1, <1>4, <1>7, <1>13 DEF Drawn
  <2>6. Sound(within', itemlist', amount', totalWeight', (units - m + n) + rest)
    BY <2>1, <2>2, <2>3, <2>4, <2>5, <1>4, <1>14, GivenSound
  <2>7. (units - m + n) + rest = units'
    BY <2>1, <1>2, <1>5, <1>6
  <2>8. QED
    BY <2>6, <2>7 DEF ContainersInv
<1>17. QED
  BY <1>15, <1>16

-----------------------------------------------------------------------------
(***************************************************************************)
(* Moves by the player: destination, room and count.                       *)
(***************************************************************************)

\* The destination of a slot is a container of the game.
LEMMA SlottedIs ==
  ASSUME ContainersInv, NEW b \in Holders, InGame(b), NEW index, NEW i
  PROVE  Slotted(b, index, i).box \in Holders /\ InGameAt(within, Slotted(b, index, i).box)
<1>0. within \in Parents /\ Loose(within) /\ InGameAt(within, b)
  BY InvParts, InGameIs
<1>1. CASE index = MoveUp
  <2>1. Slotted(b, index, i).box = IF b \in Bags THEN within[b] ELSE b
    BY <1>1 DEF Slotted
  <2>2. CASE b \in Bags
    <3>1. b \in Goods /\ within[b] \in Holders
      BY <2>2, <1>0, KindsApart DEF InGameAt, Parents
    <3>2. InGameAt(within, within[b])
      BY <3>1, <1>0, KindsApart DEF InGameAt, Loose
    <3>3. QED
      BY <2>1, <2>2, <3>1, <3>2
  <2>3. CASE b \notin Bags
    BY <2>1, <2>3, <1>0
  <2>4. QED
    BY <2>2, <2>3
<1>2. CASE index # MoveUp /\ (index = AddWhereEver \/ (index >= Capacity /\ b \notin Paged))
  <2>1. Slotted(b, index, i).box = b
    BY <1>2 DEF Slotted
  <2>2. QED
    BY <2>1, <1>0
<1>3. CASE index # MoveUp /\ ~(index = AddWhereEver \/ (index >= Capacity /\ b \notin Paged))
  <2> DEFINE x == ItemByIndex(b, index)
  <2>1. Slotted(b, index, i).box = IF x \in Bags THEN x ELSE b
    BY <1>3 DEF Slotted
  <2> HIDE DEF x
  <2>2. CASE x \in Bags
    <3>1. within[x] = b /\ x \in Holders /\ b # Nowhere
      BY <2>2, ItemAt, KindsApart DEF x
    <3>2. QED
      BY <2>1, <2>2, <3>1 DEF InGameAt
  <2>3. CASE x \notin Bags
    BY <2>1, <2>3, <1>0
  <2>4. QED
    BY <2>2, <2>3
<1>4. QED
  BY <1>1, <1>2, <1>3

\* queryDestination() finds a container of the game and the item at its slot.
LEMMA DestinationIs ==
  ASSUME ContainersInv, NEW b \in Holders, InGame(b), NEW index, NEW i
  PROVE  LET dest == QueryDestination(b, index, i)
         IN  /\ dest.box \in Holders /\ InGameAt(within, dest.box)
             /\ dest.item = ItemByIndex(dest.box, dest.index)
<1> DEFINE dest == QueryDestination(b, index, i)
           slot == Slotted(b, index, i)
<1>1. slot.box \in Holders /\ InGameAt(within, slot.box)
  BY SlottedIs
<1>2. dest.box = slot.box /\ dest.item = ItemByIndex(dest.box, dest.index)
  BY DEF QueryDestination
<1>3. QED
  BY <1>1, <1>2

\* The room on a pile.
LEMMA RoomNat ==
  ASSUME ContainersInv
  PROVE  \A x : Room(x) \in Nat /\ (x \notin Piles => Room(x) = 0)
                /\ (x \in Piles => amount[x] + Room(x) <= StackMax)
<1>1. ASSUME NEW x \in Piles PROVE Room(x) \in Nat /\ amount[x] + Room(x) <= StackMax
  <2>1. amount[x] \in Nat /\ StackMax \in Nat /\ amount[x] <= StackMax
    BY InvParts, AmountsNat
  <2>2. QED
    BY <2>1 DEF Room, NotFull
<1>2. \A x : x \notin Piles => Room(x) = 0
  BY DEF Room, NotFull
<1>3. QED
  BY <1>1, <1>2

\* Units that do not fit on piles, but were counted, find a free slot.
LEMMA SlotsProduct ==
  ASSUME ContainersInv, NEW d \in Holders, NEW r \in Nat, NEW m \in Nat, m > r,
         m <= FreeSlots(d) * StackMax + r
  PROVE  Len(itemlist[d]) < Capacity
<1>1. FreeSlots(d) \in Nat /\ (FreeSlots(d) > 0 => Len(itemlist[d]) < Capacity) /\ StackMax \in Nat
  BY FreeSlotsIs, ContainersAssumption
<1>2. CASE FreeSlots(d) = 0
  <2>1. FreeSlots(d) * StackMax = 0
    BY <1>1, <1>2
  <2>2. QED
    BY <2>1
<1>3. QED
  BY <1>1, <1>2

\* queryMaxCount() counts the free slots and the room on the piles that it looks at.
LEMMA MaxCountPile ==
  ASSUME ContainersInv, NEW d \in Holders, NEW index, NEW i, i \notin Bags, NEW count \in Nat
  PROVE  /\ QueryMaxCount(d, index, i, count) \in Nat
         /\ d \notin Paged /\ index # WhereEver =>
              QueryMaxCount(d, index, i, count) = FreeSlots(d) * StackMax + Room(ItemByIndex(d, index))
         /\ d \notin Paged /\ index = WhereEver =>
              QueryMaxCount(d, index, i, count)
                = FreeSlots(d) * StackMax
                  + SumFunction([k \in DOMAIN itemlist[d] |->
                                   IF itemlist[d][k] = i THEN 0 ELSE Room(itemlist[d][k])])
<1> DEFINE f == [k \in DOMAIN itemlist[d] |-> IF itemlist[d][k] = i THEN 0 ELSE Room(itemlist[d][k])]
           r == Room(ItemByIndex(d, index))
           q == QueryMaxCount(d, index, i, count)
<1>1. itemlist[d] \in Seq(Goods)
  BY InvParts DEF Listed
<1>2. SumFunction(f) \in Nat
  <2>1. DOMAIN itemlist[d] = 1..Len(itemlist[d]) /\ Len(itemlist[d]) \in Nat
    BY <1>1
  <2>2. IsFiniteSet(DOMAIN itemlist[d])
    BY <2>1, FS_Interval
  <2>3. f \in [DOMAIN itemlist[d] -> Nat]
    BY RoomNat
  <2> HIDE DEF f
  <2>4. QED
    BY <2>2, <2>3, SumIsCount
<1>3. FreeSlots(d) \in Nat /\ StackMax \in Nat /\ r \in Nat
  BY FreeSlotsIs, ContainersAssumption, RoomNat
<1>4. FreeSlots(d) * StackMax \in Nat
  BY <1>3
<1>5. d \in Paged => q = Most(1, count)
  BY DEF QueryMaxCount
<1>6. d \notin Paged => q = FreeSlots(d) * StackMax + (IF index = WhereEver THEN SumFunction(f) ELSE r)
  BY DEF QueryMaxCount
<1>7. Most(1, count) \in Nat
  BY DEF Most
<1> HIDE DEF f, r, q
<1>8. q \in Nat
  BY <1>2, <1>3, <1>4, <1>5, <1>6, <1>7
<1>9. QED
  BY <1>6, <1>8 DEF f, r, q

\* internalMoveItem() keeps the invariant, however the destination is redirected.
LEMMA MoveItemInv ==
  ASSUME ContainersInv, NEW i \in Goods, NEW b \in Holders, NEW index, NEW c \in Nat, c >= 1,
         MoveItem(i, b, index, c)
  PROVE  ContainersInv'
<1> DEFINE dest == QueryDestination(b, index, i)
           up == i \in Piles /\ c = AllUnits /\ within[i] \in Bags /\ within[within[i]] = dest.box
           count == IF up THEN amount[i] ELSE c
           max == QueryMaxCount(dest.box, dest.index, i, count)
           m == Least(count, max)
<1>1. /\ within[i] # Nowhere /\ InGame(b)
      /\ dest.item # i /\ QueryAdd(dest.box, dest.index, i) /\ max > 0
      /\ \/ i \in Bags /\ MoveBag(i, dest)
         \/ i \in Piles /\ m <= amount[i] /\ MovePile(i, dest, m)
  BY DEF MoveItem
<1>2. /\ dest.box \in Holders /\ InGameAt(within, dest.box)
      /\ dest.item = ItemByIndex(dest.box, dest.index)
  BY <1>1, DestinationIs
<1>3. CASE i \in Bags
  <2>1. dest.box \notin Paged => FreeSlots(dest.box) > 0
    <3>1. dest.box \notin Paged => max = FreeSlots(dest.box)
      BY <1>3 DEF QueryMaxCount
    <3>2. QED
      BY <3>1, <1>1
  <2>2. MoveBag(i, dest) /\ InGame(dest.box)
    BY <1>1, <1>2, <1>3, InGameIs, KindsApart
  <2> HIDE DEF dest
  <2>3. QED
    BY <2>1, <2>2, <1>1, <1>2, <1>3, MoveBagInv
<1>4. CASE i \in Piles
  <2>1. i \notin Bags /\ m <= amount[i] /\ MovePile(i, dest, m)
    BY <1>1, <1>4, KindsApart
  <2>2. amount[i] \in Nat /\ amount[i] >= 1
    <3>1. amount[i] \in Nat /\ amount[i] # 0
      BY <1>1, <1>4, InvParts DEF Amounts
    <3>2. QED
      BY <3>1
  <2>3. count \in Nat /\ count >= 1
    BY <2>2
  <2> HIDE DEF count, dest
  <2>4. max \in Nat
    BY <2>1, <2>3, <1>2, MaxCountPile
  <2>5. dest.box \notin Paged /\ dest.index # WhereEver =>
          max = FreeSlots(dest.box) * StackMax + Room(dest.item)
    <3>1. dest.box \notin Paged /\ dest.index # WhereEver =>
            QueryMaxCount(dest.box, dest.index, i, count)
              = FreeSlots(dest.box) * StackMax + Room(ItemByIndex(dest.box, dest.index))
      <4> DEFINE d == dest.box
                 k == dest.index
      <4>1. d \in Holders
        BY <1>2
      <4> HIDE DEF d, k
      <4>2. d \notin Paged /\ k # WhereEver =>
              QueryMaxCount(d, k, i, count) = FreeSlots(d) * StackMax + Room(ItemByIndex(d, k))
        BY <4>1, <2>1, <2>3, MaxCountPile
      <4>3. QED
        BY <4>2 DEF d, k
    <3>2. QED
      BY <3>1, <1>2
  <2>6. max > 0
    BY <1>1
  <2> HIDE DEF max
  <2>7. m \in Nat /\ 1 <= m /\ m <= max
    BY <2>3, <2>4, <2>6 DEF Least
  <2> HIDE DEF m
  <2>8. \A p \in Piles : RoomFor(within, dest.box, p)
    BY <2>1, <1>1, <1>2, QueryAddPile
  <2>9. ASSUME Split(m, Merged(m, dest.item)) > 0, dest.box \notin Paged
        PROVE  Len(itemlist[dest.box]) < Capacity
    <3>1. CASE dest.index = WhereEver
      BY <3>1, <2>9, <1>1 DEF QueryAdd
    <3>2. CASE dest.index # WhereEver
      <4> DEFINE n == Merged(m, dest.item)
                 r == Room(dest.item)
      <4>1. n \in Nat /\ (n < m => n = r) /\ r \in Nat
        BY <2>7, <1>2, MergedIs, RoomNat
      <4> HIDE DEF n, r
      <4>2. n < m
        BY <4>1, <2>7, <2>9 DEF Split, n
      <4>3. m > r /\ m <= FreeSlots(dest.box) * StackMax + r
        BY <4>1, <4>2, <3>2, <2>5, <2>7, <2>9 DEF r
      <4>4. QED
        BY <4>1, <4>3, <2>7, <1>2, SlotsProduct
    <3>3. QED
      BY <3>1, <3>2
  <2>10. QED
    BY <2>1, <2>7, <2>8, <2>9, <1>1, <1>2, <1>4, MovePileInv
<1>5. QED
  BY <1>3, <1>4, KindsApart

-----------------------------------------------------------------------------
(***************************************************************************)
(* New units come into a container, and the theorem.                       *)
(***************************************************************************)

\* The room on the items of a list.
Rooms(list) == [k \in DOMAIN list |-> Room(list[k])]

\* What each pile gets of the units poured over a list.
Spread(list, poured) ==
  [p \in Piles |-> SumFunction([k \in DOMAIN list |-> IF list[k] = p THEN poured[k] ELSE 0])]

\* What each pile gets of c units that come to a container.
LEMMA PiledUp ==
  ASSUME ContainersInv, NEW b \in Holders, NEW c \in Nat, NEW p0 \in Piles,
         NEW list, list = itemlist[b], NEW room, room = Rooms(list),
         NEW poured, poured = Poured(room, c), NEW D, D = Spread(list, poured)
  PROVE  /\ D \in [Piles -> Nat]
         /\ \A p \in Piles : D[p] # 0 => within[p] = b /\ amount[p] + D[p] <= StackMax
         /\ Count(D, Piles) = SumFunction(poured)
         /\ SumFunction(poured) = Least(c, SumFunction(room))
         /\ SumFunction(room) \in Nat
<1> DEFINE n == Len(list)
           S == DOMAIN list
<1>1. /\ list \in Seq(Goods) /\ IsInjective(list) /\ Range(list) = {i \in Goods : within[i] = b}
  BY InvParts DEF Listed, ListOK
<1>2. S = 1..n /\ n \in Nat /\ \A k \in S : list[k] \in Goods
  BY <1>1
<1>3. IsFiniteSet(S)
  BY <1>2, FS_Interval
<1>4. room \in [1..n -> Nat] /\ \A k \in S : room[k] = Room(list[k])
  BY <1>2, RoomNat DEF Rooms
<1>5. /\ poured \in [1..n -> Nat] /\ (\A k \in 1..n : poured[k] <= room[k])
      /\ SumFunction(poured) = Least(c, SumFunction(room))
      /\ SumFunction(room) \in Nat
  <2> HIDE DEF n
  <2>1. QED
    BY <1>2, <1>4, PouredSum
<1> DEFINE G(p) == [k \in S |-> IF list[k] = p THEN poured[k] ELSE 0]
<1>6. \A k \in S : /\ poured[k] \in Nat /\ poured[k] <= Room(list[k])
                   /\ list[k] \notin Piles => poured[k] = 0
  <2>1. ASSUME NEW k \in S PROVE /\ poured[k] \in Nat /\ poured[k] <= Room(list[k])
                                 /\ list[k] \notin Piles => poured[k] = 0
    <3>1. poured[k] \in Nat /\ poured[k] <= Room(list[k])
      BY <1>2, <1>4, <1>5
    <3>2. Room(list[k]) \in Nat /\ (list[k] \notin Piles => Room(list[k]) = 0)
      BY RoomNat
    <3>3. QED
      BY <3>1, <3>2
  <2>2. QED
    BY <2>1
<1>7. \A p \in Piles : D[p] = SumFunction(G(p)) /\ G(p) \in [S -> Nat]
  BY <1>6 DEF Spread
<1> HIDE DEF S, n
<1>8. ASSUME NEW p \in Piles, D[p] # 0 PROVE within[p] = b /\ amount[p] + D[p] <= StackMax
  <2>1. ~ \A k \in S : G(p)[k] = 0
    <3> DEFINE g == G(p)
    <3>1. g \in [S -> Nat] /\ D[p] = SumFunction(g)
      BY <1>7
    <3> HIDE DEF g
    <3>2. ~ \A k \in S : g[k] = 0
      BY <3>1, <1>3, <1>8, SumZero
    <3>3. QED
      BY <3>2 DEF g
  <2>2. PICK k \in S : G(p)[k] # 0
    BY <2>1
  <2>3. list[k] = p /\ G(p)[k] = poured[k]
    BY <2>2
  <2>4. p \in Range(list)
    BY <2>3 DEF Range, S
  <2>5. within[p] = b
    BY <2>4, <1>1
  <2>6. D[p] = poured[k]
    <3> DEFINE g == G(p)
    <3>1. \A j \in S : j # k => list[j] # p
      BY <2>3, <1>1 DEF IsInjective, S
    <3>2. g \in [S -> Nat] /\ D[p] = SumFunction(g) /\ g[k] = poured[k] /\ \A j \in S : j # k => g[j] = 0
      BY <3>1, <2>3, <1>7
    <3> HIDE DEF g
    <3>3. SumFunction(g) = g[k]
      BY <3>2, <1>3, SumSingle
    <3>4. QED
      BY <3>2, <3>3
  <2>7. poured[k] \in Nat /\ poured[k] <= Room(p) /\ amount[p] + Room(p) <= StackMax /\ Room(p) \in Nat
    BY <2>3, <1>6, RoomNat
  <2>8. amount[p] \in Nat /\ StackMax \in Nat
    BY InvParts, AmountsNat
  <2>9. QED
    BY <2>5, <2>6, <2>7, <2>8
<1>9. D \in [Piles -> Nat] /\ SumFunction(D) = SumFunction(poured)
  <2> DEFINE own == [k \in S |-> IF list[k] \in Piles THEN list[k] ELSE p0]
  <2>1. own \in [S -> Piles] /\ \A k \in S : own[k] = IF list[k] \in Piles THEN list[k] ELSE p0
    OBVIOUS
  <2> HIDE DEF own
  <2>2. ASSUME NEW p \in Piles PROVE Share(S, own, poured, p) = G(p)
    <3>1. ASSUME NEW k \in S
          PROVE  (IF own[k] = p THEN poured[k] ELSE 0) = (IF list[k] = p THEN poured[k] ELSE 0)
      <4>1. CASE list[k] \in Piles
        BY <4>1, <2>1
      <4>2. CASE list[k] \notin Piles
        BY <4>2, <1>6
      <4>3. QED
        BY <4>1, <4>2
    <3>2. QED
      BY <3>1 DEF Share
  <2>3. D = [p \in Piles |-> SumFunction(Share(S, own, poured, p))]
    BY <2>2 DEF S, Spread
  <2>4. poured \in [S -> Nat]
    BY <1>2, <1>5
  <2>5. IsFiniteSet(Piles)
    BY KindsApart
  <2> HIDE DEF G
  <2>6. QED
    BY <2>1, <2>3, <2>4, <2>5, <1>3, SumGroup
<1>10. Count(D, Piles) = SumFunction(D)
  BY <1>9, KindsApart, SumIsCount
<1>11. QED
  BY <1>5, <1>8, <1>9, <1>10

\* internalAddItem() of units: piles are filled in order, the rest becomes a new pile.
LEMMA AddPileInv ==
  ASSUME ContainersInv, NEW b \in Holders, NEW c \in 1..StackMax, AddPile(b, c)
  PROVE  ContainersInv'
<1> DEFINE list == itemlist[b]
           first == FirstNotFull(b, NoItem)
           index == IF first >= 0 THEN first ELSE WhereEver
           room == Rooms(list)
           poured == Poured(room, c)
           sum == SumFunction(poured)
           rest == c - sum
           D == Spread(list, poured)
           filled == [p \in Piles |-> amount[p]
                       + SumFunction([k \in DOMAIN list |-> IF list[k] = p THEN poured[k] ELSE 0])]
           p0 == Min(FreePiles)
           s1 == UpdateItemWeight(b, sum, totalWeight)
<1>1. /\ InGame(b) /\ FreePiles # {}
      /\ QueryAdd(b, index, NoItem)
      /\ c <= QueryMaxCount(b, WhereEver, NoItem, c)
      /\ rest = 0 => amount' = filled /\ within' = within /\ itemlist' = itemlist
      /\ rest # 0 => /\ amount' = [filled EXCEPT ![p0] = rest]
                     /\ within' = [within EXCEPT ![p0] = b]
                     /\ itemlist' = [itemlist EXCEPT ![b] = <<p0>> \o @]
      /\ totalWeight' = UpdateItemWeight(b, c, totalWeight)
      /\ units' = units + c
  BY DEF AddPile, Rooms
<1>2. c \in Nat /\ c <= StackMax /\ StackMax \in Nat /\ units \in Nat
  BY ContainersAssumption, InvParts
<1>3. p0 \in Piles /\ within[p0] = Nowhere
  <2>1. FreePiles \in SUBSET Nat
    BY ContainersAssumption DEF FreePiles
  <2>2. p0 \in FreePiles
    BY <2>1, <1>1, MinIn
  <2>3. QED
    BY <2>2 DEF FreePiles
<1>4. /\ D \in [Piles -> Nat]
      /\ \A p \in Piles : D[p] # 0 => within[p] = b /\ amount[p] + D[p] <= StackMax
      /\ Count(D, Piles) = sum /\ sum = Least(c, SumFunction(room)) /\ SumFunction(room) \in Nat
  BY <1>2, <1>3, PiledUp
<1>5. filled = [p \in Piles |-> amount[p] + D[p]]
  BY DEF Spread
<1>6. sum \in Nat /\ sum <= c /\ (sum < c => sum = SumFunction(room)) /\ rest \in Nat /\ rest <= StackMax
  BY <1>2, <1>4 DEF Least
<1>7. b \notin Paged => c <= FreeSlots(b) * StackMax + SumFunction(room)
  <2>1. itemlist[b] \in Seq(Goods)
    BY InvParts DEF Listed
  <2>2. \A k \in DOMAIN list : list[k] # NoItem
    BY <2>1, KindsApart
  <2>3. room = [k \in DOMAIN itemlist[b] |-> IF itemlist[b][k] = NoItem THEN 0 ELSE Room(itemlist[b][k])]
    BY <2>2 DEF Rooms
  <2>4. NoItem \notin Bags
    BY KindsApart
  <2> HIDE DEF room
  <2>5. b \notin Paged => QueryMaxCount(b, WhereEver, NoItem, c) = FreeSlots(b) * StackMax + SumFunction(room)
    BY <2>3, <2>4, <1>2, MaxCountPile
  <2>6. QED
    BY <2>5, <1>1
<1>8. Shifted(totalWeight, s1, Up(within, b), sum)
  BY UpdateShifts
<1>9. Shifted(totalWeight, totalWeight', Up(within, b), c)
  BY <1>1, UpdateShifts
<1> HIDE DEF list, first, index, room, poured, sum, rest, D, filled, p0, s1
<1>10. Sound(within, itemlist, filled, s1, units + sum)
  BY <1>4, <1>5, <1>8, FilledSound DEF ContainersInv
<1>11. sum + rest = c
  BY <1>2, <1>6 DEF rest
<1>12. Shifted(s1, totalWeight', Up(within, b), rest)
  <2>1. ASSUME NEW x \in Holders
        PROVE  totalWeight'[x] = IF x \in Up(within, b) THEN s1[x] + rest ELSE s1[x]
    <3>1. totalWeight[x] \in Nat
      <4>1. totalWeight[x] = Count(Own(amount), Under(within, x)) /\ amount \in [Piles -> Nat]
        BY InvParts DEF Weighs
      <4>2. Own(amount) \in [Goods -> Nat] /\ IsFiniteSet(Goods) /\ Under(within, x) \in SUBSET Goods
        BY <4>1, OwnType, KindsApart, UnderSubset
      <4>3. QED
        BY <4>1, <4>2, CountFinite
    <3>2. CASE x \in Up(within, b)
      <4>1. s1[x] = totalWeight[x] + sum /\ totalWeight'[x] = totalWeight[x] + c
        BY <3>2, <1>8, <1>9 DEF Shifted
      <4>2. QED
        BY <3>1, <3>2, <4>1, <1>2, <1>6, <1>11
    <3>3. CASE x \notin Up(within, b)
      BY <3>3, <1>8, <1>9 DEF Shifted
    <3>4. QED
      BY <3>2, <3>3
  <2>2. QED
    BY <2>1 DEF Shifted
<1>13. CASE rest = 0
  <2>1. Shifted(s1, totalWeight', Up(within, b), 0) /\ units + sum = units'
    BY <1>1, <1>2, <1>6, <1>11, <1>12, <1>13
  <2>2. Sound(within, itemlist, filled, totalWeight', units + sum)
    BY <2>1, <1>10, ShiftNothing
  <2>3. QED
    BY <2>1, <2>2, <1>1, <1>13 DEF ContainersInv
<1>14. CASE rest # 0
  <2>1. rest \in 1..StackMax /\ sum < c /\ sum = SumFunction(room)
    BY <1>2, <1>6, <1>11, <1>14
  <2>2. b \notin Paged => Len(itemlist[b]) < Capacity
    <3>1. ASSUME b \notin Paged PROVE Len(itemlist[b]) < Capacity
      <4>1. c <= FreeSlots(b) * StackMax + sum
        BY <2>1, <3>1, <1>7
      <4>2. QED
        BY <4>1, <2>1, <1>2, <1>6, SlotsProduct
    <3>2. QED
      BY <3>1
  <2>3. RoomFor(within, b, p0) /\ InGameAt(within, b)
    BY <1>1, <1>3, QueryAddPile, InGameIs, KindsApart
  <2>4. /\ amount' = [filled EXCEPT ![p0] = rest] /\ within' = [within EXCEPT ![p0] = b]
        /\ itemlist' = [itemlist EXCEPT ![b] = <<p0>> \o @]
    BY <1>1, <1>14
  <2>5. Sound(within', itemlist', amount', totalWeight', (units + sum) + rest)
    BY <2>1, <2>2, <2>3, <2>4, <1>3, <1>10, <1>12, GivenSound
  <2>6. (units + sum) + rest = units'
    BY <1>1, <1>2, <1>6, <1>11
  <2>7. QED
    BY <2>5, <2>6 DEF ContainersInv
<1>15. QED
  BY <1>13, <1>14

\* At start there are only empty roots.
LEMMA ContainersInitInv == ContainersInit => ContainersInv
<1> SUFFICES ASSUME ContainersInit PROVE ContainersInv
  OBVIOUS
<1>1. /\ within = [i \in Goods |-> Nowhere] /\ itemlist = [b \in Holders |-> <<>>]
      /\ amount = [p \in Piles |-> 0] /\ totalWeight = [b \in Holders |-> 0] /\ units = 0
  BY DEF ContainersInit
<1>2. within \in Parents /\ \A i \in Goods : within[i] = Nowhere
  BY <1>1 DEF Parents
<1>3. \A b : Under(within, b) = {}
  BY <1>2 DEF Under
<1>4. Amounts(within, amount)
  <2>1. StackMax \in Nat /\ \A p \in Piles : within[p] = Nowhere
    BY <1>2, ContainersAssumption, KindsApart
  <2>2. QED
    BY <2>1, <1>1 DEF Amounts
<1>5. Listed(within, itemlist)
  <2>1. itemlist \in [Holders -> Seq(Goods)]
    BY <1>1
  <2>2. ASSUME NEW b \in Holders PROVE ListOK(within, itemlist[b], b)
    <3>1. itemlist[b] = <<>> /\ Capacity \in Nat
      BY <1>1, ContainersAssumption
    <3>2. <<>> \in Seq(Goods) /\ Len(<<>>) = 0 /\ Range(<<>>) = {} /\ IsInjective(<<>>)
      BY DEF Range, IsInjective
    <3>3. {i \in Goods : within[i] = b} = {}
      BY <1>2, KindsApart
    <3>4. ListOK(within, <<>>, b)
      BY <3>1, <3>2, <3>3 DEF ListOK
    <3>5. QED
      BY <3>1, <3>4
  <2>3. QED
    BY <2>1, <2>2 DEF Listed
<1>6. Rooted(within)
  BY <1>2, KindsApart DEF Rooted
<1>7. Loose(within)
  BY <1>2, KindsApart DEF Loose
<1>8. Bounded(within)
  BY <1>2, KindsApart DEF Bounded
<1>9. Weighs(within, amount, totalWeight)
  BY <1>1, <1>3, CountEmpty DEF Weighs
<1>10. units = Count(amount, Piles)
  <2>1. amount \in [Piles -> Nat] /\ \A p \in Piles : amount[p] = 0
    BY <1>1
  <2>2. Count(amount, Piles) = Count(amount, {})
    BY <2>1, CountSupport
  <2>3. QED
    BY <2>2, <1>1, CountEmpty
<1>11. QED
  BY <1>2, <1>4, <1>5, <1>6, <1>7, <1>8, <1>9, <1>10 DEF ContainersInv, Sound

\* Every step keeps the invariant of the containers.
LEMMA ContainersNextInv == ContainersInv /\ [ContainersNext]_containerVars => ContainersInv'
<1> SUFFICES ASSUME ContainersInv, [ContainersNext]_containerVars PROVE ContainersInv'
  OBVIOUS
<1>1. CASE UNCHANGED containerVars
  BY <1>1 DEF ContainersInv, containerVars
<1>2. ASSUME NEW i \in Bags, NEW b \in Holders, AddBag(i, b) PROVE ContainersInv'
  BY <1>2, AddBagInv
<1>3. ASSUME NEW b \in Holders, NEW c \in 1..StackMax, AddPile(b, c) PROVE ContainersInv'
  BY <1>3, AddPileInv
<1>4. ASSUME NEW i \in Goods, NEW c \in 1..StackMax, RemoveItemOf(i, c) PROVE ContainersInv'
  BY <1>4, RemoveItemInv
<1>5. ASSUME NEW b \in Holders, NEW index, NEW i \in Bags, MoveItem(i, b, index, 1) PROVE ContainersInv'
  BY <1>5, MoveItemInv, KindsApart
<1>6. ASSUME NEW b \in Holders, NEW index, NEW i \in Piles, NEW c \in (1..StackMax) \cup {AllUnits},
             MoveItem(i, b, index, c)
      PROVE  ContainersInv'
  <2>1. c \in Nat /\ c >= 1 /\ i \in Goods
    BY ContainersAssumption, KindsApart DEF AllUnits
  <2>2. QED
    BY <2>1, <1>6, MoveItemInv
<1>7. QED
  BY <1>1, <1>2, <1>3, <1>4, <1>5, <1>6 DEF ContainersNext

\* The inductive invariant implies what the run checks.
LEMMA ContainersInvAgrees == ContainersInv => ContainersAgree
<1> SUFFICES ASSUME ContainersInv PROVE ContainersAgree
  OBVIOUS
<1>1. /\ within \in Parents /\ Amounts(within, amount) /\ Listed(within, itemlist)
      /\ Rooted(within) /\ Bounded(within) /\ Weighs(within, amount, totalWeight)
      /\ units = Count(amount, Piles) /\ amount \in [Piles -> Nat]
  BY InvParts
<1>2. ContainersTypeOK
  BY <1>1 DEF ContainersTypeOK, Parents, Amounts, Listed, ListOK
<1>3. NoneInsideItself
  BY <1>1, AboveIsUp DEF NoneInsideItself, Rooted
<1>4. WeightIsExact
  <2>1. ASSUME NEW b \in Holders
        PROVE  totalWeight[b] = SumFunction([i \in Inside(b) |-> OwnWeight(i)])
    <3>1. Inside(b) = Under(within, b) /\ Under(within, b) \in SUBSET Goods
      BY InsideIs, UnderSubset
    <3>2. Own(amount) \in [Goods -> Nat] /\ IsFiniteSet(Goods)
      BY <1>1, OwnType, KindsApart
    <3>3. [i \in Inside(b) |-> OwnWeight(i)] = [i \in Under(within, b) |-> Own(amount)[i]]
      BY <3>1 DEF OwnWeight, Own
    <3>4. SumFunction([i \in Under(within, b) |-> Own(amount)[i]]) = Count(Own(amount), Under(within, b))
      BY <3>1, <3>2, SumOn
    <3>5. QED
      BY <3>3, <3>4, <1>1 DEF Weighs
  <2>2. QED
    BY <2>1 DEF WeightIsExact
<1>5. UnitsAccounted
  <2>1. SumFunction([p \in Piles |-> amount[p]]) = Count(amount, Piles)
    BY <1>1, KindsApart, SumOn
  <2>2. QED
    BY <2>1, <1>1 DEF UnitsAccounted, UnitsOf
<1>6. BranchesAreBounded
  BY <1>1, InsideIs, KindsApart DEF BranchesAreBounded, Bounded, Fits
<1>7. QED
  BY <1>2, <1>3, <1>4, <1>5, <1>6 DEF ContainersAgree

\* Containers: for any roots, bags and piles, any capacity, stack size and limits of a
\* branch, over every addition, move, merge, split and removal, the lists and parents
\* of items agree, nothing lies in itself, every totalWeight is the weight of what lies
\* below, no branch grows past its limits, and no unit is lost or doubled.
THEOREM ContainersStayAgreed == ContainersSpec => []ContainersAgree
<1>1. ContainersSpec => []ContainersInv
  BY ContainersInitInv, ContainersNextInv, PTL DEF ContainersSpec
<1>2. QED
  BY <1>1, ContainersInvAgrees, PTL
=============================================================================
