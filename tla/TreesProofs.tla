---------------------------- MODULE TreesProofs ----------------------------
(***************************************************************************)
(* Proofs about Trees, for every set of keys, names and ships, and however *)
(* many blocks are allocated at a time.                                    *)
(***************************************************************************)
EXTENDS Trees, FiniteSetTheorems, WellFoundedInduction, TLAPS

(***************************************************************************)
(* Numbers and loops.                                                      *)
(***************************************************************************)

\* There is a smallest number in a set.
LEMMA Least ==
  ASSUME NEW T \in SUBSET Nat, T # {}
  PROVE  \E x \in T : \A y \in T : x <= y
<1>1. PICK x \in T : \A y \in T : ~ (<<y, x>> \in OpToRel(<, Nat))
  BY WFMin, NatLessThanWellFounded
<1>2. \A y \in T : x <= y
  <2> SUFFICES ASSUME NEW y \in T, y < x PROVE FALSE
    OBVIOUS
  <2>1. <<y, x>> \in Nat \X Nat /\ <<y, x>>[1] < <<y, x>>[2]
    OBVIOUS
  <2> QED
    BY <1>1, <2>1 DEF OpToRel
<1> QED
  BY <1>2

\* A set of numbers that has 0 and the number after each of its own has them all.
LEMMA Induction ==
  ASSUME NEW T \in SUBSET Nat, 0 \in T, \A n \in T : n + 1 \in T
  PROVE  T = Nat
<1> SUFFICES ASSUME Nat \ T # {} PROVE FALSE
  OBVIOUS
<1>1. PICK m \in Nat \ T : \A y \in Nat \ T : m <= y
  BY Least
<1>2. m # 0 /\ m - 1 \in Nat /\ ~ (m <= m - 1) /\ (m - 1) + 1 = m
  BY <1>1
<1>3. m - 1 \in T
  BY <1>1, <1>2
<1> QED
  BY <1>1, <1>2, <1>3

\* A loop that starts in W[0], and whose round r takes it from W[i - 1] to W[i].
Steps(n, X, W, start, r) ==
    /\ n \in Nat /\ W \in [0..n -> SUBSET X] /\ start \in W[0]
    /\ \A i \in 1..n : \A x \in W[i - 1] : r[x] \in W[i]

\* g does what the rounds say.
Follows(g, n, X, start, r) ==
    g[0] = start /\ \A i \in 1..n : g[i - 1] \in X => g[i] = r[g[i - 1]]

\* f is the run.
Run(f, n, X, start, r) ==
    /\ f \in [0..n -> X] /\ f[0] = start
    /\ \A i \in 1..n : f[i - 1] \in X /\ f[i] = r[f[i - 1]]

\* It can be followed, and ends in W[n].
LEMMA Rounds ==
  ASSUME NEW n, NEW X, NEW W, NEW start, NEW r, Steps(n, X, W, start, r)
  PROVE  /\ \E f : Run(f, n, X, start, r)
         /\ \A g : Follows(g, n, X, start, r) => g[n] \in W[n]
<1>0. /\ n \in Nat /\ W \in [0..n -> SUBSET X] /\ start \in W[0]
      /\ \A i \in 1..n : \A x \in W[i - 1] : r[x] \in W[i]
  BY DEF Steps
<1> USE <1>0
<1> DEFINE Has(k) == \E f \in [0..k -> X] : /\ f[0] = start /\ f[k] \in W[k]
                                            /\ \A i \in 1..k : f[i] = r[f[i - 1]]
           T == {k \in Nat : k <= n => Has(k)}
<1>1. 0 \in T
  <2>1. [i \in 0..0 |-> start] \in [0..0 -> X]
    OBVIOUS
  <2>2. [i \in 0..0 |-> start][0] = start /\ \A i \in 1..0 : FALSE
    OBVIOUS
  <2> QED
    BY <2>1, <2>2
<1>2. ASSUME NEW k \in T PROVE k + 1 \in T
  <2> SUFFICES ASSUME k + 1 <= n PROVE Has(k + 1)
    OBVIOUS
  <2>1. k \in Nat /\ k <= n /\ k \in 0..k /\ k + 1 \in Nat /\ k \in 0..n /\ k + 1 \in 1..n
        /\ k + 1 \in 0..n /\ (k + 1) - 1 = k
    OBVIOUS
  <2>2. PICK f \in [0..k -> X] : /\ f[0] = start /\ f[k] \in W[k]
                                 /\ \A i \in 1..k : f[i] = r[f[i - 1]]
    BY <2>1
  <2> DEFINE g == [i \in 0..(k + 1) |-> IF i = k + 1 THEN r[f[k]] ELSE f[i]]
  <2>3. r[f[k]] \in W[k + 1] /\ W[k + 1] \in SUBSET X
    BY <2>1, <2>2
  <2>4. g \in [0..(k + 1) -> X] /\ g[0] = start /\ g[k + 1] \in W[k + 1]
    BY <2>1, <2>2, <2>3
  <2>5. ASSUME NEW i \in 1..(k + 1) PROVE g[i] = r[g[i - 1]]
    <3>1. CASE i = k + 1
      <4>1. i - 1 = k /\ k # k + 1 /\ k \in 0..(k + 1)
        BY <2>1, <3>1
      <4>2. g[i - 1] = f[k]
        BY <4>1
      <4> QED
        BY <3>1, <4>2, <2>1
    <3>2. CASE i # k + 1
      <4>1. i \in 1..k /\ i - 1 \in 0..(k + 1) /\ i - 1 # k + 1 /\ i \in 0..(k + 1)
        BY <2>1, <3>2
      <4>2. g[i - 1] = f[i - 1] /\ g[i] = f[i]
        BY <4>1, <3>2
      <4> QED
        BY <2>2, <4>1, <4>2
    <3> QED
      BY <3>1, <3>2
  <2> HIDE DEF g
  <2> QED
    BY <2>4, <2>5
<1> HIDE DEF Has
<1>3. T = Nat
  BY <1>1, <1>2, Induction
<1>4. Has(n)
  BY <1>3
<1>5. ASSUME NEW g, Follows(g, n, X, start, r)
      PROVE  g[n] \in W[n]
  <2> DEFINE R == {k \in Nat : k <= n => g[k] \in W[k]}
  <2>1. 0 \in R
    BY <1>5 DEF Follows
  <2>2. \A k \in R : k + 1 \in R
    <3> SUFFICES ASSUME NEW k \in R, k + 1 <= n PROVE g[k + 1] \in W[k + 1]
      OBVIOUS
    <3>1. k \in Nat /\ k <= n /\ k \in 0..n /\ k + 1 \in 1..n /\ (k + 1) - 1 = k
      OBVIOUS
    <3>2. g[k] \in W[k] /\ W[k] \in SUBSET X
      BY <3>1
    <3> QED
      BY <1>5, <3>1, <3>2 DEF Follows
  <2>3. R = Nat
    BY <2>1, <2>2, Induction
  <2> QED
    BY <2>3
<1>6. PICK f \in [0..n -> X] : f[0] = start /\ \A i \in 1..n : f[i] = r[f[i - 1]]
  BY <1>4 DEF Has
<1>7. \A i \in 1..n : i - 1 \in 0..n
  OBVIOUS
<1>8. \A i \in 1..n : f[i - 1] \in X /\ f[i] = r[f[i - 1]]
  BY <1>6, <1>7
<1> QED
  BY <1>5, <1>6, <1>8 DEF Run

(***************************************************************************)
(* Trees.  K has the children of the blocks on both sides, U their         *)
(* parents, key their keys; b has the nearest block above each block that  *)
(* it is on the far side of: b["l"][n] is the last one before n among the  *)
(* blocks above it, b["r"][n] the first one after it.                      *)
(***************************************************************************)

\* y is on side d of x.
On(key, d, x, y) == IF d = "l" THEN key[y] < key[x] ELSE key[x] < key[y]

\* Blocks are told apart by their keys.
Keyed(key, S) == /\ IsFiniteSet(S) /\ NULL \notin S
                 /\ \A x \in S : key[x] \in Int
                 /\ \A x, y \in S : key[x] = key[y] => x = y

\* Bounds are on their sides.
Bounded(key, S, b) == \A x \in S, d \in Sides :
                         b[d][x] # NULL => b[d][x] \in S /\ On(key, d, x, b[d][x])

\* x has a child on side d, or there is nothing between it and its bound.
KidOf(K, U, key, S, b, x, d) ==
    \/ /\ K[d][x] \in S /\ U[K[d][x]] = x
       /\ b[d][K[d][x]] = b[d][x] /\ b[Other(d)][K[d][x]] = x
    \/ /\ K[d][x] = NULL
       /\ \A y \in S : On(key, d, x, y) => b[d][x] # NULL /\ ~ On(key, d, y, b[d][x])

\* The blocks S with the links K and U are a tree.
Tree(K, U, key, S, b, root) ==
    /\ Keyed(key, S) /\ Bounded(key, S, b)
    /\ \/ S = {} /\ root = NULL
       \/ root \in S /\ U[root] = NULL /\ \A d \in Sides : b[d][root] = NULL
    /\ \A x \in S, d \in Sides : KidOf(K, U, key, S, b, x, d)

\* y is between the bounds of x.
Within(key, b, x, y) == \A d \in Sides : b[d][x] = NULL \/ On(key, d, y, b[d][x])

\* There are two sides.
LEMMA SidesFacts ==
  /\ \A d \in Sides : /\ Other(d) \in Sides /\ Other(d) # d /\ Other(Other(d)) = d
                      /\ \A e \in Sides : e = d \/ e = Other(d)
  /\ "l" \in Sides /\ "r" \in Sides /\ Other("l") = "r" /\ Other("r") = "l"
  BY DEF Sides, Other

\* The keys of blocks are in a strict order, on each side.
LEMMA Order ==
  ASSUME NEW key, NEW S, Keyed(key, S)
  PROVE  \A d \in Sides, x, y \in S :
            /\ ~ On(key, d, x, x)
            /\ On(key, d, x, y) => ~ On(key, d, y, x) /\ ~ On(key, Other(d), x, y)
            /\ On(key, d, x, y) <=> On(key, Other(d), y, x)
            /\ x = y \/ On(key, d, x, y) \/ On(key, Other(d), x, y)
            /\ \A z \in S : On(key, d, x, y) /\ On(key, d, y, z) => On(key, d, x, z)
<1> SUFFICES ASSUME NEW d \in Sides, NEW x \in S, NEW y \in S
             PROVE  /\ ~ On(key, d, x, x)
                    /\ On(key, d, x, y) => ~ On(key, d, y, x) /\ ~ On(key, Other(d), x, y)
                    /\ On(key, d, x, y) <=> On(key, Other(d), y, x)
                    /\ x = y \/ On(key, d, x, y) \/ On(key, Other(d), x, y)
                    /\ \A z \in S : On(key, d, x, y) /\ On(key, d, y, z) => On(key, d, x, z)
  OBVIOUS
<1>1. key[x] \in Int /\ key[y] \in Int /\ (key[x] = key[y] => x = y)
      /\ \A z \in S : key[z] \in Int
  BY DEF Keyed
<1> QED
  BY <1>1 DEF Sides, Other, On

\* The blocks between the bounds of x.
Below(key, S, b, x) == {y \in S : Within(key, b, x, y)}

\* A block is below itself, and so are finitely many.
LEMMA BelowFacts ==
  ASSUME NEW key, NEW S, NEW b, Keyed(key, S), Bounded(key, S, b)
  PROVE  \A x \in S : /\ x \in Below(key, S, b, x) /\ IsFiniteSet(Below(key, S, b, x))
                      /\ Cardinality(Below(key, S, b, x)) \in Nat
                      /\ Cardinality(Below(key, S, b, x)) <= Cardinality(S)
                      /\ Cardinality(Below(key, S, b, x)) # 0
<1> SUFFICES ASSUME NEW x \in S
             PROVE  /\ x \in Below(key, S, b, x) /\ IsFiniteSet(Below(key, S, b, x))
                    /\ Cardinality(Below(key, S, b, x)) \in Nat
                    /\ Cardinality(Below(key, S, b, x)) <= Cardinality(S)
                    /\ Cardinality(Below(key, S, b, x)) # 0
  OBVIOUS
<1>1. Below(key, S, b, x) \in SUBSET S /\ x \in Below(key, S, b, x)
  BY DEF Below, Within, Bounded
<1> QED
  BY <1>1, FS_Subset, FS_CardinalityType, FS_EmptySet DEF Keyed

\* Below a child is what is below its parent on its side.
LEMMA KidBelow ==
  ASSUME NEW K, NEW U, NEW key, NEW S, NEW b, NEW root, Tree(K, U, key, S, b, root),
         NEW x \in S, NEW d \in Sides, K[d][x] # NULL
  PROVE  LET c == K[d][x]
         IN  /\ c \in S /\ On(key, d, x, c)
             /\ Below(key, S, b, c) = {y \in Below(key, S, b, x) : On(key, d, x, y)}
             /\ Cardinality(Below(key, S, b, c)) < Cardinality(Below(key, S, b, x))
<1> DEFINE c == K[d][x]
<1>1. Keyed(key, S) /\ Bounded(key, S, b)
  BY DEF Tree
<1>2. c \in S /\ b[d][c] = b[d][x] /\ b[Other(d)][c] = x
  BY DEF Tree, KidOf
<1> HIDE DEF c
<1>3. On(key, d, x, c)
  BY <1>1, <1>2, Order, SidesFacts DEF Bounded, Keyed
<1>4. \A y \in S : Within(key, b, c, y) <=> Within(key, b, x, y) /\ On(key, d, x, y)
  BY <1>1, <1>2, Order, SidesFacts DEF Within, Bounded, Keyed
<1>5. Below(key, S, b, c) = {y \in Below(key, S, b, x) : On(key, d, x, y)}
  BY <1>4 DEF Below
<1>6. x \in Below(key, S, b, x) /\ x \notin Below(key, S, b, c)
  BY <1>1, <1>5, BelowFacts, Order
<1>7. /\ Cardinality(Below(key, S, b, c)) <= Cardinality(Below(key, S, b, x))
      /\ Cardinality(Below(key, S, b, c)) # Cardinality(Below(key, S, b, x))
  <2>1. Below(key, S, b, c) \in SUBSET Below(key, S, b, x)
    BY <1>5
  <2> QED
    BY <1>1, <1>6, <2>1, BelowFacts, FS_Subset
<1>8. Cardinality(Below(key, S, b, c)) \in Nat /\ Cardinality(Below(key, S, b, x)) \in Nat
  BY <1>1, <1>2, BelowFacts
<1>9. Cardinality(Below(key, S, b, c)) < Cardinality(Below(key, S, b, x))
  BY <1>7, <1>8
<1> QED
  BY <1>2, <1>3, <1>5, <1>9 DEF c

\* A set of blocks that has x0 and the children of its own has all between the
\* bounds of x0.
LEMMA Subtree ==
  ASSUME NEW K, NEW U, NEW key, NEW S, NEW b, NEW root, Tree(K, U, key, S, b, root),
         NEW x0 \in S, NEW A \in SUBSET S, x0 \in A,
         \A x \in A, d \in Sides : K[d][x] # NULL => K[d][x] \in A
  PROVE  \A y \in S : Within(key, b, x0, y) => y \in A
<1> SUFFICES ASSUME NEW y \in S, Within(key, b, x0, y), y \notin A
             PROVE  FALSE
  OBVIOUS
<1>1. Keyed(key, S) /\ Bounded(key, S, b) /\ \A x \in S, d \in Sides : KidOf(K, U, key, S, b, x, d)
  BY DEF Tree
<1> DEFINE size(x) == Cardinality(Below(key, S, b, x))
           R == {size(x) : x \in {x \in A : Within(key, b, x, y)}}
<1>2. \A x \in S : size(x) \in Nat
  BY <1>1, BelowFacts
<1> HIDE DEF size
<1>3. PICK x \in A : Within(key, b, x, y) /\ \A z \in A : Within(key, b, z, y) => size(x) <= size(z)
  <2>1. R \in SUBSET Nat /\ R # {}
    BY <1>2
  <2>2. PICK n \in R : \A k \in R : n <= k
    BY <2>1, Least
  <2> QED
    BY <2>2
<1>4. PICK d \in Sides : On(key, d, x, y)
  BY <1>1, Order, SidesFacts
<1>5. K[d][x] # NULL
  BY <1>1, <1>3, <1>4 DEF KidOf, Within, Keyed
<1> DEFINE c == K[d][x]
<1>6. c \in A /\ size(c) < size(x) /\ c \in S /\ Within(key, b, c, y)
  BY <1>3, <1>4, <1>5, KidBelow DEF size, Below
<1> HIDE DEF c
<1>7. size(c) \in Nat /\ size(x) \in Nat /\ size(x) <= size(c)
  BY <1>2, <1>3, <1>6
<1> QED
  BY <1>6, <1>7

\* A set of blocks that has the root and the children of its own has them all.
LEMMA Reached ==
  ASSUME NEW K, NEW U, NEW key, NEW S, NEW b, NEW root, Tree(K, U, key, S, b, root),
         NEW A \in SUBSET S, root \in S => root \in A,
         \A x \in A, d \in Sides : K[d][x] # NULL => K[d][x] \in A
  PROVE  A = S
<1>1. CASE S = {}
  BY <1>1
<1>2. CASE root \in S
  <2>1. \A y \in S : Within(key, b, root, y)
    BY <1>2 DEF Tree, Within, Keyed
  <2> QED
    BY <1>2, <2>1, Subtree
<1> QED
  BY <1>1, <1>2 DEF Tree

\* Every block but the root is a child of its parent.
LEMMA Parents ==
  ASSUME NEW K, NEW U, NEW key, NEW S, NEW b, NEW root, Tree(K, U, key, S, b, root)
  PROVE  \A x \in S : \/ x = root /\ U[x] = NULL
                      \/ x # root /\ U[x] \in S /\ \E d \in Sides : K[d][U[x]] = x
<1> DEFINE A == {x \in S : \/ x = root /\ U[x] = NULL
                           \/ x # root /\ U[x] \in S /\ \E d \in Sides : K[d][U[x]] = x}
<1>1. root \in S => root \in A
  BY DEF Tree, Keyed
<1>2. ASSUME NEW x \in A, NEW d \in Sides, K[d][x] # NULL
      PROVE  K[d][x] \in A
  <2>1. K[d][x] \in S /\ U[K[d][x]] = x
    BY <1>2 DEF Tree, KidOf
  <2> QED
    BY <2>1 DEF Tree, Keyed
<1> HIDE DEF A
<1>3. A \in SUBSET S
  BY DEF A
<1>4. A = S
  BY <1>1, <1>2, <1>3, Reached
<1> QED
  BY <1>4 DEF A

\* The bounds of what is below a block.
LEMMA Nested ==
  ASSUME NEW K, NEW U, NEW key, NEW S, NEW b, NEW root, Tree(K, U, key, S, b, root),
         NEW x \in S, NEW y \in S, Within(key, b, x, y),
         NEW d \in Sides, On(key, d, x, y)
  PROVE  /\ \/ b[Other(d)][y] = x
            \/ b[Other(d)][y] \in S /\ On(key, d, x, b[Other(d)][y])
         /\ \/ b[d][y] = b[d][x]
            \/ b[d][y] \in S /\ Within(key, b, x, b[d][y])
<1> DEFINE Is(z, e) == /\ \/ b[Other(e)][z] = x
                          \/ b[Other(e)][z] \in S /\ On(key, e, x, b[Other(e)][z])
                       /\ \/ b[e][z] = b[e][x]
                          \/ b[e][z] \in S /\ Within(key, b, x, b[e][z])
           A == {z \in S : Within(key, b, x, z) /\ \A e \in Sides : On(key, e, x, z) => Is(z, e)}
<1>0. /\ Keyed(key, S) /\ Bounded(key, S, b)
      /\ \A z \in S, e \in Sides : KidOf(K, U, key, S, b, z, e)
  BY DEF Tree
<1>1. x \in A
  BY <1>0, Order DEF Within, Bounded
<1>2. ASSUME NEW z \in A, NEW s \in Sides, K[s][z] # NULL
      PROVE  K[s][z] \in A
  <2> DEFINE c == K[s][z]
  <2>1. c \in S /\ b[s][c] = b[s][z] /\ b[Other(s)][c] = z
    BY <1>0, <1>2 DEF KidOf
  <2>2. On(key, s, z, c)
    BY <1>0, <2>1, Order, SidesFacts DEF Bounded, Keyed
  <2>3. z \in S /\ Within(key, b, x, z) /\ \A e \in Sides : On(key, e, x, z) => Is(z, e)
    OBVIOUS
  <2> HIDE DEF A, c
  <2>4. CASE z = x
    <3>1. Within(key, b, x, c)
      BY <1>0, <2>1, <2>2, <2>4, Order, SidesFacts DEF Within, Bounded, Keyed
    <3>2. \A e \in Sides : On(key, e, x, c) => e = s
      BY <1>0, <2>1, <2>2, <2>4, Order, SidesFacts
    <3> QED
      BY <2>1, <2>4, <3>1, <3>2 DEF A, c
  <2>5. CASE z # x
    <3>1. PICK e \in Sides : On(key, e, x, z)
      BY <1>0, <2>3, <2>5, Order, SidesFacts
    <3>2. Is(z, e)
      BY <2>3, <3>1
    <3>3. On(key, e, x, c)
      <4>1. CASE s = e
        BY <1>0, <2>1, <2>2, <2>3, <3>1, <4>1, Order
      <4>2. CASE s = Other(e)
        <5>1. b[s][c] \in S /\ On(key, s, c, b[s][c])
          BY <1>0, <2>1, <3>2, <4>2 DEF Bounded, Keyed
        <5>2. On(key, e, b[s][c], c)
          BY <1>0, <2>1, <4>2, <5>1, Order, SidesFacts
        <5> QED
          BY <1>0, <2>1, <3>2, <4>2, <5>1, <5>2, Order
      <4> QED
        BY <4>1, <4>2, SidesFacts
    <3>4. Within(key, b, x, c)
      BY <1>0, <2>1, <2>2, <2>3, <3>1, <3>2, <3>3, Order, SidesFacts DEF Within, Bounded, Keyed
    <3>5. Is(c, e)
      BY <2>1, <2>3, <3>1, <3>2, SidesFacts
    <3>6. \A f \in Sides : On(key, f, x, c) => f = e
      BY <1>0, <2>1, <3>3, Order, SidesFacts
    <3> QED
      BY <2>1, <3>4, <3>5, <3>6 DEF A, c
  <2> QED
    BY <2>4, <2>5
<1> HIDE DEF A
<1>3. A \in SUBSET S
  BY DEF A
<1>4. y \in A
  BY <1>1, <1>2, <1>3, Subtree
<1> QED
  BY <1>4 DEF A

\* A block is below its bounds.
LEMMA Bounds ==
  ASSUME NEW K, NEW U, NEW key, NEW S, NEW b, NEW root, Tree(K, U, key, S, b, root)
  PROVE  \A x \in S, d \in Sides : b[d][x] # NULL => Within(key, b, b[d][x], x)
<1> DEFINE A == {x \in S : \A d \in Sides : b[d][x] # NULL =>
                    \A y \in S : Within(key, b, x, y) => Within(key, b, b[d][x], y)}
<1>0. /\ Keyed(key, S) /\ Bounded(key, S, b)
      /\ \A z \in S, e \in Sides : KidOf(K, U, key, S, b, z, e)
  BY DEF Tree
<1>1. root \in S => root \in A
  BY DEF Tree
<1>2. ASSUME NEW x \in A, NEW s \in Sides, K[s][x] # NULL
      PROVE  K[s][x] \in A
  <2> DEFINE c == K[s][x]
  <2>1. c \in S /\ b[s][c] = b[s][x] /\ b[Other(s)][c] = x /\ x \in S
    BY <1>0, <1>2 DEF KidOf
  <2>2. \A y \in S : Within(key, b, c, y) => Within(key, b, x, y)
    <3> HIDE DEF c
    <3> QED
      BY <1>0, <2>1, Order, SidesFacts DEF Within, Bounded, Keyed
  <2>3. \A d \in Sides : b[d][x] # NULL =>
                    \A y \in S : Within(key, b, x, y) => Within(key, b, b[d][x], y)
    OBVIOUS
  <2>4. \A d \in Sides : b[d][c] # NULL =>
                    \A y \in S : Within(key, b, c, y) => Within(key, b, b[d][c], y)
    <3> HIDE DEF c, A
    <3> QED
      BY <2>1, <2>2, <2>3, SidesFacts
  <2> QED
    BY <2>1, <2>4
<1> HIDE DEF A
<1>3. A \in SUBSET S
  BY DEF A
<1>4. A = S
  BY <1>1, <1>2, <1>3, Reached
<1>5. \A x \in S : Within(key, b, x, x)
  BY <1>0 DEF Within, Bounded
<1> QED
  BY <1>4, <1>5 DEF A

\* A rotation: c, the child of p on side d, takes its place, and p gets c's child on
\* the other side.
Turned(K, U, K2, U2, S, p, d) ==
    LET c == K[d][p]
        e == Other(d)
    IN  /\ \A x \in S, s \in Sides :
              K2[s][x] = IF s = d /\ x = p THEN K[e][c]
                         ELSE IF s = e /\ x = c THEN p
                         ELSE IF K[s][x] = p THEN c ELSE K[s][x]
        /\ \A x \in S : U2[x] = IF x = p THEN c ELSE IF x = c THEN U[p]
                                ELSE IF x = K[e][c] THEN p ELSE U[x]

TurnedBounds(K, b, S, p, d) ==
    LET c == K[d][p]
        e == Other(d)
    IN  [s \in Sides |-> [x \in S |-> IF s = d /\ x = p THEN c
                                      ELSE IF s = e /\ x = c THEN b[e][p] ELSE b[s][x]]]

\* It leaves a tree.
LEMMA TurnedTree ==
  ASSUME NEW K, NEW U, NEW key, NEW S, NEW b, NEW root, Tree(K, U, key, S, b, root),
         NEW p \in S, NEW d \in Sides, K[d][p] # NULL,
         NEW K2, NEW U2, Turned(K, U, K2, U2, S, p, d)
  PROVE  Tree(K2, U2, key, S, TurnedBounds(K, b, S, p, d), IF p = root THEN K[d][p] ELSE root)
<1> DEFINE c == K[d][p]
           e == Other(d)
           i == K[e][c]
           b2 == TurnedBounds(K, b, S, p, d)
<1>0. /\ Keyed(key, S) /\ Bounded(key, S, b)
      /\ \A x \in S, s \in Sides : KidOf(K, U, key, S, b, x, s)
  BY DEF Tree
<1>1. c \in S /\ U[c] = p /\ b[d][c] = b[d][p] /\ b[e][c] = p /\ e \in Sides /\ e # d
  BY <1>0, SidesFacts DEF KidOf
<1>2. On(key, d, p, c) /\ On(key, e, c, p) /\ c # p
  BY <1>0, <1>1, Order, SidesFacts DEF Bounded, Keyed
<1>3. i # NULL => i \in S /\ U[i] = c /\ b[e][i] = p /\ b[d][i] = c /\ i # p /\ i # c
  <2>1. i # NULL => i \in S /\ U[i] = c /\ b[e][i] = p /\ b[d][i] = c
    BY <1>0, <1>1, SidesFacts DEF KidOf
  <2>2. \A x \in S : b[d][x] # x /\ b[e][x] # x
    BY <1>0, <1>1, Order DEF Bounded, Keyed
  <2> QED
    BY <1>1, <2>1, <2>2
<1>4. \A x \in S, s \in Sides :
         b2[s][x] = IF s = d /\ x = p THEN c ELSE IF s = e /\ x = c THEN b[e][p] ELSE b[s][x]
  BY DEF TurnedBounds
<1>5. /\ \A x \in S, s \in Sides :
            K2[s][x] = IF s = d /\ x = p THEN i ELSE IF s = e /\ x = c THEN p
                       ELSE IF K[s][x] = p THEN c ELSE K[s][x]
      /\ \A x \in S : U2[x] = IF x = p THEN c ELSE IF x = c THEN U[p]
                              ELSE IF x = i THEN p ELSE U[x]
  BY DEF Turned
<1>6. \A s \in Sides : s = d \/ s = e
  BY SidesFacts
<1>7. Other(d) = e /\ Other(e) = d /\ NULL \notin S
  BY <1>0, SidesFacts DEF Keyed
<1> HIDE DEF c, e, i, b2
<1>8. Bounded(key, S, b2)
  <2>1. \A x \in S, s \in Sides : b[s][x] # NULL => b[s][x] \in S /\ On(key, s, x, b[s][x])
    BY <1>0 DEF Bounded
  <2>2. b[e][p] # NULL => On(key, e, c, b[e][p])
    BY <1>0, <1>1, <1>2, <2>1, Order
  <2> QED
    BY <1>1, <1>2, <1>4, <2>1, <2>2 DEF Bounded
<1>9. ASSUME NEW x \in S, NEW s \in Sides
      PROVE  KidOf(K2, U2, key, S, b2, x, s)
  <2>1. \/ K[s][x] = NULL /\ \A y \in S : On(key, s, x, y) =>
                                b[s][x] # NULL /\ ~ On(key, s, y, b[s][x])
        \/ /\ K[s][x] \in S /\ U[K[s][x]] = x
           /\ b[s][K[s][x]] = b[s][x] /\ b[Other(s)][K[s][x]] = x
    BY <1>0 DEF KidOf
  <2>2. CASE x = p /\ s = d
    <3>1. CASE i # NULL
      BY <1>1, <1>3, <1>4, <1>5, <1>7, <2>2, <3>1 DEF KidOf
    <3>2. CASE i = NULL
      <4>1. \A y \in S : On(key, e, c, y) => b[e][c] # NULL /\ ~ On(key, e, y, b[e][c])
        BY <1>0, <1>1, <1>7, <3>2 DEF KidOf, i
      <4>2. \A y \in S : On(key, d, p, y) => ~ On(key, d, y, c)
        BY <1>0, <1>1, <1>2, <1>7, <4>1, Order
      <4> QED
        BY <1>1, <1>4, <1>5, <1>7, <2>2, <3>2, <4>2 DEF KidOf
    <3> QED
      BY <3>1, <3>2
  <2>3. CASE x = c /\ s = e
    BY <1>1, <1>2, <1>4, <1>5, <1>7, <2>3 DEF KidOf
  <2>4. CASE ~ (x = p /\ s = d) /\ ~ (x = c /\ s = e)
    <3>1. b2[s][x] = b[s][x]
      BY <1>4, <2>4
    <3>2. CASE K[s][x] = p
      <4>1. U[p] = x /\ b[s][p] = b[s][x] /\ b[Other(s)][p] = x
        BY <1>7, <2>1, <3>2
      <4>2. K2[s][x] = c /\ U2[c] = x
        BY <1>1, <1>2, <1>5, <2>4, <3>2, <4>1
      <4>3. b2[s][c] = b[s][x] /\ b2[Other(s)][c] = x
        BY <1>1, <1>2, <1>4, <1>6, <1>7, <4>1
      <4> QED
        BY <1>1, <3>1, <4>2, <4>3 DEF KidOf
    <3>3. CASE K[s][x] # p /\ K[s][x] # NULL
      <4> DEFINE k == K[s][x]
      <4>1. k \in S /\ U[k] = x /\ b[s][k] = b[s][x] /\ b[Other(s)][k] = x /\ k # p
        BY <2>1, <3>3
      <4>2. k # c
        BY <1>0, <1>1, <1>2, <1>6, <1>7, <2>4, <4>1, Order DEF Bounded
      <4>3. k # i
        BY <1>1, <1>2, <1>3, <1>6, <1>7, <2>4, <4>1 DEF i
      <4> HIDE DEF k
      <4>4. K2[s][x] = k /\ U2[k] = x
        BY <1>5, <2>4, <4>1, <4>2, <4>3 DEF k
      <4>5. b2[s][k] = b[s][k] /\ b2[Other(s)][k] = b[Other(s)][k]
        BY <1>4, <4>1, <4>2, SidesFacts
      <4> QED
        BY <3>1, <4>1, <4>4, <4>5 DEF KidOf
    <3>4. CASE K[s][x] = NULL
      BY <1>5, <1>7, <2>1, <2>4, <3>1, <3>4 DEF KidOf
    <3> QED
      BY <3>2, <3>3, <3>4
  <2> QED
    BY <2>2, <2>3, <2>4
<1>10. LET new == IF p = root THEN c ELSE root
       IN  new \in S /\ U2[new] = NULL /\ \A s \in Sides : b2[s][new] = NULL
  <2>1. root \in S /\ U[root] = NULL /\ \A s \in Sides : b[s][root] = NULL
    BY DEF Tree
  <2>2. CASE p = root
    BY <1>1, <1>2, <1>4, <1>5, <1>6, <2>1, <2>2
  <2>3. CASE p # root
    <3>1. root # c
      BY <1>1, <1>7, <2>1
    <3>2. root # i
      BY <1>1, <1>3, <1>7, <2>1
    <3> QED
      BY <1>4, <1>5, <2>1, <2>3, <3>1, <3>2
  <2> QED
    BY <2>2, <2>3
<1> QED
  BY <1>0, <1>8, <1>9, <1>10 DEF Tree, b2, c

(***************************************************************************)
(* The memory.                                                             *)
(***************************************************************************)

\* Memories of N blocks with data from V.
Memory(N, V) == [kid : [Sides -> [1..N -> 0..N]], u : [1..N -> 0..N], key : [1..N -> Nat],
                 data : [1..N -> V], root : [AllTrees -> 0..N], eltscnt : [AllTrees -> Int],
                 free : 0..N]

\* A function on 1..N is a sequence of that length.
LEMMA Length ==
  ASSUME NEW N \in Nat, NEW X, NEW f \in [1..N -> X]
  PROVE  f \in Seq(X) /\ Len(f) = N
  OBVIOUS

\* A link down that is overwritten.
LEMMA Updated ==
  ASSUME NEW N \in Nat, NEW X, NEW f \in [Sides -> [1..N -> X]], NEW s \in Sides,
         NEW p \in 1..N, NEW c
  PROVE  \A t \in Sides, x \in 1..N :
            [f EXCEPT ![s][p] = c][t][x] = IF t = s /\ x = p THEN c ELSE f[t][x]
  OBVIOUS

\* What two memories have in common, but for blocks in S and the root of q.
Same(m, m2, N, S, q) ==
    /\ \A x \in (1..N) \ S, d \in Sides : m2.kid[d][x] = m.kid[d][x] /\ m2.u[x] = m.u[x]
    /\ m2.key = m.key /\ m2.data = m.data /\ m2.eltscnt = m.eltscnt /\ m2.free = m.free
    /\ \A t \in AllTrees \ {q} : m2.root[t] = m.root[t]

\* c has become the child of p on side d.
Linked(N, V, m, m2, p, d, c) ==
    /\ m2 \in Memory(N, V)
    /\ \A s \in Sides, x \in 1..N : m2.kid[s][x] = IF s = d /\ x = p THEN c ELSE m.kid[s][x]
    /\ \A x \in 1..N : m2.u[x] = IF x = c THEN p ELSE m.u[x]
    /\ m2.key = m.key /\ m2.data = m.data /\ m2.eltscnt = m.eltscnt
    /\ m2.free = m.free /\ m2.root = m.root

\* ... without a link up.
SetKid(m, p, d, c) == [m EXCEPT !.kid[d][p] = c]

\* What that leaves.
KidSet(N, V, m, m2, p, d, c) ==
    /\ m2 \in Memory(N, V)
    /\ \A s \in Sides, x \in 1..N : m2.kid[s][x] = IF s = d /\ x = p THEN c ELSE m.kid[s][x]
    /\ m2.u = m.u /\ m2.key = m.key /\ m2.data = m.data /\ m2.eltscnt = m.eltscnt
    /\ m2.free = m.free /\ m2.root = m.root

\* What setting a link down alone does to the memory.
LEMMA KidFacts ==
  ASSUME NEW N \in Nat, NEW V, NEW m \in Memory(N, V),
         NEW p \in 1..N, NEW d \in Sides, NEW c \in 0..N
  PROVE  KidSet(N, V, m, SetKid(m, p, d, c), p, d, c)
<1> DEFINE m2 == [m EXCEPT !.kid[d][p] = c]
           kid == m.kid
           kid2 == [kid EXCEPT ![d][p] = c]
<1>1. kid \in [Sides -> [1..N -> 0..N]]
  BY DEF Memory
<1>2. /\ m2.kid = kid2 /\ m2.u = m.u /\ m2.key = m.key /\ m2.data = m.data
      /\ m2.eltscnt = m.eltscnt /\ m2.free = m.free /\ m2.root = m.root
      /\ m2 = [m EXCEPT !.kid = kid2]
  BY DEF Memory
<1> HIDE DEF kid, m2
<1>3. kid2 \in [Sides -> [1..N -> 0..N]]
  BY <1>1
<1>4. \A s \in Sides, x \in 1..N : kid2[s][x] = IF s = d /\ x = p THEN c ELSE kid[s][x]
  BY <1>1, Updated
<1> HIDE DEF kid2
<1>5. m2 \in Memory(N, V)
  BY <1>2, <1>3 DEF Memory
<1> QED
  BY <1>2, <1>4, <1>5 DEF kid, m2, KidSet, SetKid

\* What Link does to the memory.
LEMMA LinkFacts ==
  ASSUME NEW N \in Nat, NEW V, NEW m \in Memory(N, V),
         NEW p \in 1..N, NEW d \in Sides, NEW c \in 0..N
  PROVE  Linked(N, V, m, Link(m, p, d, c), p, d, c)
<1> DEFINE linked == [m EXCEPT !.kid[d][p] = c]
           up == [linked EXCEPT !.u[c] = p]
<1>1. /\ linked \in Memory(N, V) /\ linked.kid = [m.kid EXCEPT ![d][p] = c]
      /\ linked.u = m.u /\ linked.key = m.key /\ linked.data = m.data
      /\ linked.eltscnt = m.eltscnt /\ linked.free = m.free /\ linked.root = m.root
  BY DEF Memory
<1>2. \A s \in Sides, x \in 1..N :
         linked.kid[s][x] = IF s = d /\ x = p THEN c ELSE m.kid[s][x]
  <2>1. m.kid \in [Sides -> [1..N -> 0..N]]
    BY DEF Memory
  <2> QED
    BY <1>1, <2>1
<1> HIDE DEF linked
<1>3. CASE c = NULL
  <2>1. Link(m, p, d, c) = linked
    BY <1>3 DEF Link, linked
  <2>2. \A x \in 1..N : x # c
    BY <1>3 DEF NULL
  <2> QED
    BY <1>1, <1>2, <2>1, <2>2 DEF Linked
<1>4. CASE c # NULL
  <2>1. Link(m, p, d, c) = up
    BY <1>4 DEF Link, linked
  <2>2. c \in 1..N /\ p \in 0..N
    BY <1>4 DEF NULL
  <2>3. /\ up \in Memory(N, V) /\ up.kid = linked.kid
        /\ up.u = [linked.u EXCEPT ![c] = p] /\ up.key = linked.key /\ up.data = linked.data
        /\ up.eltscnt = linked.eltscnt /\ up.free = linked.free /\ up.root = linked.root
    BY <1>1, <2>2 DEF Memory
  <2>4. m.u \in [1..N -> 0..N]
    BY DEF Memory
  <2>5. \A x \in 1..N : up.u[x] = IF x = c THEN p ELSE m.u[x]
    BY <1>1, <2>2, <2>3, <2>4
  <2> HIDE DEF up
  <2> QED
    BY <1>1, <1>2, <2>1, <2>3, <2>5 DEF Linked
<1> QED
  BY <1>3, <1>4

\* The tree q, with the blocks S, in a memory.
Holds(m, q, S) == \E b : Tree(m.kid, m.u, m.key, S, b, m.root[q])

\* Some of the blocks 1..N are at most N.
LEMMA AtMost ==
  ASSUME NEW N \in Nat, NEW S \in SUBSET (1..N)
  PROVE  IsFiniteSet(S) /\ Cardinality(S) \in Nat /\ Cardinality(S) <= N
<1>1. IsFiniteSet(1..N) /\ Cardinality(1..N) = N
  BY FS_Interval
<1> QED
  BY <1>1, FS_Subset, FS_CardinalityType

\* What is found is the block with the key.
LEMMA Finds ==
  ASSUME NEW N \in Nat, NEW V, NEW m \in Memory(N, V), NEW q \in AllTrees, NEW k \in Nat,
         NEW S \in SUBSET (1..N), Holds(m, q, S)
  PROVE  \/ Find(m, q, k) \in S /\ m.key[Find(m, q, k)] = k
         \/ Find(m, q, k) = NULL /\ \A x \in S : m.key[x] # k
<1>1. PICK b : Tree(m.kid, m.u, m.key, S, b, m.root[q])
  BY DEF Holds
<1>2. /\ Keyed(m.key, S) /\ Bounded(m.key, S, b)
      /\ \A x \in S, s \in Sides : KidOf(m.kid, m.u, m.key, S, b, x, s)
  BY <1>1 DEF Tree
<1> DEFINE rd(n) == IF n = NULL \/ m.key[n] = k THEN n
                    ELSE m.kid[IF k < m.key[n] THEN "l" ELSE "r"][n]
           rounds == CHOOSE f : f = [i \in 0..N |-> IF i = 0 THEN m.root[q] ELSE rd(f[i - 1])]
           r == [n \in 0..N |-> rd(n)]
           size(n) == Cardinality(Below(m.key, S, b, n))
           Ended(n) == \/ n \in S /\ m.key[n] = k
                       \/ n = NULL /\ \A x \in S : m.key[x] # k
           Is(n, i) == \/ Ended(n)
                       \/ /\ n \in S /\ \A x \in S : m.key[x] = k => Within(m.key, b, n, x)
                          /\ size(n) <= N - i
           W == [i \in 0..N |-> {n \in 0..N : Is(n, i)}]
<1>3. Len(m.key) = N /\ m.root[q] \in 0..N
  BY Length DEF Memory
<1>4. Find(m, q, k) = rounds[N]
  BY <1>3 DEF Find, Loop
<1>5. \A n \in S : size(n) \in Nat /\ size(n) <= N /\ size(n) # 0
  BY <1>2, BelowFacts, AtMost
<1> HIDE DEF size
<1>6. m.root[q] \in W[0]
  <2>1. CASE S = {} /\ m.root[q] = NULL
    BY <1>3, <2>1
  <2>2. CASE m.root[q] \in S /\ \A d \in Sides : b[d][m.root[q]] = NULL
    <3>1. \A x \in S : Within(m.key, b, m.root[q], x)
      BY <2>2 DEF Within
    <3>2. size(m.root[q]) <= N - 0 /\ m.root[q] \in 0..N /\ 0 \in 0..N
      BY <1>3, <1>5, <2>2
    <3>3. Is(m.root[q], 0)
      BY <2>2, <3>1, <3>2
    <3> HIDE DEF Is
    <3> QED
      BY <3>2, <3>3
  <2> QED
    BY <1>1, <2>1, <2>2 DEF Tree
<1>7. ASSUME NEW i \in 1..N, NEW n \in W[i - 1]
      PROVE  r[n] \in W[i]
  <2>1. n \in 0..N /\ Is(n, i - 1)
    OBVIOUS
  <2>2. CASE Ended(n)
    <3>1. r[n] = n
      BY <2>1, <2>2
    <3>2. Is(n, i)
      BY <2>2
    <3> QED
      BY <2>1, <3>1, <3>2
  <2>3. CASE ~ Ended(n)
    <3>1. n \in S /\ m.key[n] # k /\ size(n) <= N - (i - 1)
          /\ \A x \in S : m.key[x] = k => Within(m.key, b, n, x)
      BY <2>1, <2>3
    <3> DEFINE d == IF k < m.key[n] THEN "l" ELSE "r"
               c == m.kid[d][n]
    <3>2. d \in Sides /\ \A x \in S : m.key[x] = k => On(m.key, d, n, x)
      BY <1>2, <3>1 DEF Sides, On, Keyed
    <3>3. r[n] = c /\ c \in 0..N
      <4>1. n \in 1..N /\ n # NULL /\ m.kid \in [Sides -> [1..N -> 0..N]]
        BY <1>2, <3>1 DEF Keyed, Memory
      <4>2. rd(n) = c
        BY <3>1, <4>1
      <4> HIDE DEF rd
      <4>3. r[n] = rd(n)
        BY <2>1
      <4> HIDE DEF d
      <4>4. m.kid[d][n] \in 0..N
        BY <3>2, <4>1
      <4> QED
        BY <4>2, <4>3, <4>4
    <3> HIDE DEF d
    <3>4. CASE c = NULL
      <4>1. \A x \in S : m.key[x] # k
        BY <1>2, <3>1, <3>2, <3>4 DEF KidOf, Keyed, Within
      <4>2. Ended(c)
        BY <3>4, <4>1
      <4> QED
        BY <3>3, <4>2
    <3>5. CASE c # NULL
      <4>0. c \in S /\ size(c) < size(n)
            /\ Below(m.key, S, b, c) = {y \in Below(m.key, S, b, n) : On(m.key, d, n, y)}
        BY <1>1, <3>1, <3>2, <3>5, KidBelow DEF size
      <4>1. c \in S /\ size(c) < size(n)
            /\ \A x \in S : m.key[x] = k => Within(m.key, b, c, x)
        BY <3>1, <3>2, <4>0 DEF Below
      <4>2. size(c) <= N - i
        <5>1. size(c) \in Nat /\ size(n) \in Nat
          BY <1>5, <3>1, <4>1
        <5> HIDE DEF c
        <5> QED
          BY <3>1, <4>1, <5>1
      <4> QED
        BY <3>3, <4>1, <4>2
    <3> QED
      BY <3>4, <3>5
  <2> QED
    BY <2>2, <2>3
<1>8. \A n \in 0..N : r[n] = rd(n)
  OBVIOUS
<1>9. \A n \in W[N] : Ended(n)
  <2> SUFFICES ASSUME NEW n \in S, size(n) <= N - N PROVE FALSE
    OBVIOUS
  <2> QED
    BY <1>5
<1> DEFINE X == 0..N
           start == m.root[q]
<1>10. W \in [0..N -> SUBSET X]
  OBVIOUS
<1> HIDE DEF Is, rd, W, r, X, start
<1>11. Steps(N, X, W, start, r)
  BY <1>6, <1>7, <1>10 DEF Steps, start
<1>12. \A n \in X : r[n] = rd(n)
  BY <1>8 DEF X
<1>13. PICK f : Run(f, N, X, start, r)
  BY <1>11, Rounds
<1>14. f = [i \in 0..N |-> IF i = 0 THEN start ELSE rd(f[i - 1])]
  BY <1>12, <1>13 DEF Run
<1>15. rounds = [i \in 0..N |-> IF i = 0 THEN start ELSE rd(rounds[i - 1])]
  BY <1>14 DEF start
<1> HIDE DEF rounds
<1>16. Follows(rounds, N, X, start, r)
  BY <1>12, <1>15 DEF Follows
<1>17. rounds[N] \in W[N]
  BY <1>11, <1>16, Rounds
<1> QED
  BY <1>4, <1>9, <1>17

(***************************************************************************)
(* _splay: the block n is turned up to the root.                           *)
(***************************************************************************)

\* up, on side d of upup, has taken its place.
Rotated(N, V, m, m2, q, up, upup, d) ==
    /\ m2 \in Memory(N, V)
    /\ \A s \in Sides, x \in 1..N :
          m2.kid[s][x] = IF s = d /\ x = upup THEN m.kid[Other(d)][up]
                         ELSE IF s = Other(d) /\ x = up THEN upup
                         ELSE IF x = m.u[upup] /\ m.kid[s][x] = upup THEN up
                         ELSE m.kid[s][x]
    /\ \A x \in 1..N : m2.u[x] = IF x = up THEN m.u[upup] ELSE IF x = upup THEN up
                                 ELSE IF x = m.kid[Other(d)][up] THEN upup ELSE m.u[x]
    /\ m2.key = m.key /\ m2.data = m.data /\ m2.eltscnt = m.eltscnt
    /\ m2.free = m.free /\ \A t \in AllTrees \ {q} : m2.root[t] = m.root[t]

\* What Rotate does to the memory.
LEMMA RotateFacts ==
  ASSUME NEW N \in Nat, NEW V, NEW m \in Memory(N, V), NEW q \in AllTrees,
         NEW up \in 1..N, NEW upup \in 1..N, up # upup, NEW d \in Sides,
         m.u[upup] # up, m.u[upup] # upup,
         m.u[upup] # NULL => \E s \in Sides : /\ m.kid[s][m.u[upup]] = upup
                                              /\ m.kid[Other(s)][m.u[upup]] # upup
  PROVE  Rotated(N, V, m, Rotate(m, q, up, upup, d), q, up, upup, d)
<1> DEFINE e == Other(d)
           i == m.kid[e][up]
           upupup == m.u[upup]
           first == Link(m, upup, d, i)
           turned == Link(first, up, e, upup)
           side == IF turned.kid["l"][upupup] = upup THEN "l" ELSE "r"
           below == IF upupup = NULL THEN [turned EXCEPT !.root[q] = up]
                                     ELSE [turned EXCEPT !.kid[side][upupup] = up]
           m2 == [below EXCEPT !.u[up] = upupup]
<1>1. Rotate(m, q, up, upup, d) = m2
  BY DEF Rotate
<1>2. /\ m.kid \in [Sides -> [1..N -> 0..N]] /\ m.u \in [1..N -> 0..N]
      /\ e \in Sides /\ e # d /\ \A s \in Sides : s = d \/ s = e
      /\ upup \in 0..N /\ up \in 0..N /\ i \in 0..N /\ upupup \in 0..N
  <2>1. m.kid \in [Sides -> [1..N -> 0..N]] /\ m.u \in [1..N -> 0..N]
    BY DEF Memory
  <2>2. e \in Sides /\ e # d /\ \A s \in Sides : s = d \/ s = e
    BY SidesFacts
  <2>3. m.kid[e] \in [1..N -> 0..N]
    BY <2>1, <2>2
  <2>4. i \in 0..N
    BY <2>3
  <2>5. upupup \in 0..N
    BY <2>1
  <2>6. upup \in 0..N /\ up \in 0..N
    OBVIOUS
  <2> QED
    BY <2>1, <2>2, <2>4, <2>5, <2>6
<1> HIDE DEF e, i, upupup, first
<1>3. /\ first \in Memory(N, V)
      /\ \A s \in Sides, x \in 1..N :
            first.kid[s][x] = IF s = d /\ x = upup THEN i ELSE m.kid[s][x]
      /\ \A x \in 1..N : first.u[x] = IF x = i THEN upup ELSE m.u[x]
      /\ first.key = m.key /\ first.data = m.data /\ first.eltscnt = m.eltscnt
      /\ first.free = m.free /\ first.root = m.root
  <2>1. Linked(N, V, m, first, upup, d, i)
    BY <1>2, LinkFacts DEF first
  <2> QED
    BY <2>1 DEF Linked
<1> HIDE DEF turned
<1>4. /\ turned \in Memory(N, V)
      /\ \A s \in Sides, x \in 1..N :
            turned.kid[s][x] = IF s = e /\ x = up THEN upup ELSE first.kid[s][x]
      /\ \A x \in 1..N : turned.u[x] = IF x = upup THEN up ELSE first.u[x]
      /\ turned.key = first.key /\ turned.data = first.data /\ turned.eltscnt = first.eltscnt
      /\ turned.free = first.free /\ turned.root = first.root
  <2>1. Linked(N, V, first, turned, up, e, upup)
    BY <1>2, <1>3, LinkFacts DEF turned
  <2> QED
    BY <2>1 DEF Linked
<1>5. /\ below \in Memory(N, V) /\ below.u = turned.u
      /\ \A s \in Sides, x \in 1..N :
            below.kid[s][x] = IF x = upupup /\ m.kid[s][x] = upup THEN up ELSE turned.kid[s][x]
      /\ below.key = m.key /\ below.data = m.data /\ below.eltscnt = m.eltscnt
      /\ below.free = m.free /\ \A t \in AllTrees \ {q} : below.root[t] = m.root[t]
  <2>1. turned.kid \in [Sides -> [1..N -> 0..N]] /\ turned.root \in [AllTrees -> 0..N]
    BY <1>4 DEF Memory
  <2>2. CASE upupup = NULL
    <3>1. below = [turned EXCEPT !.root[q] = up]
      BY <2>2
    <3>2. /\ below \in Memory(N, V) /\ below.u = turned.u /\ below.kid = turned.kid
          /\ below.root = [turned.root EXCEPT ![q] = up]
          /\ below.key = turned.key /\ below.data = turned.data
          /\ below.eltscnt = turned.eltscnt /\ below.free = turned.free
      BY <1>2, <1>4, <3>1 DEF Memory
    <3>3. \A x \in 1..N : x # upupup
      BY <2>2 DEF NULL
    <3>4. \A t \in AllTrees \ {q} : below.root[t] = m.root[t]
      BY <1>3, <1>4, <2>1, <3>2
    <3> HIDE DEF below
    <3> QED
      BY <1>3, <1>4, <3>2, <3>3, <3>4
  <2>3. CASE upupup # NULL
    <3>1. upupup \in 1..N
      BY <1>2, <2>3 DEF NULL
    <3>2. PICK s \in Sides : m.kid[s][upupup] = upup /\ m.kid[Other(s)][upupup] # upup
      BY <2>3 DEF upupup
    <3>3. \A t \in Sides : turned.kid[t][upupup] = m.kid[t][upupup]
      BY <1>3, <1>4, <3>1 DEF upupup
    <3>4. side = s
      BY <3>2, <3>3, SidesFacts DEF Sides
    <3> HIDE DEF side
    <3>5. below = [turned EXCEPT !.kid[side][upupup] = up]
      BY <2>3
    <3>6. /\ below \in Memory(N, V) /\ below.u = turned.u /\ below.root = turned.root
          /\ below.kid = [turned.kid EXCEPT ![side][upupup] = up]
          /\ below.key = turned.key /\ below.data = turned.data
          /\ below.eltscnt = turned.eltscnt /\ below.free = turned.free
      BY <1>2, <1>4, <3>1, <3>4, <3>5 DEF Memory
    <3> HIDE DEF below
    <3>7. \A t \in Sides, x \in 1..N :
            below.kid[t][x] = IF t = s /\ x = upupup THEN up ELSE turned.kid[t][x]
      <4> DEFINE kid == turned.kid
      <4>1. kid \in [Sides -> [1..N -> 0..N]] /\ below.kid = [kid EXCEPT ![s][upupup] = up]
        BY <2>1, <3>4, <3>6
      <4> HIDE DEF kid
      <4>2. \A t \in Sides, x \in 1..N :
               [kid EXCEPT ![s][upupup] = up][t][x] = IF t = s /\ x = upupup THEN up ELSE kid[t][x]
        BY <3>1, <4>1, Updated
      <4> QED
        BY <4>1, <4>2 DEF kid
    <3>8. \A t \in Sides : m.kid[t][upupup] = upup <=> t = s
      BY <3>2, SidesFacts
    <3> QED
      BY <1>3, <1>4, <3>6, <3>7, <3>8
  <2> QED
    BY <2>2, <2>3
<1> HIDE DEF below
<1>6. /\ m2 \in Memory(N, V) /\ m2.kid = below.kid /\ m2.u = [below.u EXCEPT ![up] = upupup]
      /\ m2.key = m.key /\ m2.data = m.data /\ m2.eltscnt = m.eltscnt
      /\ m2.free = m.free /\ m2.root = below.root
  BY <1>2, <1>5 DEF Memory
<1>7. \A x \in 1..N : m2.u[x] = IF x = up THEN upupup ELSE below.u[x]
  <2>1. below.u \in [1..N -> 0..N]
    BY <1>5 DEF Memory
  <2> QED
    BY <1>2, <1>6, <2>1
<1>8. \A s \in Sides, x \in 1..N :
         m2.kid[s][x] = IF s = d /\ x = upup THEN i
                        ELSE IF s = e /\ x = up THEN upup
                        ELSE IF x = upupup /\ m.kid[s][x] = upup THEN up
                        ELSE m.kid[s][x]
  <2>1. upupup # up /\ upupup # upup
    BY DEF upupup
  <2> QED
    BY <1>3, <1>4, <1>5, <1>6, <2>1
<1>9. \A x \in 1..N : m2.u[x] = IF x = up THEN upupup ELSE IF x = upup THEN up
                                ELSE IF x = i THEN upup ELSE m.u[x]
  BY <1>3, <1>4, <1>5, <1>7
<1> HIDE DEF m2
<1> QED
  BY <1>1, <1>5, <1>6, <1>8, <1>9 DEF e, i, upupup, Rotated

\* There is more below a parent.
Sized(K, U, key, S, b) ==
    /\ NULL \notin S
    /\ \A x \in S : Cardinality(Below(key, S, b, x)) \in Nat
    /\ \A x \in S : U[x] # NULL =>
          /\ U[x] \in S
          /\ Cardinality(Below(key, S, b, x)) < Cardinality(Below(key, S, b, U[x]))
    /\ \A x \in S, d \in Sides : K[d][x] # NULL => K[d][x] \in S /\ U[K[d][x]] = x

\* It is so in a tree.
LEMMA Sizes ==
  ASSUME NEW K, NEW U, NEW key, NEW S, NEW b, NEW root, Tree(K, U, key, S, b, root)
  PROVE  Sized(K, U, key, S, b)
<1>1. \A x \in S : Cardinality(Below(key, S, b, x)) \in Nat
  BY BelowFacts DEF Tree
<1>2. ASSUME NEW x \in S, U[x] # NULL
      PROVE  /\ U[x] \in S
             /\ Cardinality(Below(key, S, b, x)) < Cardinality(Below(key, S, b, U[x]))
  <2>1. PICK d \in Sides : U[x] \in S /\ K[d][U[x]] = x
    BY <1>2, Parents
  <2>2. K[d][U[x]] # NULL
    BY <2>1 DEF Tree, Keyed
  <2> QED
    BY <2>1, <2>2, KidBelow
<1>3. \A x \in S, d \in Sides : K[d][x] # NULL => K[d][x] \in S /\ U[K[d][x]] = x
  BY DEF Tree, KidOf
<1> QED
  BY <1>1, <1>2, <1>3 DEF Sized, Tree, Keyed

\* The tree that _splay's loop turns around: a memory m with the block n, not linked
\* yet, on side h of up, and with the trees top below it.
Virtual(K, U, m, S, n, h, up, top) ==
    /\ \A x \in S \ {n}, s \in Sides : K[s][x] = IF x = up /\ s = h THEN n ELSE m.kid[s][x]
    /\ \A s \in Sides : K[s][n] = top[s]
    /\ U[n] = up
    /\ \A x \in S \ {n} : U[x] = IF \E s \in Sides : top[s] = x THEN n ELSE m.u[x]

\* The links of a tree that is turned.
TurnedK(K, S, p, d) ==
    [s \in Sides |-> [x \in S |-> IF s = d /\ x = p THEN K[Other(d)][K[d][p]]
                                  ELSE IF s = Other(d) /\ x = K[d][p] THEN p
                                  ELSE IF K[s][x] = p THEN K[d][p] ELSE K[s][x]]]

\* Its links up.
TurnedU(K, U, S, p, d) ==
    [x \in S |-> IF x = p THEN K[d][p] ELSE IF x = K[d][p] THEN U[p]
                 ELSE IF x = K[Other(d)][K[d][p]] THEN p ELSE U[x]]

\* They are the links of the tree that has been turned.
LEMMA TurnedFacts ==
  ASSUME NEW K, NEW U, NEW S, NEW p, NEW d
  PROVE  Turned(K, U, TurnedK(K, S, p, d), TurnedU(K, U, S, p, d), S, p, d)
  BY DEF Turned, TurnedK, TurnedU

\* What is above the block.
Hanging(K, U, m, S, n, h, up, top) ==
    /\ up \in S /\ up # n /\ U[up] = m.u[up] /\ K[h][up] = n
    /\ K[Other(h)][up] = m.kid[Other(h)][up] /\ K[Other(h)][up] # n
    /\ \A s \in Sides : top[s] # up /\ top[s] # n
    /\ \A x \in S : U[up] = x => /\ x # n /\ x # up /\ U[x] = m.u[x]
                                 /\ U[x] # n /\ U[x] # up /\ U[x] # x
                                 /\ \A s \in Sides : K[s][x] = m.kid[s][x] /\ top[s] # x

\* They are linked as in the memory.
LEMMA VirtualFacts ==
  ASSUME NEW K, NEW U, NEW key, NEW S, NEW b, NEW root, Tree(K, U, key, S, b, root),
         NEW m, NEW n \in S, NEW h \in Sides, NEW up, up # NULL, NEW top,
         Virtual(K, U, m, S, n, h, up, top)
  PROVE  Hanging(K, U, m, S, n, h, up, top)
<1> DEFINE size(x) == Cardinality(Below(key, S, b, x))
<1>1. /\ \A x \in S : size(x) \in Nat
      /\ \A x \in S : U[x] # NULL => U[x] \in S /\ size(x) < size(U[x])
      /\ \A x \in S, s \in Sides : K[s][x] # NULL => K[s][x] \in S /\ U[K[s][x]] = x
  BY Sizes DEF Sized
<1>2. NULL \notin S /\ h \in Sides /\ Other(h) \in Sides /\ Other(h) # h
  BY SidesFacts DEF Tree, Keyed
<1> HIDE DEF size
<1>3. U[n] = up /\ \A s \in Sides : K[s][n] = top[s]
  BY DEF Virtual
<1>4. up \in S /\ size(n) < size(up) /\ up # n
  BY <1>1, <1>3
<1>5. \A s \in Sides : top[s] # NULL => top[s] \in S /\ U[top[s]] = n /\ size(top[s]) < size(n)
  BY <1>1, <1>2, <1>3
<1>6. \A s \in Sides : top[s] # up /\ top[s] # n
  BY <1>1, <1>2, <1>4, <1>5
<1>7. U[up] = m.u[up]
  BY <1>4, <1>6 DEF Virtual
<1>8. K[h][up] = n /\ K[Other(h)][up] = m.kid[Other(h)][up]
  BY <1>2, <1>4 DEF Virtual
<1>9. K[Other(h)][up] # n
  BY <1>2, <1>4, <1>8, Order, SidesFacts DEF Tree, KidOf, Bounded
<1>10. ASSUME NEW x \in S, U[up] = x
       PROVE  /\ x # n /\ x # up /\ U[x] = m.u[x]
              /\ U[x] # n /\ U[x] # up /\ U[x] # x
              /\ \A s \in Sides : K[s][x] = m.kid[s][x] /\ top[s] # x
  <2>1. size(up) < size(x) /\ (U[x] # NULL => size(x) < size(U[x]) /\ U[x] \in S)
    BY <1>1, <1>2, <1>4, <1>10
  <2>2. size(n) < size(x)
    BY <1>1, <1>4, <2>1
  <2>3. x # n /\ x # up
    BY <1>1, <1>4, <2>1, <2>2
  <2>4. \A s \in Sides : top[s] # x
    BY <1>1, <1>5, <2>2, <1>2
  <2>5. U[x] = m.u[x] /\ \A s \in Sides : K[s][x] = m.kid[s][x]
    BY <2>3, <2>4 DEF Virtual
  <2>6. U[x] # n /\ U[x] # up /\ U[x] # x
    BY <1>1, <1>2, <1>4, <2>1, <2>2
  <2> QED
    BY <2>3, <2>4, <2>5, <2>6
<1> QED
  BY <1>4, <1>6, <1>7, <1>8, <1>9, <1>10 DEF Hanging

\* A rotation above the block is one of the whole tree.
TurnedAbove(K, U, K2, U2, N, V, m, m2, q, S, n, d, up, upup, top) ==
    /\ m2 \in Memory(N, V) /\ Same(m, m2, N, S, q) /\ m2.u[up] = m.u[upup]
    /\ K[d][upup] = up
    /\ Virtual(K2, U2, m2, S, n, d, up, top)

\* What Rotate does above the block.
LEMMA VirtualRotated ==
  ASSUME NEW N \in Nat, NEW V, NEW m \in Memory(N, V), NEW q \in AllTrees,
         NEW S \in SUBSET (1..N), NEW K, NEW U, NEW key, NEW b, NEW root,
         Tree(K, U, key, S, b, root), NEW n \in S, NEW d \in Sides, NEW up, up # NULL, NEW top,
         Virtual(K, U, m, S, n, d, up, top),
         NEW upup \in S, upup = m.u[up], m.kid[d][upup] = up
  PROVE  TurnedAbove(K, U, TurnedK(K, S, upup, d), TurnedU(K, U, S, upup, d), N, V, m,
                     Rotate(m, q, up, upup, d), q, S, n, d, up, upup, top)
<1> DEFINE e == Other(d)
           i == m.kid[e][up]
           m2 == Rotate(m, q, up, upup, d)
           K2 == TurnedK(K, S, upup, d)
           U2 == TurnedU(K, U, S, upup, d)
<1>1. /\ up \in S /\ up # n /\ U[up] = upup /\ K[d][up] = n
      /\ K[e][up] = i /\ i # n
      /\ \A s \in Sides : top[s] # up /\ top[s] # n /\ top[s] # upup
      /\ upup # n /\ upup # up /\ U[upup] = m.u[upup] /\ m.u[upup] # n
      /\ m.u[upup] # up /\ m.u[upup] # upup
      /\ \A s \in Sides : K[s][upup] = m.kid[s][upup]
  <2>1. Hanging(K, U, m, S, n, d, up, top)
    BY VirtualFacts
  <2> QED
    BY <2>1 DEF Hanging
<1>2. K[d][upup] = up
  BY <1>1
<1>3. /\ \A x \in S, s \in Sides : K[s][x] # NULL => K[s][x] \in S /\ U[K[s][x]] = x
      /\ m.u[upup] # NULL => m.u[upup] \in S
      /\ NULL \notin S
  <2>1. Sized(K, U, key, S, b)
    BY Sizes
  <2> QED
    BY <1>1, <2>1 DEF Sized
<1>4. m.u[upup] # NULL => \E s \in Sides : /\ m.kid[s][m.u[upup]] = upup
                                           /\ m.kid[Other(s)][m.u[upup]] # upup
  <2> SUFFICES ASSUME m.u[upup] # NULL
               PROVE  \E s \in Sides : /\ m.kid[s][m.u[upup]] = upup
                                       /\ m.kid[Other(s)][m.u[upup]] # upup
    OBVIOUS
  <2>1. m.u[upup] \in S /\ m.u[upup] # n /\ m.u[upup] # up
    BY <1>1, <1>3
  <2>2. PICK s \in Sides : K[s][m.u[upup]] = upup
    BY <1>1, <2>1, <1>3, Parents
  <2>3. K[Other(s)][m.u[upup]] # upup
    <3>1. Keyed(key, S) /\ Bounded(key, S, b)
      BY DEF Tree
    <3>2. \A t \in Sides : KidOf(K, U, key, S, b, m.u[upup], t)
      BY <2>1 DEF Tree
    <3>3. b[Other(s)][upup] = m.u[upup] /\ (K[Other(s)][m.u[upup]] = upup => b[s][upup] = m.u[upup])
      BY <2>2, <3>2, <1>3, SidesFacts DEF KidOf
    <3> QED
      BY <2>1, <3>1, <3>3, <1>3, Order, SidesFacts DEF Bounded
  <2>4. \A t \in Sides : K[t][m.u[upup]] = m.kid[t][m.u[upup]]
    BY <2>1 DEF Virtual
  <2> QED
    BY <2>2, <2>3, <2>4, SidesFacts
<1>5. /\ m2 \in Memory(N, V)
      /\ \A s \in Sides, x \in 1..N :
            m2.kid[s][x] = IF s = d /\ x = upup THEN i
                           ELSE IF s = e /\ x = up THEN upup
                           ELSE IF x = m.u[upup] /\ m.kid[s][x] = upup THEN up
                           ELSE m.kid[s][x]
      /\ \A x \in 1..N : m2.u[x] = IF x = up THEN m.u[upup] ELSE IF x = upup THEN up
                                   ELSE IF x = i THEN upup ELSE m.u[x]
      /\ m2.key = m.key /\ m2.data = m.data /\ m2.eltscnt = m.eltscnt
      /\ m2.free = m.free /\ \A t \in AllTrees \ {q} : m2.root[t] = m.root[t]
  <2>1. up \in 1..N /\ upup \in 1..N
    BY <1>1
  <2>2. Rotated(N, V, m, m2, q, up, upup, d)
    BY <1>1, <1>4, <2>1, RotateFacts
  <2> HIDE DEF m2
  <2> QED
    BY <2>2 DEF Rotated
<1>6. e \in Sides /\ e # d /\ \A s \in Sides : s = d \/ s = e
  BY SidesFacts
<1> HIDE DEF e, i, m2
<1>7. Same(m, m2, N, S, q)
  <2>1. ASSUME NEW x \in (1..N) \ S, NEW s \in Sides
        PROVE  m2.kid[s][x] = m.kid[s][x] /\ m2.u[x] = m.u[x]
    <3>0. x # NULL /\ x \notin S /\ (i = NULL \/ i \in S)
      <4>1. x # NULL /\ x \notin S
        BY DEF NULL
      <4>2. K[e][up] # NULL => K[e][up] \in S
        BY <1>1, <1>3, <1>6
      <4> QED
        BY <1>1, <4>1, <4>2
    <3>1. x # up /\ x # upup /\ x # i
      BY <1>1, <3>0
    <3>2. x # m.u[upup]
      BY <1>3, <2>1 DEF NULL
    <3> QED
      BY <1>5, <3>1, <3>2
  <2> QED
    BY <1>5, <2>1 DEF Same
<1>8. /\ \A s \in Sides, x \in S :
            K2[s][x] = IF s = d /\ x = upup THEN i ELSE IF s = e /\ x = up THEN upup
                       ELSE IF K[s][x] = upup THEN up ELSE K[s][x]
      /\ \A x \in S : U2[x] = IF x = upup THEN up ELSE IF x = up THEN U[upup]
                              ELSE IF x = i THEN upup ELSE U[x]
  BY <1>1, <1>2 DEF TurnedK, TurnedU, e
<1> HIDE DEF K2, U2
<1>9. Virtual(K2, U2, m2, S, n, d, up, top)
  <2>1. ASSUME NEW x \in S \ {n}, NEW s \in Sides
        PROVE  K2[s][x] = IF x = up /\ s = d THEN n ELSE m2.kid[s][x]
    <3>1. K[s][x] = IF x = up /\ s = d THEN n ELSE m.kid[s][x]
      BY DEF Virtual
    <3>2. K[s][x] = upup => x = m.u[upup]
      <4>1. x \in S /\ upup # NULL
        BY <1>3
      <4>2. K[s][x] # NULL => U[K[s][x]] = x
        BY <1>3, <4>1
      <4> QED
        BY <1>1, <4>1, <4>2
    <3> QED
      BY <1>1, <1>5, <1>6, <1>8, <3>1, <3>2
  <2>2. ASSUME NEW s \in Sides
        PROVE  K2[s][n] = top[s]
    <3>1. K[s][n] = top[s] /\ top[s] # upup
      BY <1>1 DEF Virtual
    <3> QED
      BY <1>1, <1>8, <3>1
  <2>3. U2[n] = up
    BY <1>1, <1>8 DEF Virtual
  <2>4. ASSUME NEW x \in S \ {n}
        PROVE  U2[x] = IF \E s \in Sides : top[s] = x THEN n ELSE m2.u[x]
    <3>1. U[x] = IF \E s \in Sides : top[s] = x THEN n ELSE m.u[x]
      BY DEF Virtual
    <3>2. \A s \in Sides : top[s] = i /\ i \in S => U[i] = n
      BY <1>1 DEF Virtual
    <3>3. i \in S => U[i] = up
      BY <1>1, <1>3, <1>6
    <3> QED
      BY <1>1, <1>5, <1>8, <3>1, <3>2, <3>3
  <2> QED
    BY <2>1, <2>2, <2>3, <2>4 DEF Virtual
<1>10. m2.u[up] = m.u[upup]
  BY <1>1, <1>5
<1> QED
  BY <1>2, <1>5, <1>7, <1>9, <1>10 DEF m2, K2, U2, TurnedAbove

\* A tree is what its own blocks say.
LEMMA Agree ==
  ASSUME NEW K, NEW U, NEW key, NEW S, NEW b, NEW root, Tree(K, U, key, S, b, root),
         NEW K2, NEW U2, NEW key2, \A x \in S : U2[x] = U[x] /\ key2[x] = key[x],
         \A x \in S, d \in Sides : K2[d][x] = K[d][x]
  PROVE  Tree(K2, U2, key2, S, b, root)
<1>1. Keyed(key2, S)
  BY DEF Tree, Keyed
<1>2. \A d \in Sides, x, y \in S : On(key2, d, x, y) <=> On(key, d, x, y)
  BY DEF On
<1>3. Bounded(key2, S, b)
  BY <1>2 DEF Tree, Bounded
<1>4. ASSUME NEW x \in S, NEW d \in Sides
      PROVE  KidOf(K2, U2, key2, S, b, x, d)
  <2>1. KidOf(K, U, key, S, b, x, d) /\ Bounded(key, S, b)
    BY DEF Tree
  <2> QED
    BY <1>2, <2>1 DEF KidOf, Bounded
<1>5. \/ S = {} /\ root = NULL
      \/ root \in S /\ U2[root] = NULL /\ \A d \in Sides : b[d][root] = NULL
  BY DEF Tree
<1> QED
  BY <1>1, <1>3, <1>4, <1>5 DEF Tree

\* A block has one place.
LEMMA KidsApart ==
  ASSUME NEW K, NEW U, NEW key, NEW S, NEW b, NEW root, Tree(K, U, key, S, b, root),
         NEW x \in S, NEW y \in S, NEW s \in Sides, NEW t \in Sides,
         K[s][x] # NULL, K[t][y] = K[s][x]
  PROVE  x = y /\ s = t
<1>1. /\ KidOf(K, U, key, S, b, x, s) /\ KidOf(K, U, key, S, b, y, t)
      /\ Keyed(key, S) /\ Bounded(key, S, b)
  BY DEF Tree
<1>2. x = y
  BY <1>1 DEF KidOf
<1>3. s = t
  <2> SUFFICES ASSUME s = Other(t)
               PROVE  FALSE
    BY SidesFacts
  <2>1. b[t][K[s][x]] = x /\ b[s][K[s][x]] = x /\ K[s][x] \in S
    BY <1>1, <1>2, SidesFacts DEF KidOf
  <2> QED
    BY <1>1, <2>1, Order, SidesFacts DEF Bounded, Keyed
<1> QED
  BY <1>2, <1>3

\* The block takes the place of the one above it, which goes to the top on the other
\* side.
Moved(K, U, key, S, b, K2, U2, b2, m, m2, q, N, V, n, d, up, h2, top2) ==
    /\ m2 \in Memory(N, V) /\ Same(m, m2, N, S, q)
    /\ K2 = TurnedK(K, S, up, d) /\ U2 = TurnedU(K, U, S, up, d)
    /\ b2 = TurnedBounds(K, b, S, up, d)
    /\ h2 \in Sides /\ Virtual(K2, U2, m2, S, n, h2, m.u[up], top2)
    /\ m.u[up] # NULL => m2.kid[h2][m.u[up]] = up /\ m2.kid[Other(h2)][m.u[up]] # up
    /\ Cardinality(Below(key, S, b, n)) < Cardinality(Below(key, S, b2, n))

\* It can be said of the tree that is turned there.
LEMMA HoleMoved ==
  ASSUME NEW N \in Nat, NEW V, NEW m \in Memory(N, V), NEW q \in AllTrees,
         NEW S \in SUBSET (1..N), NEW K, NEW U, NEW key, NEW b, NEW root,
         Tree(K, U, key, S, b, root), NEW n \in S, NEW d \in Sides, NEW up, up # NULL,
         NEW top \in [Sides -> 0..N], Virtual(K, U, m, S, n, d, up, top)
  PROVE  \E h2 \in Sides :
            Moved(K, U, key, S, b, TurnedK(K, S, up, d), TurnedU(K, U, S, up, d),
                  TurnedBounds(K, b, S, up, d), m, Link(m, up, d, top[Other(d)]), q, N, V,
                  n, d, up, h2, [top EXCEPT ![Other(d)] = up])
<1> DEFINE e == Other(d)
           m2 == Link(m, up, d, top[e])
           K2 == TurnedK(K, S, up, d)
           U2 == TurnedU(K, U, S, up, d)
           b2 == TurnedBounds(K, b, S, up, d)
           top2 == [top EXCEPT ![e] = up]
           upup == m.u[up]
<1>1. /\ up \in S /\ up # n /\ U[up] = upup /\ K[d][up] = n
      /\ K[e][up] = m.kid[e][up] /\ K[e][up] # n
      /\ \A s \in Sides : top[s] # up /\ top[s] # n
      /\ upup \in S => /\ upup # n /\ upup # up
                       /\ \A s \in Sides : K[s][upup] = m.kid[s][upup] /\ top[s] # upup
  <2>1. Hanging(K, U, m, S, n, d, up, top)
    BY VirtualFacts
  <2> QED
    BY <2>1 DEF Hanging
<1>2. e \in Sides /\ e # d /\ \A s \in Sides : s = d \/ s = e
  BY SidesFacts
<1>3. /\ \A x \in S, s \in Sides : K[s][x] # NULL => K[s][x] \in S /\ U[K[s][x]] = x
      /\ upup # NULL => upup \in S
      /\ NULL \notin S
  <2>1. Sized(K, U, key, S, b)
    BY Sizes
  <2> QED
    BY <1>1, <2>1 DEF Sized
<1>4. /\ m2 \in Memory(N, V)
      /\ \A s \in Sides, x \in 1..N : m2.kid[s][x] = IF s = d /\ x = up THEN top[e] ELSE m.kid[s][x]
      /\ \A x \in 1..N : m2.u[x] = IF x = top[e] THEN up ELSE m.u[x]
      /\ m2.key = m.key /\ m2.data = m.data /\ m2.eltscnt = m.eltscnt
      /\ m2.free = m.free /\ m2.root = m.root
  <2>1. up \in 1..N /\ top[e] \in 0..N
    BY <1>1, <1>2
  <2>2. Linked(N, V, m, m2, up, d, top[e])
    BY <2>1, LinkFacts
  <2> HIDE DEF m2
  <2> QED
    BY <2>2 DEF Linked
<1>5. \A s \in Sides : top2[s] = IF s = e THEN up ELSE top[s]
  BY <1>2
<1>6. \A s \in Sides : K[s][n] = top[s]
  BY DEF Virtual
<1>7. /\ \A s \in Sides, x \in S :
            K2[s][x] = IF s = d /\ x = up THEN top[e] ELSE IF s = e /\ x = n THEN up
                       ELSE IF K[s][x] = up THEN n ELSE K[s][x]
      /\ \A x \in S : U2[x] = IF x = up THEN n ELSE IF x = n THEN upup
                              ELSE IF x = top[e] THEN up ELSE U[x]
  BY <1>1, <1>2, <1>6 DEF TurnedK, TurnedU, e
<1> HIDE DEF m2, K2, U2, top2, e, upup
<1>8. top[d] \in S => top[d] # top[e]
  BY <1>2, <1>3, <1>6, KidsApart
<1>9. Same(m, m2, N, S, q)
  <2>1. ASSUME NEW x \in (1..N) \ S, NEW s \in Sides
        PROVE  m2.kid[s][x] = m.kid[s][x] /\ m2.u[x] = m.u[x]
    <3>1. x # NULL /\ x \notin S
      BY <2>1 DEF NULL
    <3>2. top[e] = NULL \/ top[e] \in S
      BY <1>2, <1>3, <1>6
    <3> QED
      BY <1>1, <1>4, <3>1, <3>2
  <2> QED
    BY <1>4, <2>1 DEF Same
<1>10. PICK h2 \in Sides : upup # NULL => K[h2][upup] = up
  <2>1. up # root => upup \in S /\ \E s \in Sides : K[s][upup] = up
    BY <1>1, Parents
  <2>2. up = root => upup = NULL
    BY <1>1, <1>3 DEF Tree
  <2> QED
    BY <2>1, <2>2, SidesFacts
<1>11. \A x \in S, s \in Sides : K[s][x] = up => x = upup /\ s = h2
  <2> SUFFICES ASSUME NEW x \in S, NEW s \in Sides, K[s][x] = up
               PROVE  x = upup /\ s = h2
    OBVIOUS
  <2>1. up # NULL /\ U[up] = x /\ upup = x /\ upup # NULL
    BY <1>1, <1>3
  <2> QED
    BY <1>10, <2>1, KidsApart
<1>12. Virtual(K2, U2, m2, S, n, h2, upup, top2)
  <2>1. ASSUME NEW x \in S \ {n}, NEW s \in Sides
        PROVE  K2[s][x] = IF x = upup /\ s = h2 THEN n ELSE m2.kid[s][x]
    <3>1. K[s][x] = IF x = up /\ s = d THEN n ELSE m.kid[s][x]
      BY DEF Virtual
    <3>2. x # NULL /\ x \in 1..N
      BY <1>3
    <3>3. up \in S => up # NULL
      BY <1>3
    <3>4. CASE x = up
      <4>1. x # upup
        BY <1>1, <3>4
      <4>2. K[s][x] # up
        BY <1>11, <4>1
      <4> QED
        BY <1>4, <1>7, <3>1, <3>2, <3>4, <4>1, <4>2
    <3>5. CASE x # up
      <4>1. m2.kid[s][x] = m.kid[s][x] /\ K[s][x] = m.kid[s][x]
        BY <1>4, <3>1, <3>2, <3>5
      <4>2. K2[s][x] = IF K[s][x] = up THEN n ELSE K[s][x]
        BY <1>7, <3>5
      <4>3. K[s][x] = up <=> x = upup /\ s = h2
        BY <1>10, <1>11, <3>2
      <4> QED
        BY <4>1, <4>2, <4>3
    <3> QED
      BY <3>4, <3>5
  <2>2. ASSUME NEW s \in Sides
        PROVE  K2[s][n] = top2[s]
    BY <1>1, <1>2, <1>5, <1>6, <1>7
  <2>3. U2[n] = upup
    BY <1>1, <1>7
  <2>4. ASSUME NEW x \in S \ {n}
        PROVE  U2[x] = IF \E s \in Sides : top2[s] = x THEN n ELSE m2.u[x]
    <3>1. U[x] = IF \E s \in Sides : top[s] = x THEN n ELSE m.u[x]
      BY DEF Virtual
    <3>2. x \in 1..N /\ (\E s \in Sides : top2[s] = x <=> x = up \/ x = top[d])
      BY <1>2, <1>5
    <3>3. (\E s \in Sides : top[s] = x) <=> x = top[e] \/ x = top[d]
      BY <1>2
    <3>4. (\E s \in Sides : top2[s] = x) <=> x = up \/ x = top[d]
      BY <1>2, <1>5
    <3> QED
      BY <1>1, <1>2, <1>4, <1>7, <1>8, <3>1, <3>2, <3>3, <3>4
  <2> QED
    BY <2>1, <2>2, <2>3, <2>4 DEF Virtual
<1>13. upup # NULL => m2.kid[h2][upup] = up /\ m2.kid[Other(h2)][upup] # up
  <2> SUFFICES ASSUME upup # NULL
               PROVE  m2.kid[h2][upup] = up /\ m2.kid[Other(h2)][upup] # up
    OBVIOUS
  <2>1. upup \in S /\ upup # up /\ upup \in 1..N
    BY <1>1, <1>3
  <2>2. \A s \in Sides : m2.kid[s][upup] = K[s][upup]
    BY <1>1, <1>4, <2>1
  <2> QED
    BY <1>10, <1>11, <2>1, <2>2, SidesFacts
<1>14. Cardinality(Below(key, S, b, n)) < Cardinality(Below(key, S, b2, n))
  <2>1. \A s \in Sides : b2[s][n] = b[s][up]
    <3>1. b[d][n] = b[d][up]
      BY <1>1, <1>3 DEF Tree, KidOf
    <3> QED
      BY <1>1, <1>2, <3>1 DEF TurnedBounds, e
  <2>2. Below(key, S, b2, n) = Below(key, S, b, up)
    BY <2>1 DEF Below, Within
  <2>3. K[d][up] # NULL
    BY <1>1, <1>3
  <2> HIDE DEF b2
  <2> QED
    BY <1>1, <2>2, <2>3, KidBelow
<1> QED
  BY <1>4, <1>9, <1>12, <1>13, <1>14 DEF Moved, m2, K2, U2, b2, top2, e, upup

\* What two steps leave alone.
LEMMA SameAgain ==
  ASSUME NEW m, NEW m2, NEW m3, NEW N, NEW S, NEW q, Same(m, m2, N, S, q), Same(m2, m3, N, S, q)
  PROVE  Same(m, m3, N, S, q)
  BY DEF Same

\* _splay's loop at the block n, at least i blocks being below it.
Turning(N, V, m0, q, S, n, i, s) ==
    /\ s \in [m : Memory(N, V), prev : 0..N, up : 0..N, top : [Sides -> 0..N]]
    /\ Same(m0, s.m, N, S, q)
    /\ \E K, U, b, root : \E h \in Sides :
          /\ Tree(K, U, m0.key, S, b, root)
          /\ Virtual(K, U, s.m, S, n, h, s.up, s.top)
          /\ s.up # NULL => s.m.kid[h][s.up] = s.prev /\ s.m.kid[Other(h)][s.up] # s.prev
          /\ s.up = NULL \/ i < Cardinality(Below(m0.key, S, b, n))

\* The rest of a round, after the rotation if there is one.
Moving(m, up, d, top) == [m |-> Link(m, up, d, top[Other(d)]), prev |-> up, up |-> m.u[up],
                          top |-> [top EXCEPT ![Other(d)] = up]]

\* They take the block one place up.
LEMMA MovedRound ==
  ASSUME NEW N \in Nat, NEW V, NEW m0, NEW q \in AllTrees, NEW S \in SUBSET (1..N),
         NEW n \in S, NEW i \in 1..N, NEW m \in Memory(N, V), Same(m0, m, N, S, q),
         NEW K, NEW U, NEW b, NEW root, Tree(K, U, m0.key, S, b, root),
         NEW d \in Sides, NEW up \in 0..N, up # NULL, NEW top \in [Sides -> 0..N],
         Virtual(K, U, m, S, n, d, up, top), i - 1 < Cardinality(Below(m0.key, S, b, n))
  PROVE  Turning(N, V, m0, q, S, n, i, Moving(m, up, d, top))
<1> DEFINE m2 == Link(m, up, d, top[Other(d)])
           K2 == TurnedK(K, S, up, d)
           U2 == TurnedU(K, U, S, up, d)
           b2 == TurnedBounds(K, b, S, up, d)
           top2 == [top EXCEPT ![Other(d)] = up]
           s == [m |-> m2, prev |-> up, up |-> m.u[up], top |-> top2]
<1>1. PICK h \in Sides : Moved(K, U, m0.key, S, b, K2, U2, b2, m, m2, q, N, V, n, d, up, h, top2)
  BY HoleMoved
<1> HIDE DEF m2, K2, U2, b2, top2
<1>2. /\ m2 \in Memory(N, V) /\ Same(m, m2, N, S, q)
      /\ Virtual(K2, U2, m2, S, n, h, m.u[up], top2)
      /\ m.u[up] # NULL => m2.kid[h][m.u[up]] = up /\ m2.kid[Other(h)][m.u[up]] # up
      /\ Cardinality(Below(m0.key, S, b, n)) < Cardinality(Below(m0.key, S, b2, n))
  BY <1>1 DEF Moved
<1>3. up \in S /\ K[d][up] = n
  <2>1. Hanging(K, U, m, S, n, d, up, top)
    BY VirtualFacts
  <2> QED
    BY <2>1 DEF Hanging
<1>4. K[d][up] # NULL
  BY <1>3 DEF NULL
<1>5. Tree(K2, U2, m0.key, S, b2, IF up = root THEN K[d][up] ELSE root)
  BY <1>3, <1>4, TurnedFacts, TurnedTree DEF K2, U2, b2
<1>6. s \in [m : Memory(N, V), prev : 0..N, up : 0..N, top : [Sides -> 0..N]]
  <2>1. up \in 1..N /\ m.u \in [1..N -> 0..N]
    BY <1>3 DEF Memory
  <2>2. top2 \in [Sides -> 0..N] /\ m.u[up] \in 0..N
    BY <2>1, SidesFacts DEF top2
  <2> QED
    BY <1>2, <2>2
<1>7. s.m = m2 /\ s.prev = up /\ s.up = m.u[up] /\ s.top = top2
  OBVIOUS
<1>8. Same(m0, m2, N, S, q)
  BY <1>2, SameAgain
<1>9. i < Cardinality(Below(m0.key, S, b2, n))
  <2>1. Keyed(m0.key, S) /\ Bounded(m0.key, S, b) /\ Bounded(m0.key, S, b2)
    BY <1>5 DEF Tree
  <2>2. /\ Cardinality(Below(m0.key, S, b, n)) \in Nat
        /\ Cardinality(Below(m0.key, S, b2, n)) \in Nat
    BY <2>1, BelowFacts
  <2> QED
    BY <1>2, <2>2
<1> HIDE DEF s
<1> QED
  BY <1>2, <1>5, <1>6, <1>7, <1>8, <1>9 DEF Turning, Moving, m2, top2, s

\* A round goes on.
LEMMA TurningRound ==
  ASSUME NEW N \in Nat, NEW V, NEW m0, NEW q \in AllTrees, NEW S \in SUBSET (1..N),
         NEW n \in S, NEW i \in 1..N, NEW s, Turning(N, V, m0, q, S, n, i - 1, s)
  PROVE  Turning(N, V, m0, q, S, n, i, SplayRound(q, s))
<1>1. /\ s \in [m : Memory(N, V), prev : 0..N, up : 0..N, top : [Sides -> 0..N]]
      /\ s.m \in Memory(N, V) /\ s.prev \in 0..N /\ s.up \in 0..N /\ s.top \in [Sides -> 0..N]
      /\ Same(m0, s.m, N, S, q)
  BY DEF Turning
<1>2. PICK K, U, b, root : \E h \in Sides :
          /\ Tree(K, U, m0.key, S, b, root)
          /\ Virtual(K, U, s.m, S, n, h, s.up, s.top)
          /\ s.up # NULL => s.m.kid[h][s.up] = s.prev /\ s.m.kid[Other(h)][s.up] # s.prev
          /\ s.up = NULL \/ i - 1 < Cardinality(Below(m0.key, S, b, n))
  BY DEF Turning
<1>3. PICK h \in Sides :
          /\ Tree(K, U, m0.key, S, b, root)
          /\ Virtual(K, U, s.m, S, n, h, s.up, s.top)
          /\ s.up # NULL => s.m.kid[h][s.up] = s.prev /\ s.m.kid[Other(h)][s.up] # s.prev
          /\ s.up = NULL \/ i - 1 < Cardinality(Below(m0.key, S, b, n))
  BY <1>2
<1>4. CASE s.up = NULL
  <2>1. SplayRound(q, s) = s
    BY <1>4 DEF SplayRound
  <2> QED
    BY <1>1, <1>3, <1>4, <2>1 DEF Turning
<1>5. CASE s.up # NULL
  <2> DEFINE m == s.m
             up == s.up
             top == s.top
             upup == m.u[up]
             rotates == upup # NULL /\ m.kid[h][upup] = up
             m2 == IF rotates THEN Rotate(m, q, up, upup, h) ELSE m
  <2>1. (IF m.kid["l"][up] = s.prev THEN "l" ELSE "r") = h
    BY <1>3, <1>5, SidesFacts DEF Sides
  <2>2. SplayRound(q, s) =
           [m |-> Link(m2, up, h, top[Other(h)]), prev |-> up,
            up |-> IF rotates THEN m.u[upup] ELSE upup,
            top |-> [top EXCEPT ![Other(h)] = up]]
    BY <1>5, <2>1 DEF SplayRound
  <2>3. up \in S /\ up # n /\ (upup # NULL => upup \in S /\ upup # n)
    <3>1. Hanging(K, U, m, S, n, h, up, top)
      BY <1>3, <1>5, VirtualFacts
    <3>2. Sized(K, U, m0.key, S, b)
      BY <1>3, Sizes
    <3>3. up \in S /\ up # n /\ U[up] = upup
      BY <3>1 DEF Hanging
    <3>4. upup # NULL => upup \in S
      BY <3>2, <3>3 DEF Sized
    <3> QED
      BY <3>1, <3>3, <3>4 DEF Hanging
  <2> HIDE DEF m, up, top, upup, rotates, m2
  <2>4. CASE ~ rotates
    <3>1. m2 = m /\ (IF rotates THEN m.u[upup] ELSE upup) = m.u[up]
      BY <2>4 DEF m2, upup
    <3>2. SplayRound(q, s) = Moving(m, up, h, top)
      BY <2>2, <3>1 DEF Moving
    <3>3. /\ m \in Memory(N, V) /\ Same(m0, m, N, S, q) /\ Tree(K, U, m0.key, S, b, root)
          /\ up \in 0..N /\ up # NULL /\ top \in [Sides -> 0..N]
          /\ Virtual(K, U, m, S, n, h, up, top) /\ i - 1 < Cardinality(Below(m0.key, S, b, n))
      BY <1>1, <1>3, <1>5 DEF m, up, top
    <3> QED
      BY <3>2, <3>3, MovedRound
  <2>5. CASE rotates
    <3> DEFINE K2 == TurnedK(K, S, upup, h)
               U2 == TurnedU(K, U, S, upup, h)
               b2 == TurnedBounds(K, b, S, upup, h)
               root2 == IF upup = root THEN K[h][upup] ELSE root
    <3>1. upup \in S /\ m.kid[h][upup] = up /\ upup # n
      BY <2>3, <2>5 DEF rotates
    <3>2. /\ m2 \in Memory(N, V) /\ Same(m, m2, N, S, q) /\ m2.u[up] = m.u[upup]
          /\ K[h][upup] = up /\ Virtual(K2, U2, m2, S, n, h, up, top)
      <4>1. m2 = Rotate(m, q, up, upup, h)
        BY <2>5 DEF m2
      <4>2. m \in Memory(N, V) /\ up # NULL /\ Virtual(K, U, m, S, n, h, up, top)
            /\ upup = m.u[up] /\ Tree(K, U, m0.key, S, b, root)
        BY <1>1, <1>3, <1>5 DEF m, up, top, upup
      <4>3. TurnedAbove(K, U, K2, U2, N, V, m, Rotate(m, q, up, upup, h), q, S, n, h, up, upup, top)
        BY <3>1, <4>2, VirtualRotated
      <4> HIDE DEF K2, U2
      <4> QED
        BY <4>1, <4>3 DEF TurnedAbove
    <3>3. Tree(K2, U2, m0.key, S, b2, root2)
      <4>1. K[h][upup] # NULL
        BY <1>5, <3>2 DEF up
      <4> QED
        BY <1>3, <3>1, <4>1, TurnedFacts, TurnedTree
    <3>4. Below(m0.key, S, b2, n) = Below(m0.key, S, b, n)
      <4>1. \A t \in Sides : b2[t][n] = b[t][n]
        BY <2>3, <3>1, <3>2 DEF TurnedBounds
      <4> HIDE DEF b2
      <4> QED
        BY <4>1 DEF Below, Within
    <3>5. (IF rotates THEN m.u[upup] ELSE upup) = m2.u[up]
      BY <2>5, <3>2
    <3>6. Same(m0, m2, N, S, q)
      BY <1>1, <3>2, SameAgain DEF m
    <3>7. i - 1 < Cardinality(Below(m0.key, S, b2, n))
      BY <1>3, <1>5, <3>4
    <3>8. up \in 0..N /\ up # NULL /\ top \in [Sides -> 0..N]
      BY <1>1, <1>5 DEF up, top
    <3> HIDE DEF K2, U2, b2, root2
    <3>9. SplayRound(q, s) = Moving(m2, up, h, top)
      BY <2>2, <3>5 DEF Moving
    <3> QED
      BY <3>2, <3>3, <3>6, <3>7, <3>8, <3>9, MovedRound
  <2> QED
    BY <2>4, <2>5
<1> QED
  BY <1>4, <1>5

\* The tree q has been turned until n is its root.
Splayed(N, V, m, m2, q, S, n) == /\ m2 \in Memory(N, V) /\ Same(m, m2, N, S, q)
                                 /\ m2.root[q] = n /\ Holds(m2, q, S)

\* What _splay does after its loop.
SplayResult(q, n, s) == [Link(Link(s.m, n, "l", s.top["l"]), n, "r", s.top["r"])
                            EXCEPT !.root[q] = n, !.u[n] = NULL]

\* What follows the loop links the block as the root.
LEMMA SplayEnds ==
  ASSUME NEW N \in Nat, NEW V, NEW m0, NEW q \in AllTrees, NEW S \in SUBSET (1..N),
         NEW n \in S, NEW s, Turning(N, V, m0, q, S, n, N, s)
  PROVE  Splayed(N, V, m0, SplayResult(q, n, s), q, S, n)
<1> DEFINE first == Link(s.m, n, "l", s.top["l"])
           second == Link(first, n, "r", s.top["r"])
           m2 == [second EXCEPT !.root[q] = n, !.u[n] = NULL]
<1>1. /\ s \in [m : Memory(N, V), prev : 0..N, up : 0..N, top : [Sides -> 0..N]]
      /\ s.m \in Memory(N, V) /\ s.up \in 0..N /\ s.top \in [Sides -> 0..N]
      /\ Same(m0, s.m, N, S, q)
  BY DEF Turning
<1>2. PICK K, U, b, root : \E h \in Sides :
          /\ Tree(K, U, m0.key, S, b, root)
          /\ Virtual(K, U, s.m, S, n, h, s.up, s.top)
          /\ s.up = NULL \/ N < Cardinality(Below(m0.key, S, b, n))
  BY DEF Turning
<1>3. PICK h \in Sides : Virtual(K, U, s.m, S, n, h, s.up, s.top)
  BY <1>2
<1>4. Tree(K, U, m0.key, S, b, root) /\ s.up = NULL
  <2>1. Tree(K, U, m0.key, S, b, root)
    BY <1>2
  <2>2. Cardinality(Below(m0.key, S, b, n)) <= Cardinality(S)
        /\ Cardinality(Below(m0.key, S, b, n)) \in Nat
    BY <2>1, BelowFacts DEF Tree
  <2>3. Cardinality(S) \in Nat /\ Cardinality(S) <= N
    BY AtMost
  <2> QED
    BY <1>2, <2>1, <2>2, <2>3
<1>5. U[n] = NULL /\ root = n
  <2>1. U[n] = NULL /\ NULL \notin S
    BY <1>3, <1>4 DEF Virtual, Tree, Keyed
  <2> QED
    BY <1>4, <2>1, Parents
<1>6. \A x \in S, d \in Sides : K[d][x] # NULL => K[d][x] \in S /\ U[K[d][x]] = x
  BY <1>4 DEF Tree, KidOf
<1>7. /\ \A d \in Sides : K[d][n] = s.top[d]
      /\ \A d \in Sides : s.top[d] # NULL => s.top[d] \in S /\ s.top[d] # n
  <2>1. \A d \in Sides : K[d][n] = s.top[d]
    BY <1>3 DEF Virtual
  <2>2. n # NULL
    BY <1>4 DEF Tree, Keyed
  <2> QED
    BY <1>5, <1>6, <2>1, <2>2
<1>8. "l" \in Sides /\ "r" \in Sides /\ s.top["l"] \in 0..N /\ s.top["r"] \in 0..N /\ n \in 1..N
      /\ n \in 0..N /\ NULL \in 0..N
  BY <1>1 DEF Sides, NULL
<1> HIDE DEF first
<1>9. Linked(N, V, s.m, first, n, "l", s.top["l"])
  BY <1>1, <1>8, LinkFacts DEF first
<1> HIDE DEF second
<1>10. Linked(N, V, first, second, n, "r", s.top["r"])
  <2>1. first \in Memory(N, V)
    BY <1>9 DEF Linked
  <2> QED
    BY <1>8, <2>1, LinkFacts DEF second
<1>11. /\ second \in Memory(N, V)
       /\ \A x \in 1..N, d \in Sides : second.kid[d][x] = IF x = n THEN s.top[d] ELSE s.m.kid[d][x]
       /\ \A x \in 1..N : second.u[x] = IF x = s.top["r"] \/ x = s.top["l"] THEN n ELSE s.m.u[x]
       /\ second.key = s.m.key /\ second.data = s.m.data /\ second.eltscnt = s.m.eltscnt
       /\ second.free = s.m.free /\ second.root = s.m.root
  <2>1. \A d \in Sides : d = "l" \/ d = "r"
    BY DEF Sides
  <2> QED
    BY <1>9, <1>10, <2>1 DEF Linked
<1>12. /\ m2 \in Memory(N, V) /\ m2.kid = second.kid /\ m2.u = [second.u EXCEPT ![n] = NULL]
       /\ m2.key = second.key /\ m2.data = second.data /\ m2.eltscnt = second.eltscnt
       /\ m2.free = second.free /\ m2.root = [second.root EXCEPT ![q] = n]
  BY <1>8, <1>11 DEF Memory
<1> HIDE DEF m2
<1>13. /\ \A x \in 1..N : m2.u[x] = IF x = n THEN NULL ELSE second.u[x]
       /\ m2.root[q] = n /\ \A t \in AllTrees \ {q} : m2.root[t] = second.root[t]
  <2>1. second.u \in [1..N -> 0..N] /\ second.root \in [AllTrees -> 0..N]
    BY <1>11 DEF Memory
  <2> QED
    BY <1>12, <2>1
<1>14. Same(m0, m2, N, S, q)
  <2>1. ASSUME NEW x \in (1..N) \ S, NEW d \in Sides
        PROVE  m2.kid[d][x] = s.m.kid[d][x] /\ m2.u[x] = s.m.u[x]
    <3>1. x # NULL /\ x # n
      BY <2>1 DEF NULL
    <3>2. x # s.top["r"] /\ x # s.top["l"]
      BY <1>7, <1>8, <2>1, <3>1
    <3> QED
      BY <1>11, <1>12, <1>13, <3>1, <3>2
  <2>2. Same(s.m, m2, N, S, q)
    BY <1>11, <1>12, <1>13, <2>1 DEF Same
  <2> QED
    BY <1>1, <2>2, SameAgain
<1>15. Tree(m2.kid, m2.u, m2.key, S, b, n)
  <2>1. ASSUME NEW x \in S
        PROVE  m2.u[x] = U[x] /\ m2.key[x] = m0.key[x] /\ \A d \in Sides : m2.kid[d][x] = K[d][x]
    <3>1. x \in 1..N
      OBVIOUS
    <3>2. m2.key[x] = m0.key[x]
      BY <1>14 DEF Same
    <3>3. CASE x = n
      BY <1>5, <1>7, <1>11, <1>12, <1>13, <3>2, <3>3
    <3>4. CASE x # n
      <4>1. \A d \in Sides : K[d][x] = s.m.kid[d][x]
        <5>1. x # NULL
          BY <1>4 DEF Tree, Keyed
        <5> QED
          BY <1>3, <1>4, <3>4, <5>1 DEF Virtual
      <4>2. U[x] = IF \E d \in Sides : s.top[d] = x THEN n ELSE s.m.u[x]
        BY <1>3, <3>4 DEF Virtual
      <4>3. (\E d \in Sides : s.top[d] = x) <=> x = s.top["r"] \/ x = s.top["l"]
        BY DEF Sides
      <4> QED
        BY <1>11, <1>12, <1>13, <3>2, <3>4, <4>1, <4>2, <4>3
    <3> QED
      BY <3>3, <3>4
  <2> QED
    BY <1>4, <1>5, <2>1, Agree
<1> QED
  BY <1>12, <1>13, <1>14, <1>15 DEF Splayed, Holds, SplayResult, m2, second, first

\* Before the first round nothing has been turned.
LEMMA SplayStarts ==
  ASSUME NEW N \in Nat, NEW V, NEW m \in Memory(N, V), NEW q \in AllTrees,
         NEW S \in SUBSET (1..N), Holds(m, q, S), NEW n \in S
  PROVE  Turning(N, V, m, q, S, n, 0,
                 [m |-> m, prev |-> n, up |-> m.u[n], top |-> [d \in Sides |-> m.kid[d][n]]])
<1> DEFINE top == [d \in Sides |-> m.kid[d][n]]
           s == [m |-> m, prev |-> n, up |-> m.u[n], top |-> top]
<1>1. PICK b : Tree(m.kid, m.u, m.key, S, b, m.root[q])
  BY DEF Holds
<1>2. Sized(m.kid, m.u, m.key, S, b)
  BY <1>1, Sizes
<1>3. s \in [m : Memory(N, V), prev : 0..N, up : 0..N, top : [Sides -> 0..N]]
  <2>1. m.u[n] \in 0..N /\ \A d \in Sides : m.kid[d][n] \in 0..N
    BY DEF Memory
  <2>2. n \in 0..N /\ top \in [Sides -> 0..N]
    BY <2>1
  <2> QED
    BY <2>1, <2>2
<1>4. PICK h \in Sides : m.u[n] # NULL => m.u[n] \in S /\ m.kid[h][m.u[n]] = n
  <2>1. m.u[n] # NULL => m.u[n] \in S /\ \E d \in Sides : m.kid[d][m.u[n]] = n
    BY <1>1, Parents
  <2> QED
    BY <2>1, SidesFacts
<1>5. \A x \in S, d \in Sides : m.kid[d][x] = n => x = m.u[n] /\ d = h
  <2>1. n # NULL
    BY <1>2 DEF Sized
  <2>2. \A x \in S, d \in Sides : m.kid[d][x] = n => x = m.u[n]
    BY <1>2, <2>1 DEF Sized
  <2> QED
    BY <1>1, <1>2, <1>4, <2>1, <2>2, KidsApart DEF Sized
<1>6. m.u[n] # NULL => m.kid[h][m.u[n]] = n /\ m.kid[Other(h)][m.u[n]] # n
  BY <1>4, <1>5, SidesFacts
<1>7. Virtual(m.kid, m.u, m, S, n, h, m.u[n], top)
  <2>1. \A x \in S \ {n} : m.u[x] = IF \E d \in Sides : top[d] = x THEN n ELSE m.u[x]
    BY <1>2 DEF Sized
  <2>2. \A x \in S \ {n}, d \in Sides :
           m.kid[d][x] = IF x = m.u[n] /\ d = h THEN n ELSE m.kid[d][x]
    BY <1>2, <1>4 DEF Sized
  <2> QED
    BY <2>1, <2>2 DEF Virtual
<1>8. 0 < Cardinality(Below(m.key, S, b, n))
  <2>1. /\ Cardinality(Below(m.key, S, b, n)) \in Nat
        /\ Cardinality(Below(m.key, S, b, n)) # 0
    BY <1>1, BelowFacts DEF Tree
  <2> QED
    BY <2>1
<1>9. s.m = m /\ s.prev = n /\ s.up = m.u[n] /\ s.top = top /\ Same(m, m, N, S, q)
  BY DEF Same
<1> HIDE DEF s, top
<1> QED
  BY <1>1, <1>3, <1>6, <1>7, <1>8, <1>9 DEF Turning, s, top

\* _splay makes n the root of its tree and leaves all others alone.
LEMMA SplayTurns ==
  ASSUME NEW N \in Nat, NEW V, NEW m \in Memory(N, V), NEW q \in AllTrees,
         NEW S \in SUBSET (1..N), Holds(m, q, S), NEW n \in S
  PROVE  Splayed(N, V, m, _splay(m, q, n), q, S, n)
<1> DEFINE rd(s) == SplayRound(q, s)
           start == [m |-> m, prev |-> n, up |-> m.u[n], top |-> [d \in Sides |-> m.kid[d][n]]]
           rounds == CHOOSE f : f = [i \in 0..N |-> IF i = 0 THEN start ELSE rd(f[i - 1])]
           X == [m : Memory(N, V), prev : 0..N, up : 0..N, top : [Sides -> 0..N]]
           r == [s \in X |-> rd(s)]
           W == [i \in 0..N |-> {s \in X : Turning(N, V, m, q, S, n, i, s)}]
           s == rounds[N]
<1>1. Len(m.key) = N
  BY Length DEF Memory
<1>2. _splay(m, q, n) = SplayResult(q, n, s)
  BY <1>1 DEF _splay, Loop, SplayResult
<1>3. W \in [0..N -> SUBSET X] /\ \A t \in X : r[t] = rd(t)
  OBVIOUS
<1>4. \A i, t : Turning(N, V, m, q, S, n, i, t) => t \in X
  BY DEF Turning
<1>5. start \in W[0]
  <2>1. Turning(N, V, m, q, S, n, 0, start)
    BY SplayStarts
  <2> HIDE DEF X, start
  <2> QED
    BY <1>4, <2>1
<1> HIDE DEF start, X, rd, r
<1>6. ASSUME NEW i \in 1..N, NEW t \in W[i - 1]
      PROVE  r[t] \in W[i]
  <2>1. i - 1 \in 0..N /\ i \in 0..N
    OBVIOUS
  <2>2. t \in X /\ Turning(N, V, m, q, S, n, i - 1, t)
    BY <2>1
  <2>3. Turning(N, V, m, q, S, n, i, rd(t))
    BY <2>2, TurningRound DEF rd
  <2> QED
    BY <1>3, <1>4, <2>1, <2>2, <2>3
<1>7. \A t \in W[N] : Turning(N, V, m, q, S, n, N, t)
  OBVIOUS
<1> HIDE DEF W
<1>8. Steps(N, X, W, start, r)
  BY <1>3, <1>5, <1>6 DEF Steps
<1>9. PICK f : Run(f, N, X, start, r)
  BY <1>8, Rounds
<1>10. f = [i \in 0..N |-> IF i = 0 THEN start ELSE rd(f[i - 1])]
  BY <1>3, <1>9 DEF Run
<1>11. rounds = [i \in 0..N |-> IF i = 0 THEN start ELSE rd(rounds[i - 1])]
  BY <1>10
<1> HIDE DEF rounds
<1>12. Follows(rounds, N, X, start, r)
  BY <1>3, <1>11 DEF Follows
<1>13. rounds[N] \in W[N]
  BY <1>8, <1>12, Rounds
<1>14. Turning(N, V, m, q, S, n, N, s)
  BY <1>7, <1>13
<1> HIDE DEF s
<1> QED
  BY <1>2, <1>14, SplayEnds

(***************************************************************************)
(* _sp_enq: the tree is split at the key of the new block.                 *)
(***************************************************************************)

\* The blocks between the bounds of what is on one side of a block are there too.
LEMMA Inner ==
  ASSUME NEW K, NEW U, NEW key, NEW S, NEW b, NEW root, Tree(K, U, key, S, b, root),
         NEW x \in S, NEW z \in S, Within(key, b, x, z), NEW e \in Sides, On(key, e, x, z)
  PROVE  \A y \in S : Within(key, b, z, y) => Within(key, b, x, y) /\ On(key, e, x, y)
<1>0. Keyed(key, S) /\ Bounded(key, S, b) /\ NULL \notin S
  BY DEF Tree, Keyed
<1>1. /\ \/ b[Other(e)][z] = x
         \/ b[Other(e)][z] \in S /\ On(key, e, x, b[Other(e)][z])
      /\ \/ b[e][z] = b[e][x]
         \/ b[e][z] \in S /\ Within(key, b, x, b[e][z])
  BY Nested
<1> SUFFICES ASSUME NEW y \in S, Within(key, b, z, y)
             PROVE  Within(key, b, x, y) /\ On(key, e, x, y)
  OBVIOUS
<1>2. On(key, Other(e), y, b[Other(e)][z])
  BY <1>0, <1>1, SidesFacts DEF Within
<1>3. On(key, e, x, y)
  BY <1>0, <1>1, <1>2, Order, SidesFacts
<1>4. b[e][x] = NULL \/ On(key, e, y, b[e][x])
  BY <1>0, <1>1, Order, SidesFacts DEF Within, Bounded
<1>5. b[Other(e)][x] = NULL \/ On(key, Other(e), y, b[Other(e)][x])
  BY <1>0, <1>3, Order, SidesFacts DEF Bounded
<1> QED
  BY <1>3, <1>4, <1>5, SidesFacts DEF Within

\* What is below x goes between end and n, where the tree of the other blocks O has
\* nothing.
Gap(K, U, key, S, b, root, x, n, O, KO, UO, c, end, e) ==
    /\ Tree(K, U, key, S, b, root) /\ Keyed(key, S \cup {n}) /\ n \notin S
    /\ x \in S /\ On(key, e, n, x)
    /\ O = (S \ Below(key, S, b, x)) \cup {n} /\ Tree(KO, UO, key, O, c, n)
    /\ \/ end = n /\ b[e][x] = NULL /\ KO[e][n] = NULL
       \/ /\ end # n /\ end \in O /\ b[e][x] = end /\ On(key, e, n, end)
          /\ c[Other(e)][end] = n /\ KO[Other(e)][end] = NULL

\* x and what is on its side e.
Part(key, S, b, x, e) == {y \in Below(key, S, b, x) : y = x \/ On(key, e, x, y)}

\* The blocks that go there, and where that is.
LEMMA GapFacts ==
  ASSUME NEW K, NEW U, NEW key, NEW S, NEW b, NEW root, NEW x, NEW n, NEW O, NEW KO, NEW UO,
         NEW c, NEW end, NEW e \in Sides,
         Gap(K, U, key, S, b, root, x, n, O, KO, UO, c, end, e)
  PROVE  /\ \A y \in Part(key, S, b, x, e) : y \in S /\ y \notin O /\ y # n /\ On(key, e, n, y)
         /\ x \in Part(key, S, b, x, e) /\ end \in O /\ n \in O
         /\ \A z \in O : \/ z = n \/ z = end \/ On(key, Other(e), n, z)
                         \/ end # n /\ On(key, e, end, z)
         /\ end # n => \A y \in Part(key, S, b, x, e) : On(key, Other(e), end, y)
<1>0. /\ Tree(K, U, key, S, b, root) /\ Keyed(key, S \cup {n}) /\ n \notin S
      /\ x \in S /\ On(key, e, n, x)
      /\ O = (S \ Below(key, S, b, x)) \cup {n} /\ Tree(KO, UO, key, O, c, n)
      /\ \/ end = n /\ b[e][x] = NULL /\ KO[e][n] = NULL
         \/ /\ end # n /\ end \in O /\ b[e][x] = end /\ On(key, e, n, end)
            /\ c[Other(e)][end] = n /\ KO[Other(e)][end] = NULL
  BY DEF Gap
<1>1. Keyed(key, S) /\ Bounded(key, S, b) /\ Keyed(key, O) /\ Bounded(key, O, c)
      /\ \A z \in O, s \in Sides : KidOf(KO, UO, key, O, c, z, s)
  BY <1>0 DEF Tree
<1>2. n \in O /\ end \in O
  BY <1>0
<1>3. ASSUME NEW y \in Part(key, S, b, x, e)
      PROVE  /\ y \in S /\ y \notin O /\ y # n /\ On(key, e, n, y)
             /\ end # n => On(key, Other(e), end, y)
  <2>1. y \in S /\ y \in Below(key, S, b, x) /\ (y = x \/ On(key, e, x, y))
    BY DEF Part, Below
  <2>2. y \notin O /\ y # n
    BY <1>0, <2>1
  <2>3. On(key, e, n, y)
    <3>1. n \in S \cup {n} /\ x \in S \cup {n} /\ y \in S \cup {n}
      BY <1>0, <2>1
    <3> QED
      BY <1>0, <2>1, <3>1, Order
  <2>4. end # n => On(key, Other(e), end, y)
    <3> SUFFICES ASSUME end # n PROVE On(key, Other(e), end, y)
      OBVIOUS
    <3>1. end \in S /\ b[e][x] = end /\ end # NULL
      BY <1>0, <1>1 DEF Keyed
    <3>2. On(key, e, y, end)
      BY <2>1, <3>1 DEF Below, Within
    <3> QED
      BY <1>1, <2>1, <3>1, <3>2, Order
  <2> QED
    BY <2>1, <2>2, <2>3, <2>4
<1>4. x \in Part(key, S, b, x, e)
  BY <1>0, <1>1, BelowFacts DEF Part
<1>5. ASSUME NEW z \in O
      PROVE  \/ z = n \/ z = end \/ On(key, Other(e), n, z)
             \/ end # n /\ On(key, e, end, z)
  <2> SUFFICES ASSUME z # n, z # end, ~ On(key, Other(e), n, z),
                      end = n \/ ~ On(key, e, end, z)
               PROVE  FALSE
    OBVIOUS
  <2>1. On(key, e, n, z)
    BY <1>1, <1>2, Order, SidesFacts
  <2>2. \A s \in Sides : c[s][n] = NULL
    BY <1>0, <1>1 DEF Tree, Keyed
  <2>3. CASE end = n
    <3>1. KO[e][n] = NULL
      BY <1>0, <2>3
    <3>2. NULL \notin O
      BY <1>1 DEF Keyed
    <3> QED
      BY <1>1, <1>2, <2>1, <2>2, <3>1, <3>2 DEF KidOf
  <2>4. CASE end # n
    <3>1. On(key, Other(e), end, z) /\ Other(e) \in Sides
      BY <1>1, <1>2, <2>4, Order, SidesFacts
    <3>2. KO[Other(e)][end] = NULL /\ c[Other(e)][end] = n /\ NULL \notin O
      BY <1>0, <1>1, <2>4 DEF Keyed
    <3>3. ~ On(key, Other(e), z, n)
      BY <1>1, <1>2, <3>1, <3>2 DEF KidOf
    <3> QED
      BY <1>1, <1>2, <2>1, <3>3, Order, SidesFacts
  <2> QED
    BY <2>3, <2>4
<1> QED
  BY <1>2, <1>3, <1>4, <1>5

\* It is put there.
Put(K, U, x, n, O, KO, UO, A, K2, U2, end, e) ==
    /\ \A z \in O, s \in Sides :
          K2[s][z] = IF z = end /\ s = (IF end = n THEN e ELSE Other(e)) THEN x ELSE KO[s][z]
    /\ \A z \in A, s \in Sides : K2[s][z] = IF z = x /\ s = Other(e) THEN NULL ELSE K[s][z]
    /\ \A z \in O : U2[z] = UO[z]
    /\ \A z \in A : U2[z] = IF z = x THEN end ELSE U[z]

\* The bounds of both.
PutBounds(b, c, O, A, x, n, e) ==
    [s \in Sides |-> [z \in O \cup A |-> IF z \in O THEN c[s][z]
                                         ELSE IF z = x /\ s = Other(e) THEN n ELSE b[s][z]]]

\* What is put into the gap leaves a tree.
LEMMA PutTree ==
  ASSUME NEW K, NEW U, NEW key, NEW S, NEW b, NEW root, NEW x, NEW n, NEW O, NEW KO, NEW UO,
         NEW c, NEW end, NEW e \in Sides,
         Gap(K, U, key, S, b, root, x, n, O, KO, UO, c, end, e),
         NEW A, A = Part(key, S, b, x, e), NEW K2, NEW U2,
         Put(K, U, x, n, O, KO, UO, A, K2, U2, end, e)
  PROVE  Tree(K2, U2, key, O \cup A, PutBounds(b, c, O, A, x, n, e), n)
<1> DEFINE c2 == PutBounds(b, c, O, A, x, n, e)
           d == Other(e)
<1>0. /\ Tree(K, U, key, S, b, root) /\ Keyed(key, S \cup {n}) /\ n \notin S
      /\ x \in S /\ On(key, e, n, x)
      /\ O = (S \ Below(key, S, b, x)) \cup {n} /\ Tree(KO, UO, key, O, c, n)
      /\ \/ end = n /\ b[e][x] = NULL /\ KO[e][n] = NULL
         \/ /\ end # n /\ end \in O /\ b[e][x] = end /\ On(key, e, n, end)
            /\ c[d][end] = n /\ KO[d][end] = NULL
  BY DEF Gap
<1>1. /\ Keyed(key, S) /\ Bounded(key, S, b) /\ Keyed(key, O) /\ Bounded(key, O, c)
      /\ \A z \in O, s \in Sides : KidOf(KO, UO, key, O, c, z, s)
      /\ \A z \in S, s \in Sides : KidOf(K, U, key, S, b, z, s)
  BY <1>0 DEF Tree
<1>2. d \in Sides /\ d # e /\ Other(d) = e /\ \A s \in Sides : s = e \/ s = d
  BY SidesFacts
<1>3. /\ \A y \in A : y \in S /\ y \notin O /\ y # n /\ On(key, e, n, y)
      /\ x \in A /\ end \in O /\ n \in O
      /\ \A z \in O : z = n \/ z = end \/ On(key, d, n, z) \/ (end # n /\ On(key, e, end, z))
      /\ end # n => \A y \in A : On(key, d, end, y)
  BY GapFacts
<1>4. /\ Keyed(key, O \cup A) /\ O \cup A \in SUBSET (S \cup {n}) /\ NULL \notin O \cup A
      /\ \A y \in S : y \in A <=> y \in Below(key, S, b, x) /\ (y = x \/ On(key, e, x, y))
  <2>1. O \cup A \in SUBSET (S \cup {n})
    BY <1>0, <1>3
  <2>2. IsFiniteSet(O \cup A)
    BY <1>0, <2>1, FS_Subset DEF Keyed
  <2> QED
    BY <1>0, <2>1, <2>2 DEF Keyed, Part
<1>5. /\ \A z \in O, s \in Sides : c2[s][z] = c[s][z]
      /\ \A z \in A, s \in Sides : c2[s][z] = IF z = x /\ s = d THEN n ELSE b[s][z]
  BY <1>3 DEF PutBounds
<1>6. /\ \A z \in O, s \in Sides :
            K2[s][z] = IF z = end /\ s = (IF end = n THEN e ELSE d) THEN x ELSE KO[s][z]
      /\ \A z \in A, s \in Sides : K2[s][z] = IF z = x /\ s = d THEN NULL ELSE K[s][z]
      /\ \A z \in O : U2[z] = UO[z]
      /\ \A z \in A : U2[z] = IF z = x THEN end ELSE U[z]
  BY DEF Put
<1> HIDE DEF c2, d
\* The bounds of the blocks that are put there.
<1>7. ASSUME NEW z \in A, z # x
      PROVE  /\ b[d][z] \in A
             /\ b[e][z] = b[e][x] \/ b[e][z] \in A
  <2>1. z \in S /\ Within(key, b, x, z) /\ On(key, e, x, z)
    BY <1>3, <1>4, <1>7 DEF Below
  <2>2. /\ \/ b[d][z] = x
           \/ b[d][z] \in S /\ On(key, e, x, b[d][z])
        /\ \/ b[e][z] = b[e][x]
           \/ b[e][z] \in S /\ Within(key, b, x, b[e][z])
    BY <1>0, <2>1, Nested DEF d
  <2>3. b[d][z] \in S /\ On(key, d, z, b[d][z])
    BY <1>0, <1>1, <1>2, <2>1, <2>2 DEF Bounded, Keyed
  <2>4. b[d][z] = x \/ Within(key, b, x, b[d][z])
    <3> SUFFICES ASSUME b[d][z] # x, NEW s \in Sides, b[s][x] # NULL
                 PROVE  On(key, s, b[d][z], b[s][x])
      BY DEF Within
    <3>1. b[s][x] \in S /\ On(key, s, x, b[s][x]) /\ On(key, s, z, b[s][x])
      BY <1>0, <1>1, <2>1 DEF Bounded, Within
    <3>2. CASE s = e
      BY <1>1, <1>2, <2>1, <2>3, <3>1, <3>2, Order
    <3>3. CASE s = d
      <4>1. On(key, d, b[d][z], x)
        BY <1>0, <1>1, <1>2, <2>2, <2>3, Order
      <4> QED
        BY <1>0, <1>1, <2>3, <3>1, <3>3, <4>1, Order
    <3> QED
      BY <1>2, <3>2, <3>3
  <2>5. b[d][z] \in A
    BY <1>3, <1>4, <2>2, <2>3, <2>4 DEF Below
  <2>6. b[e][z] = b[e][x] \/ b[e][z] \in A
    <3> SUFFICES ASSUME b[e][z] \in S, Within(key, b, x, b[e][z])
                 PROVE  b[e][z] \in A
      BY <2>2
    <3>1. On(key, e, z, b[e][z])
      BY <1>1, <2>1 DEF Bounded, Keyed
    <3>2. On(key, e, x, b[e][z])
      BY <1>0, <1>1, <2>1, <3>1, Order
    <3> QED
      BY <1>4, <3>2 DEF Below
  <2> QED
    BY <2>5, <2>6
<1>8. Bounded(key, O \cup A, c2)
  <2> SUFFICES ASSUME NEW z \in O \cup A, NEW s \in Sides, c2[s][z] # NULL
               PROVE  c2[s][z] \in O \cup A /\ On(key, s, z, c2[s][z])
    BY DEF Bounded
  <2>1. CASE z \in O
    BY <1>1, <1>5, <2>1 DEF Bounded
  <2>2. CASE z \in A
    <3>1. CASE z = x /\ s = d
      BY <1>2, <1>3, <1>4, <1>5, <3>1, Order
    <3>2. CASE ~ (z = x /\ s = d)
      <4>1. c2[s][z] = b[s][z] /\ z \in S
        BY <1>3, <1>5, <2>2, <3>2
      <4>2. On(key, s, z, b[s][z])
        BY <1>1, <4>1 DEF Bounded
      <4>3. b[e][x] # NULL => b[e][x] \in O
        BY <1>0
      <4>4. b[s][z] \in O \cup A
        BY <1>2, <1>7, <2>2, <3>2, <4>1, <4>3
      <4> QED
        BY <4>1, <4>2, <4>4
    <3> QED
      BY <3>1, <3>2
  <2> QED
    BY <2>1, <2>2
\* The blocks that were there see nothing of it.
<1>9. ASSUME NEW z \in O, NEW s \in Sides, ~ (z = end /\ s = IF end = n THEN e ELSE d)
      PROVE  KidOf(K2, U2, key, O \cup A, c2, z, s)
  <2>1. K2[s][z] = KO[s][z] /\ c2[s][z] = c[s][z] /\ KidOf(KO, UO, key, O, c, z, s)
    BY <1>1, <1>5, <1>6, <1>9
  <2>2. CASE KO[s][z] \in O /\ UO[KO[s][z]] = z
             /\ c[s][KO[s][z]] = c[s][z] /\ c[Other(s)][KO[s][z]] = z
    BY <1>5, <1>6, <2>1, <2>2, SidesFacts DEF KidOf
  <2>3. CASE KO[s][z] = NULL /\ \A y \in O : On(key, s, z, y) =>
                                   c[s][z] # NULL /\ ~ On(key, s, y, c[s][z])
    <3> SUFFICES ASSUME NEW y \in A, On(key, s, z, y)
                 PROVE  c[s][z] # NULL /\ ~ On(key, s, y, c[s][z])
      BY <2>1, <2>3 DEF KidOf
    <3>1. y \in O \cup A /\ z \in O \cup A /\ n \in O \cup A /\ end \in O \cup A
          /\ On(key, e, n, y) /\ (end # n => On(key, d, end, y))
          /\ (c[s][z] # NULL => c[s][z] \in O)
      BY <1>1, <1>3 DEF Bounded
    <3>2. CASE On(key, d, n, z)
      <4>1. s = e /\ On(key, e, z, n)
        BY <1>2, <1>4, <3>1, <3>2, Order
      <4>2. c[e][z] # NULL /\ ~ On(key, e, n, c[e][z])
        BY <1>3, <2>3, <4>1
      <4> QED
        BY <1>2, <1>4, <3>1, <4>1, <4>2, Order
    <3>3. CASE end # n /\ On(key, e, end, z)
      <4>1. s = d /\ On(key, d, z, end)
        BY <1>2, <1>4, <3>1, <3>3, Order
      <4>2. c[d][z] # NULL /\ ~ On(key, d, end, c[d][z])
        BY <1>3, <2>3, <4>1
      <4> QED
        BY <1>2, <1>4, <3>1, <3>3, <4>1, <4>2, Order
    <3>4. CASE z = n
      <4>1. s = e /\ end # n
        BY <1>2, <1>4, <1>9, <3>1, <3>4, Order
      <4>2. c[e][n] # NULL
        BY <1>0, <1>3, <2>3, <3>4, <4>1
      <4> QED
        BY <1>0, <1>2, <4>2 DEF Tree, Keyed
    <3>5. CASE z = end /\ z # n
      <4>1. s = d
        BY <1>2, <1>4, <3>1, <3>5, Order
      <4> QED
        BY <1>9, <3>5, <4>1
    <3> QED
      BY <1>3, <3>2, <3>3, <3>4, <3>5
  <2> QED
    BY <2>1, <2>2, <2>3 DEF KidOf
<1>10. ASSUME NEW z \in O, NEW s \in Sides, z = end, s = IF end = n THEN e ELSE d
       PROVE  KidOf(K2, U2, key, O \cup A, c2, z, s)
  <2>1. K2[s][z] = x /\ x \in O \cup A /\ U2[x] = z
    BY <1>3, <1>6, <1>10
  <2>2. c2[s][z] = c[s][z] /\ c2[d][x] = n /\ c2[e][x] = b[e][x]
    BY <1>2, <1>3, <1>5
  <2>3. c[e][n] = NULL
    BY <1>0, <1>2 DEF Tree, Keyed
  <2> QED
    <3>1. CASE end = n
      <4>1. s = e /\ z = n /\ b[e][x] = NULL /\ Other(s) = d
        BY <1>0, <1>10, <3>1 DEF d
      <4> QED
        BY <2>1, <2>2, <2>3, <4>1 DEF KidOf
    <3>2. CASE end # n
      <4>1. s = d /\ z = end /\ b[e][x] = end /\ c[d][end] = n /\ Other(s) = e
        BY <1>0, <1>2, <1>10, <3>2
      <4> QED
        BY <2>1, <2>2, <4>1 DEF KidOf
    <3> QED
      BY <3>1, <3>2
<1>11. KidOf(K2, U2, key, O \cup A, c2, x, d)
  <2>1. K2[d][x] = NULL /\ c2[d][x] = n /\ n # NULL
    BY <1>2, <1>3, <1>4, <1>5, <1>6
  <2>2. ASSUME NEW y \in O \cup A, On(key, d, x, y)
        PROVE  ~ On(key, d, y, n)
    <3>1. y \notin A
      BY <1>2, <1>3, <1>4, <2>2, Order
    <3>2. x \in O \cup A /\ n \in O \cup A /\ end \in O \cup A
      BY <1>3
    <3>3. y \in O /\ (y = n \/ y = end \/ On(key, d, n, y) \/ (end # n /\ On(key, e, end, y)))
      BY <1>3, <3>1
    <3>4. ~ (end # n /\ On(key, e, end, y))
      BY <1>2, <1>3, <1>4, <2>2, <3>2, Order
    <3>5. y = end => y = n
      BY <1>2, <1>3, <1>4, <2>2, <3>2, Order
    <3> QED
      BY <1>2, <1>4, <3>2, <3>3, <3>4, <3>5, Order
  <2> QED
    BY <2>1, <2>2 DEF KidOf
<1>12. ASSUME NEW z \in A, NEW s \in Sides, ~ (z = x /\ s = d)
       PROVE  KidOf(K2, U2, key, O \cup A, c2, z, s)
  <2>1. K2[s][z] = K[s][z] /\ c2[s][z] = b[s][z] /\ z \in S /\ KidOf(K, U, key, S, b, z, s)
    BY <1>1, <1>3, <1>5, <1>6, <1>12
  <2>2. CASE K[s][z] \in S /\ U[K[s][z]] = z
             /\ b[s][K[s][z]] = b[s][z] /\ b[Other(s)][K[s][z]] = z
    <3> DEFINE k == K[s][z]
    <3>1. k \in A /\ k # x
      <4>1. k # NULL /\ Within(key, b, x, z)
        BY <1>1, <1>4, <2>1, <2>2 DEF Keyed, Below
      <4>2. k \in S /\ On(key, s, z, k) /\ k \in Below(key, S, b, z)
        <5>1. /\ k \in S /\ On(key, s, z, k)
              /\ Below(key, S, b, k) = {y \in Below(key, S, b, z) : On(key, s, z, y)}
          BY <1>0, <2>1, <4>1, KidBelow
        <5>2. k \in Below(key, S, b, k)
          BY <1>1, <5>1, BelowFacts
        <5> QED
          BY <5>1, <5>2
      <4> HIDE DEF k
      <4>3. CASE z = x
        BY <1>1, <1>2, <1>4, <1>12, <2>1, <4>2, <4>3, Order
      <4>4. CASE z # x
        <5>1. On(key, e, x, z)
          BY <1>4, <2>1, <4>4
        <5>2. Within(key, b, x, k) /\ On(key, e, x, k)
          BY <1>0, <2>1, <4>1, <4>2, <5>1, Inner DEF Below
        <5> QED
          BY <1>0, <1>1, <1>4, <4>2, <5>2, Order DEF Below
      <4> QED
        BY <4>3, <4>4
    <3>2. U2[k] = z /\ c2[s][k] = b[s][k] /\ c2[Other(s)][k] = b[Other(s)][k]
      BY <1>5, <1>6, <2>2, <3>1, SidesFacts
    <3> QED
      BY <2>1, <2>2, <3>1, <3>2 DEF KidOf
  <2>3. CASE K[s][z] = NULL /\ \A y \in S : On(key, s, z, y) =>
                                  b[s][z] # NULL /\ ~ On(key, s, y, b[s][z])
    <3>1. ASSUME On(key, s, z, n)
          PROVE  b[s][z] # NULL /\ ~ On(key, s, n, b[s][z])
      <4>1. z \in S \cup {n} /\ n \in S \cup {n} /\ On(key, e, n, z)
        BY <1>3, <2>1
      <4>2. s = d /\ z # x
        BY <1>0, <1>2, <1>12, <3>1, <4>1, Order
      <4>3. b[d][z] \in A
        BY <1>7, <4>2
      <4>4. On(key, e, n, b[d][z]) /\ b[d][z] \in S \cup {n} /\ b[d][z] # NULL
        BY <1>3, <1>4, <4>3
      <4> QED
        BY <1>0, <1>2, <4>1, <4>2, <4>4, Order
    <3> QED
      BY <1>4, <2>1, <2>3, <3>1 DEF KidOf
  <2> QED
    BY <2>1, <2>2, <2>3 DEF KidOf
<1>13. n \in O \cup A /\ U2[n] = NULL /\ \A s \in Sides : c2[s][n] = NULL
  BY <1>0, <1>1, <1>3, <1>5, <1>6 DEF Tree, Keyed
<1>14. \A z \in O \cup A, s \in Sides : KidOf(K2, U2, key, O \cup A, c2, z, s)
  BY <1>9, <1>10, <1>11, <1>12
<1> QED
  BY <1>4, <1>8, <1>13, <1>14 DEF Tree, c2

\* The tree of the blocks that have been moved: its sides are still on the other
\* sides of n, and its open ends not yet NULL.
Outer(N, m, n, end) ==
    [s \in Sides |-> [x \in 1..N |-> IF x = n THEN IF end[s] = n THEN NULL ELSE m.kid[Other(s)][n]
                                     ELSE IF x = end[Other(s)] THEN NULL ELSE m.kid[s][x]]]

\* What is below next.
Rest(key, S, b, next) == IF next = NULL THEN {} ELSE Below(key, S, b, next)

\* The blocks S have been moved to the two sides of n, but for those below next, which
\* are still as they are in the tree of K.
Parted(N, key, K, U, b, root, c, S, n, i, m, next, end) ==
    /\ Tree(K, U, key, S, b, root)
    /\ next # NULL =>
          /\ next \in S /\ Cardinality(Below(key, S, b, next)) <= N - i
          /\ \A x \in Below(key, S, b, next), s \in Sides : m.kid[s][x] = K[s][x]
          /\ \A x \in Below(key, S, b, next) : x # next => m.u[x] = U[x]
          /\ \A s \in Sides : b[s][next] = IF end[s] = n THEN NULL ELSE end[s]
    /\ next = NULL => \A s \in Sides : m.kid[Other(s)][end[s]] = NULL
    /\ Tree(Outer(N, m, n, end), m.u, key, (S \ Rest(key, S, b, next)) \cup {n}, c, n)
    /\ \A s \in Sides : /\ end[s] \in (S \ Rest(key, S, b, next)) \cup {n}
                        /\ end[s] # n => On(key, s, n, end[s]) /\ c[Other(s)][end[s]] = n

\* x is linked to the end on side e; if nothing comes after it, the other end is closed.
Attached(m, end, e, x, rest) ==
    LET moved == Link(m, end[e], Other(e), x)
    IN  IF rest = NULL THEN [moved EXCEPT !.kid[e][end[Other(e)]] = NULL] ELSE moved

\* What that does to the memory.
LEMMA AttachedFacts ==
  ASSUME NEW N \in Nat, NEW V, NEW m \in Memory(N, V), NEW end \in [Sides -> 1..N],
         NEW e \in Sides, NEW x \in 1..N, NEW rest
  PROVE  LET m2 == Attached(m, end, e, x, rest)
             d == Other(e)
         IN  /\ m2 \in Memory(N, V)
             /\ \A s \in Sides, z \in 1..N :
                   m2.kid[s][z] = IF s = d /\ z = end[e] THEN x
                                  ELSE IF s = e /\ z = end[d] /\ rest = NULL THEN NULL
                                  ELSE m.kid[s][z]
             /\ \A z \in 1..N : m2.u[z] = IF z = x THEN end[e] ELSE m.u[z]
             /\ m2.key = m.key /\ m2.data = m.data /\ m2.eltscnt = m.eltscnt
             /\ m2.free = m.free /\ m2.root = m.root
<1> DEFINE d == Other(e)
           moved == Link(m, end[e], d, x)
           m2 == Attached(m, end, e, x, rest)
<1>1. d \in Sides /\ d # e /\ end[e] \in 1..N /\ end[d] \in 1..N /\ NULL \in 0..N
  BY SidesFacts DEF NULL
<1> HIDE DEF d, moved
<1>2. Linked(N, V, m, moved, end[e], d, x)
  BY <1>1, LinkFacts DEF moved
<1>3. moved \in Memory(N, V) /\ moved.kid \in [Sides -> [1..N -> 0..N]]
  BY <1>2 DEF Linked, Memory
<1>4. CASE rest # NULL
  <2>1. m2 = moved
    BY <1>4 DEF Attached, moved, d
  <2> HIDE DEF m2
  <2> QED
    BY <1>2, <1>4, <2>1 DEF Linked, m2, d
<1>5. CASE rest = NULL
  <2>1. m2 = [moved EXCEPT !.kid[e][end[d]] = NULL]
    BY <1>5 DEF Attached, moved, d
  <2>2. /\ m2 \in Memory(N, V) /\ m2.kid = [moved.kid EXCEPT ![e][end[d]] = NULL]
        /\ m2.u = moved.u /\ m2.key = moved.key /\ m2.data = moved.data
        /\ m2.eltscnt = moved.eltscnt /\ m2.free = moved.free /\ m2.root = moved.root
    <3>1. [moved.kid EXCEPT ![e][end[d]] = NULL] \in [Sides -> [1..N -> 0..N]]
      BY <1>1, <1>3
    <3> HIDE DEF m2
    <3> QED
      BY <1>3, <2>1, <3>1 DEF Memory
  <2> HIDE DEF m2
  <2>3. \A s \in Sides, z \in 1..N :
           m2.kid[s][z] = IF s = e /\ z = end[d] THEN NULL ELSE moved.kid[s][z]
    <3> DEFINE kid == moved.kid
    <3>1. kid \in [Sides -> [1..N -> 0..N]] /\ m2.kid = [kid EXCEPT ![e][end[d]] = NULL]
      BY <1>3, <2>2
    <3> HIDE DEF kid
    <3>2. \A s \in Sides, z \in 1..N :
             [kid EXCEPT ![e][end[d]] = NULL][s][z] = IF s = e /\ z = end[d] THEN NULL ELSE kid[s][z]
      BY <1>1, <3>1, Updated
    <3> QED
      BY <3>1, <3>2 DEF kid
  <2> QED
    BY <1>1, <1>2, <1>5, <2>2, <2>3 DEF Linked, m2, d
<1> QED
  BY <1>4, <1>5

\* A round that moves x.
LEMMA PartedRound ==
  ASSUME NEW N \in Nat, NEW V, NEW m \in Memory(N, V), NEW S \in SUBSET (1..N), NEW key,
         NEW K, NEW U, NEW b, NEW root, NEW c, NEW n \in 1..N, n \notin S,
         Keyed(key, S \cup {n}), NEW i \in 1..N, NEW x, x # NULL,
         NEW end \in [Sides -> 1..N],
         Parted(N, key, K, U, b, root, c, S, n, i - 1, m, x, end),
         NEW e \in Sides, On(key, e, n, x)
  PROVE  \E c2 : Parted(N, key, K, U, b, root, c2, S, n, i,
                        Attached(m, end, e, x, K[Other(e)][x]), K[Other(e)][x],
                        [end EXCEPT ![e] = x])
<1> DEFINE d == Other(e)
           rest == K[d][x]
           m2 == Attached(m, end, e, x, rest)
           end2 == [end EXCEPT ![e] = x]
           M == Below(key, S, b, x)
           O == (S \ M) \cup {n}
           A == Part(key, S, b, x, e)
           KO == Outer(N, m, n, end)
           K2 == Outer(N, m2, n, end2)
           c2 == PutBounds(b, c, O, A, x, n, e)
<1>1. d \in Sides /\ d # e /\ Other(d) = e /\ \A s \in Sides : s = e \/ s = d
  BY SidesFacts
<1>2. /\ Tree(K, U, key, S, b, root)
      /\ x \in S /\ Cardinality(Below(key, S, b, x)) <= N - (i - 1)
      /\ \A z \in M, s \in Sides : m.kid[s][z] = K[s][z]
      /\ \A z \in M : z # x => m.u[z] = U[z]
      /\ \A s \in Sides : b[s][x] = IF end[s] = n THEN NULL ELSE end[s]
      /\ Tree(KO, m.u, key, O, c, n)
      /\ \A s \in Sides : /\ end[s] \in O
                          /\ end[s] # n => On(key, s, n, end[s]) /\ c[Other(s)][end[s]] = n
  BY DEF Parted, Rest
<1>3. /\ m2 \in Memory(N, V)
      /\ \A s \in Sides, z \in 1..N :
            m2.kid[s][z] = IF s = d /\ z = end[e] THEN x
                           ELSE IF s = e /\ z = end[d] /\ rest = NULL THEN NULL
                           ELSE m.kid[s][z]
      /\ \A z \in 1..N : m2.u[z] = IF z = x THEN end[e] ELSE m.u[z]
  BY <1>2, AttachedFacts
<1>4. end2 \in [Sides -> 1..N] /\ end2[e] = x /\ end2[d] = end[d]
  BY <1>1, <1>2
<1>5. /\ \A s \in Sides, z \in 1..N :
            KO[s][z] = IF z = n THEN IF end[s] = n THEN NULL ELSE m.kid[Other(s)][n]
                       ELSE IF z = end[Other(s)] THEN NULL ELSE m.kid[s][z]
      /\ \A s \in Sides, z \in 1..N :
            K2[s][z] = IF z = n THEN IF end2[s] = n THEN NULL ELSE m2.kid[Other(s)][n]
                       ELSE IF z = end2[Other(s)] THEN NULL ELSE m2.kid[s][z]
  BY DEF Outer
<1> HIDE DEF d, m2, end2, KO, K2
<1>6. Gap(K, U, key, S, b, root, x, n, O, KO, m.u, c, end[e], e)
  <2>1. end[e] = n => b[e][x] = NULL /\ KO[e][n] = NULL
    BY <1>2, <1>5
  <2>2. end[e] # n => /\ end[e] \in O /\ b[e][x] = end[e] /\ On(key, e, n, end[e])
                      /\ c[d][end[e]] = n
    BY <1>2 DEF d
  <2>3. end[e] # n => KO[d][end[e]] = NULL
    BY <1>1, <1>5
  <2> QED
    BY <1>2, <2>1, <2>2, <2>3 DEF Gap, d
<1>7. /\ \A y \in A : y \in S /\ y \notin O /\ y # n
      /\ x \in A /\ n \in O /\ O \in SUBSET (1..N) /\ A \in SUBSET (1..N)
  <2>1. /\ \A y \in A : y \in S /\ y \notin O /\ y # n
        /\ x \in A /\ n \in O
    <3> HIDE DEF A, O
    <3> QED
      BY <1>6, GapFacts DEF A
  <2> QED
    BY <2>1
<1>8. Put(K, U, x, n, O, KO, m.u, A, K2, m2.u, end[e], e)
  <2>1. ASSUME NEW z \in O, NEW s \in Sides
        PROVE  K2[s][z] = IF z = end[e] /\ s = (IF end[e] = n THEN e ELSE d) THEN x ELSE KO[s][z]
    <3>0. z \in 1..N /\ z # x /\ x # n
      BY <1>7
    <3>1. CASE z = n /\ s = e
      BY <1>1, <1>3, <1>4, <1>5, <3>0, <3>1 DEF d
    <3>2. CASE z = n /\ s = d
      BY <1>1, <1>3, <1>4, <1>5, <3>0, <3>2 DEF d
    <3>3. CASE z # n /\ s = d
      BY <1>1, <1>3, <1>4, <1>5, <3>0, <3>3 DEF d
    <3>4. CASE z # n /\ s = e
      BY <1>1, <1>3, <1>4, <1>5, <3>0, <3>4 DEF d
    <3> QED
      BY <1>1, <3>1, <3>2, <3>3, <3>4
  <2>2. ASSUME NEW z \in A, NEW s \in Sides
        PROVE  K2[s][z] = IF z = x /\ s = d THEN NULL ELSE K[s][z]
    <3>1. z \in 1..N /\ z # n /\ z \in M /\ z # end[e] /\ z # end[d]
      BY <1>1, <1>2, <1>7 DEF Part
    <3>2. m2.kid[s][z] = K[s][z]
      BY <1>2, <1>3, <3>1
    <3>3. K2[s][z] = IF z = end2[Other(s)] THEN NULL ELSE K[s][z]
      BY <1>5, <3>1, <3>2
    <3>4. CASE s = d
      BY <1>1, <1>4, <3>3, <3>4
    <3>5. CASE s = e
      BY <1>1, <1>4, <3>1, <3>3, <3>5 DEF d
    <3> QED
      BY <1>1, <3>4, <3>5
  <2>3. \A z \in O : m2.u[z] = m.u[z]
    BY <1>3, <1>7
  <2>4. \A z \in A : m2.u[z] = IF z = x THEN end[e] ELSE U[z]
    BY <1>2, <1>3, <1>7 DEF Part
  <2> QED
    BY <2>1, <2>2, <2>3, <2>4 DEF Put, d
<1>9. Tree(K2, m2.u, key, O \cup A, c2, n)
  <2> HIDE DEF A, O, c2
  <2> QED
    BY <1>6, <1>8, PutTree DEF A, c2
<1>10. /\ O \cup A = (S \ Rest(key, S, b, rest)) \cup {n}
       /\ rest # NULL => /\ rest \in S /\ Cardinality(Below(key, S, b, rest)) <= N - i
                         /\ Below(key, S, b, rest) = {y \in M : On(key, d, x, y)}
                         /\ b[d][rest] = b[d][x] /\ b[e][rest] = x
  <2>1. Keyed(key, S) /\ Bounded(key, S, b) /\ KidOf(K, U, key, S, b, x, d)
    BY <1>1, <1>2 DEF Tree
  <2>2. A = {y \in M : ~ On(key, d, x, y)}
    <3>1. \A y \in M : (y = x \/ On(key, e, x, y)) <=> ~ On(key, d, x, y)
      BY <1>1, <1>2, <2>1, Order DEF Below
    <3> QED
      BY <3>1 DEF Part
  <2>3. CASE rest = NULL
    <3>1. \A y \in M : ~ On(key, d, x, y)
      BY <1>1, <2>1, <2>3 DEF KidOf, Below, Within, Keyed
    <3>2. M \in SUBSET S
      BY DEF Below
    <3> QED
      BY <2>2, <2>3, <3>1, <3>2 DEF Rest
  <2>4. CASE rest # NULL
    <3>1. /\ rest \in S
          /\ Below(key, S, b, rest) = {y \in M : On(key, d, x, y)}
          /\ Cardinality(Below(key, S, b, rest)) < Cardinality(M)
      BY <1>1, <1>2, <2>4, KidBelow
    <3>2. Cardinality(Below(key, S, b, rest)) \in Nat /\ Cardinality(M) \in Nat
      BY <1>2, <2>1, <3>1, BelowFacts
    <3>3. Cardinality(Below(key, S, b, rest)) <= N - i
      <4> DEFINE k == Cardinality(Below(key, S, b, rest))
                 l == Cardinality(M)
      <4>1. k \in Nat /\ l \in Nat /\ k < l /\ l <= N - (i - 1)
        BY <1>2, <3>1, <3>2
      <4> HIDE DEF k, l
      <4>2. k <= N - i
        BY <4>1
      <4> QED
        BY <4>2 DEF k
    <3>4. b[d][rest] = b[d][x] /\ b[e][rest] = x
      BY <1>1, <2>1, <2>4 DEF KidOf
    <3>5. M \in SUBSET S
      BY DEF Below
    <3>6. Rest(key, S, b, rest) = {y \in M : On(key, d, x, y)}
      BY <2>4, <3>1 DEF Rest
    <3>7. O \cup A = (S \ Rest(key, S, b, rest)) \cup {n}
      <4> HIDE DEF M
      <4> QED
        BY <2>2, <3>5, <3>6
    <3> QED
      BY <3>1, <3>3, <3>4, <3>7
  <2> QED
    BY <2>3, <2>4
<1> HIDE DEF rest
<1>11. ASSUME rest # NULL
       PROVE  /\ \A z \in Below(key, S, b, rest), s \in Sides : m2.kid[s][z] = K[s][z]
              /\ \A z \in Below(key, S, b, rest) : z # rest => m2.u[z] = U[z]
              /\ \A s \in Sides : b[s][rest] = IF end2[s] = n THEN NULL ELSE end2[s]
  <2>1. ASSUME NEW z \in Below(key, S, b, rest)
        PROVE  z \in M /\ z # x /\ z \in 1..N /\ z # end[e] /\ z # end[d]
    <3>1. z \in M /\ On(key, d, x, z) /\ z \in S
      BY <1>10, <1>11 DEF Below
    <3>2. z # x
      BY <1>1, <1>2, <3>1, Order DEF Tree
    <3>3. z # end[e] /\ z # end[d]
      BY <1>1, <1>2, <3>1
    <3> QED
      BY <3>1, <3>2, <3>3
  <2>2. \A z \in Below(key, S, b, rest), s \in Sides : m2.kid[s][z] = K[s][z]
    BY <1>2, <1>3, <2>1
  <2>3. \A z \in Below(key, S, b, rest) : m2.u[z] = U[z]
    BY <1>2, <1>3, <2>1
  <2>4. \A s \in Sides : b[s][rest] = IF end2[s] = n THEN NULL ELSE end2[s]
    BY <1>1, <1>2, <1>4, <1>7, <1>10, <1>11
  <2> QED
    BY <2>2, <2>3, <2>4
<1>12. ASSUME rest = NULL, NEW s \in Sides
       PROVE  m2.kid[Other(s)][end2[s]] = NULL
  <2>1. x \in 1..N /\ end[d] \in 1..N /\ x \in M /\ x # end[e]
    <3>1. x \in M
      BY <1>2, BelowFacts DEF Tree
    <3> QED
      BY <1>1, <1>2, <1>7, <3>1
  <2>2. CASE s = d
    BY <1>1, <1>3, <1>4, <1>12, <2>1, <2>2
  <2>3. CASE s = e
    <3>1. m2.kid[d][x] = m.kid[d][x] /\ m.kid[d][x] = K[d][x]
      BY <1>1, <1>2, <1>3, <2>1
    <3> QED
      BY <1>4, <1>12, <2>3, <3>1 DEF d, rest
  <2> QED
    BY <1>1, <2>2, <2>3
<1>13. ASSUME NEW s \in Sides
       PROVE  /\ end2[s] \in O \cup A
              /\ end2[s] # n => On(key, s, n, end2[s]) /\ c2[Other(s)][end2[s]] = n
  <2>1. /\ \A z \in O, t \in Sides : c2[t][z] = c[t][z]
        /\ c2[d][x] = n
    BY <1>1, <1>7 DEF PutBounds, d
  <2> HIDE DEF c2, O, A
  <2>2. CASE s = e
    BY <1>1, <1>4, <1>7, <2>1, <2>2 DEF d
  <2>3. CASE s = d
    BY <1>1, <1>2, <1>4, <1>7, <2>1, <2>3
  <2> QED
    BY <1>1, <2>2, <2>3
<1> HIDE DEF O, A, c2, M
<1>14. Parted(N, key, K, U, b, root, c2, S, n, i, m2, rest, end2)
  BY <1>2, <1>9, <1>10, <1>11, <1>12, <1>13 DEF Parted, K2
<1> QED
  BY <1>14 DEF m2, rest, end2, d

\* A rotation of what is still below next.
PartTurned(N, key, K, U, b, c, S, n, i, m, m3, next, temp, end, d) ==
    /\ \E root2 : Parted(N, key, TurnedK(K, S, next, d), TurnedU(K, U, S, next, d),
          TurnedBounds(K, b, S, next, d), root2, c, S, n, i, m3, temp, end)
    /\ temp \in S /\ TurnedK(K, S, next, d)[d][temp] = m.kid[d][temp]
    /\ next \in S /\ next # temp
    /\ m.kid[Other(d)][temp] # next /\ m.kid[Other(d)][temp] \in S \cup {NULL}

\* It can be said of the tree that is turned there.
LEMMA PartedTurned ==
  ASSUME NEW N \in Nat, NEW V, NEW m \in Memory(N, V), NEW S \in SUBSET (1..N), NEW key,
         NEW K, NEW U, NEW b, NEW root, NEW c, NEW n \in 1..N, n \notin S,
         Keyed(key, S \cup {n}), NEW i, NEW next, next # NULL, NEW end \in [Sides -> 1..N],
         Parted(N, key, K, U, b, root, c, S, n, i, m, next, end),
         NEW d \in Sides, NEW temp, temp = m.kid[d][next], temp # NULL,
         NEW m2, NEW m3, Linked(N, V, m, m2, next, d, m.kid[Other(d)][temp]),
         Linked(N, V, m2, m3, temp, Other(d), next)
  PROVE  PartTurned(N, key, K, U, b, c, S, n, i, m, m3, next, temp, end, d)
<1> DEFINE e == Other(d)
           M == Below(key, S, b, next)
           O == (S \ M) \cup {n}
           K2 == TurnedK(K, S, next, d)
           U2 == TurnedU(K, U, S, next, d)
           b2 == TurnedBounds(K, b, S, next, d)
           j == m.kid[e][temp]
<1>1. e \in Sides /\ d # e /\ Other(e) = d /\ \A s \in Sides : s = e \/ s = d
  BY SidesFacts
<1>2. /\ Tree(K, U, key, S, b, root)
      /\ next \in S /\ Cardinality(M) <= N - i
      /\ \A z \in M, s \in Sides : m.kid[s][z] = K[s][z]
      /\ \A z \in M : z # next => m.u[z] = U[z]
      /\ \A s \in Sides : b[s][next] = IF end[s] = n THEN NULL ELSE end[s]
      /\ Tree(Outer(N, m, n, end), m.u, key, O, c, n)
      /\ \A s \in Sides : /\ end[s] \in O
                          /\ end[s] # n => On(key, s, n, end[s]) /\ c[Other(s)][end[s]] = n
  BY DEF Parted, Rest
<1>3. Keyed(key, S) /\ Bounded(key, S, b) /\ \A z \in S, s \in Sides : KidOf(K, U, key, S, b, z, s)
  BY <1>2 DEF Tree
<1>4. next \in M /\ temp = K[d][next]
  BY <1>2, <1>3, BelowFacts
<1>5. /\ temp \in S /\ temp \in M /\ temp # next /\ U[temp] = next
      /\ b[d][temp] = b[d][next] /\ b[e][temp] = next /\ Below(key, S, b, temp) \in SUBSET M
  <2>1. temp \in S /\ Below(key, S, b, temp) = {y \in M : On(key, d, next, y)}
        /\ On(key, d, next, temp)
    BY <1>2, <1>4, KidBelow
  <2>2. U[temp] = next /\ b[d][temp] = b[d][next] /\ b[e][temp] = next
    BY <1>2, <1>3, <1>4 DEF KidOf
  <2>3. temp \in Below(key, S, b, temp)
    BY <1>3, <2>1, BelowFacts
  <2>4. temp # next
    BY <1>2, <1>3, <2>1, Order
  <2> QED
    BY <2>1, <2>2, <2>3, <2>4
<1>6. j = K[e][temp] /\ (j # NULL => j \in M /\ j # next /\ j # temp /\ U[j] = temp)
  <2>1. j = K[e][temp]
    BY <1>1, <1>2, <1>5
  <2>2. j # NULL => j \in S /\ U[j] = temp /\ Below(key, S, b, j) \in SUBSET Below(key, S, b, temp)
    <3> SUFFICES ASSUME j # NULL
                 PROVE  j \in S /\ U[j] = temp /\ Below(key, S, b, j) \in SUBSET Below(key, S, b, temp)
      OBVIOUS
    <3>1. j \in S /\ Below(key, S, b, j) = {y \in Below(key, S, b, temp) : On(key, e, temp, y)}
      BY <1>1, <1>2, <1>5, <2>1, KidBelow
    <3>2. U[j] = temp
      BY <1>1, <1>3, <1>5, <2>1 DEF KidOf
    <3> QED
      BY <3>1, <3>2
  <2>3. j # NULL => b[e][j] = b[e][temp] /\ b[d][j] = temp
    BY <1>1, <1>3, <1>5, <2>1 DEF KidOf
  <2>4. j # NULL => j \in Below(key, S, b, j) /\ j # temp /\ j # next
    <3> SUFFICES ASSUME j # NULL
                 PROVE  j \in Below(key, S, b, j) /\ j # temp /\ j # next
      OBVIOUS
    <3> HIDE DEF j
    <3>1. j \in S /\ b[e][j] = next /\ b[d][j] = temp /\ next # NULL /\ temp # NULL
      BY <1>2, <1>3, <1>5, <2>2, <2>3 DEF Keyed
    <3>2. j \in Below(key, S, b, j)
      BY <1>3, <3>1, BelowFacts
    <3>3. On(key, e, j, next) /\ On(key, d, j, temp)
      BY <1>1, <1>3, <3>1 DEF Bounded
    <3> QED
      BY <1>1, <1>3, <3>1, <3>2, <3>3, Order
  <2> HIDE DEF j
  <2> QED
    BY <1>5, <2>1, <2>2, <2>4
<1> HIDE DEF j, e
<1>7. /\ m3 \in Memory(N, V)
      /\ \A s \in Sides, x \in 1..N : m3.kid[s][x] = IF s = d /\ x = next THEN j
                                        ELSE IF s = e /\ x = temp THEN next ELSE m.kid[s][x]
      /\ \A x \in 1..N : m3.u[x] = IF x = next THEN temp ELSE IF x = j THEN next ELSE m.u[x]
  <2>1. Linked(N, V, m, m2, next, d, j) /\ Linked(N, V, m2, m3, temp, e, next)
    BY DEF e, j
  <2> QED
    BY <1>1, <2>1 DEF Linked
<1>8. /\ \A x \in S, s \in Sides :
            K2[s][x] = IF s = d /\ x = next THEN j ELSE IF s = e /\ x = temp THEN next
                       ELSE IF K[s][x] = next THEN temp ELSE K[s][x]
      /\ \A x \in S : U2[x] = IF x = next THEN temp ELSE IF x = temp THEN U[next]
                              ELSE IF x = j THEN next ELSE U[x]
  BY <1>4, <1>6 DEF TurnedK, TurnedU, e
<1>9. \A s \in Sides : b2[s][temp] = b[s][next]
  BY <1>1, <1>4, <1>5 DEF TurnedBounds, e
<1>10. Tree(K2, U2, key, S, b2, IF next = root THEN K[d][next] ELSE root)
  <2> HIDE DEF K2, U2, b2
  <2> QED
    BY <1>2, <1>4, TurnedFacts, TurnedTree DEF K2, U2, b2
<1>11. Below(key, S, b2, temp) = M
  <2> HIDE DEF b2
  <2> QED
    BY <1>9 DEF Below, Within
<1>12. \A x \in M, s \in Sides : K[s][x] # next
  <2> SUFFICES ASSUME NEW x \in M, NEW s \in Sides, K[s][x] = next
               PROVE  FALSE
    OBVIOUS
  <2>1. x \in S /\ Within(key, b, next, x) /\ next # NULL
    BY <1>2, <1>3 DEF Below, Keyed
  <2>2. b[Other(s)][next] = x /\ x # NULL
    BY <1>3, <2>1 DEF KidOf, Keyed
  <2> QED
    BY <1>3, <2>1, <2>2, Order, SidesFacts DEF Within
<1>13. M \in SUBSET S /\ S \in SUBSET (1..N) /\ n \notin M
  BY DEF Below
<1> HIDE DEF M, K2, U2, b2
<1>14. \A x \in M, s \in Sides : m3.kid[s][x] = K2[s][x]
  <2> SUFFICES ASSUME NEW x \in M, NEW s \in Sides
               PROVE  m3.kid[s][x] = K2[s][x]
    OBVIOUS
  <2>1. x \in S /\ x \in 1..N /\ m.kid[s][x] = K[s][x] /\ K[s][x] # next
    BY <1>2, <1>12, <1>13
  <2> QED
    BY <1>7, <1>8, <2>1
<1>15. \A x \in M : x # temp => m3.u[x] = U2[x]
  <2> SUFFICES ASSUME NEW x \in M, x # temp
               PROVE  m3.u[x] = U2[x]
    OBVIOUS
  <2>1. x \in S /\ x \in 1..N /\ (x # next => m.u[x] = U[x])
    BY <1>2, <1>13
  <2> QED
    BY <1>7, <1>8, <2>1
<1>16. Tree(Outer(N, m3, n, end), m3.u, key, O, c, n)
  <2>1. ASSUME NEW x \in O
        PROVE  /\ m3.u[x] = m.u[x]
               /\ \A s \in Sides : Outer(N, m3, n, end)[s][x] = Outer(N, m, n, end)[s][x]
    <3>0. x \in 1..N /\ n \in 1..N /\ x # next /\ x # temp /\ x # j /\ n # next /\ n # temp
      <4>0. x = n \/ x \in S \ M
        OBVIOUS
      <4>1. x \notin M /\ x \in 1..N /\ x # NULL
        <5>1. x \notin M /\ x \in 1..N
          BY <1>13, <4>0
        <5> QED
          BY <5>1 DEF NULL
      <4> QED
        BY <1>4, <1>5, <1>6, <1>13, <4>1
    <3>1. m3.u[x] = m.u[x] /\ \A s \in Sides : m3.kid[s][x] = m.kid[s][x] /\ m3.kid[s][n] = m.kid[s][n]
      BY <1>7, <3>0
    <3>2. \A s \in Sides : Other(s) \in Sides
      BY SidesFacts
    <3> QED
      BY <3>0, <3>1, <3>2 DEF Outer
  <2> HIDE DEF O
  <2> QED
    BY <1>2, <2>1, Agree
<1>17. Parted(N, key, K2, U2, b2, IF next = root THEN K[d][next] ELSE root, c, S, n, i, m3, temp, end)
  BY <1>2, <1>5, <1>9, <1>10, <1>11, <1>14, <1>15, <1>16 DEF Parted, Rest, M
<1>18. K2[d][temp] = m.kid[d][temp]
  <2>1. temp \in 1..N
    BY <1>5
  <2> QED
    BY <1>1, <1>5, <1>7, <1>14, <2>1
<1> QED
  BY <1>2, <1>5, <1>6, <1>13, <1>17, <1>18 DEF PartTurned, K2, U2, b2, e, j

\* _sp_enq's loops, for the block n that becomes the root of q.
Splitting(N, V, m0, q, S, n, i, s) ==
    /\ s \in [m : Memory(N, V), next : 0..N, end : [Sides -> 1..N]]
    /\ Same(m0, s.m, N, S \cup {n}, q) /\ s.m.root = m0.root
    /\ \E K, U, b, root, c : Parted(N, m0.key, K, U, b, root, c, S, n, i, s.m, s.next, s.end)

\* A round that links x to an end.
Attaching(m, end, e, x, rest) ==
    [m |-> Attached(m, end, e, x, rest), next |-> rest, end |-> [end EXCEPT ![e] = x]]

\* x may be linked.
Attachable(N, V, m0, q, S, n, i, m, x, end, rest, K, U, b, root, c, e) ==
    /\ m \in Memory(N, V) /\ Same(m0, m, N, S \cup {n}, q) /\ m.root = m0.root
    /\ x # NULL /\ end \in [Sides -> 1..N] /\ rest \in 0..N
    /\ Parted(N, m0.key, K, U, b, root, c, S, n, i - 1, m, x, end)
    /\ e \in Sides /\ On(m0.key, e, n, x) /\ rest = K[Other(e)][x]

\* It is a round of the loops.
LEMMA AttachingRound ==
  ASSUME NEW N \in Nat, NEW V, NEW m0, NEW q \in AllTrees, NEW S \in SUBSET (1..N),
         NEW n \in 1..N, n \notin S, Keyed(m0.key, S \cup {n}), NEW i \in 1..N,
         NEW m, NEW x, NEW end, NEW rest, NEW K, NEW U, NEW b, NEW root, NEW c, NEW e,
         Attachable(N, V, m0, q, S, n, i, m, x, end, rest, K, U, b, root, c, e)
  PROVE  Splitting(N, V, m0, q, S, n, i, Attaching(m, end, e, x, rest))
<1> DEFINE m2 == Attached(m, end, e, x, rest)
           end2 == [end EXCEPT ![e] = x]
           s == Attaching(m, end, e, x, rest)
<1>0. /\ m \in Memory(N, V) /\ Same(m0, m, N, S \cup {n}, q) /\ m.root = m0.root
      /\ x # NULL /\ end \in [Sides -> 1..N] /\ rest \in 0..N
      /\ Parted(N, m0.key, K, U, b, root, c, S, n, i - 1, m, x, end)
      /\ e \in Sides /\ On(m0.key, e, n, x) /\ rest = K[Other(e)][x]
  BY DEF Attachable
<1> USE <1>0
<1>1. x \in S /\ \A t \in Sides : end[t] \in S \cup {n}
  BY DEF Parted
<1>2. /\ m2 \in Memory(N, V)
      /\ \A t \in Sides, z \in 1..N :
            m2.kid[t][z] = IF t = Other(e) /\ z = end[e] THEN x
                           ELSE IF t = e /\ z = end[Other(e)] /\ rest = NULL THEN NULL
                           ELSE m.kid[t][z]
      /\ \A z \in 1..N : m2.u[z] = IF z = x THEN end[e] ELSE m.u[z]
      /\ m2.key = m.key /\ m2.data = m.data /\ m2.eltscnt = m.eltscnt
      /\ m2.free = m.free /\ m2.root = m.root
  BY <1>1, AttachedFacts
<1>3. \E c2 : Parted(N, m0.key, K, U, b, root, c2, S, n, i, m2, rest, end2)
  BY PartedRound
<1> HIDE DEF m2
<1>4. Same(m0, m2, N, S \cup {n}, q)
  <2>1. \A z \in (1..N) \ (S \cup {n}) : z # x /\ z # end[e] /\ z # end[Other(e)]
    BY <1>1, SidesFacts
  <2>2. Same(m, m2, N, S \cup {n}, q)
    BY <1>2, <2>1 DEF Same
  <2> QED
    BY <2>2, SameAgain
<1>5. s.m = m2 /\ s.next = rest /\ s.end = end2
  BY DEF Attaching, m2
<1>6. end2 \in [Sides -> 1..N]
  BY <1>1
<1>7. s \in [m : Memory(N, V), next : 0..N, end : [Sides -> 1..N]]
  BY <1>2, <1>6 DEF Attaching, m2
<1> HIDE DEF s, end2
<1> QED
  BY <1>2, <1>3, <1>4, <1>5, <1>7 DEF Splitting, s

\* Memories with the same members are the same.
LEMMA MemoryEqual ==
  ASSUME NEW N \in Nat, NEW V, NEW m \in Memory(N, V), NEW m2 \in Memory(N, V),
         \A s \in Sides, x \in 1..N : m2.kid[s][x] = m.kid[s][x],
         \A x \in 1..N : m2.u[x] = m.u[x], m2.key = m.key, m2.data = m.data,
         m2.eltscnt = m.eltscnt, m2.free = m.free, m2.root = m.root
  PROVE  m2 = m
<1>1. m.kid \in [Sides -> [1..N -> 0..N]] /\ m2.kid \in [Sides -> [1..N -> 0..N]]
      /\ m.u \in [1..N -> 0..N] /\ m2.u \in [1..N -> 0..N]
  BY DEF Memory
<1>2. m2.u = m.u
  BY <1>1
<1>3. \A s \in Sides : m2.kid[s] = m.kid[s]
  <2> SUFFICES ASSUME NEW s \in Sides PROVE m2.kid[s] = m.kid[s]
    OBVIOUS
  <2>1. m.kid[s] \in [1..N -> 0..N] /\ m2.kid[s] \in [1..N -> 0..N]
    BY <1>1
  <2> DEFINE f == m.kid[s]
             g == m2.kid[s]
  <2>2. f \in [1..N -> 0..N] /\ g \in [1..N -> 0..N] /\ \A x \in 1..N : g[x] = f[x]
    BY <2>1
  <2> HIDE DEF f, g
  <2>3. g = f
    BY <2>2
  <2> QED
    BY <2>3 DEF f, g
<1>4. m2.kid = m.kid
  BY <1>1, <1>3
<1>5. /\ m = [kid |-> m.kid, u |-> m.u, key |-> m.key, data |-> m.data, root |-> m.root,
             eltscnt |-> m.eltscnt, free |-> m.free]
      /\ m2 = [kid |-> m2.kid, u |-> m2.u, key |-> m2.key, data |-> m2.data, root |-> m2.root,
              eltscnt |-> m2.eltscnt, free |-> m2.free]
  BY DEF Memory
<1> QED
  BY <1>2, <1>4, <1>5

\* Each round of the loops goes on with less.
LEMMA SplittingRound ==
  ASSUME NEW N \in Nat, NEW V, NEW m0, NEW q \in AllTrees, NEW S \in SUBSET (1..N),
         NEW n \in 1..N, n \notin S, Keyed(m0.key, S \cup {n}), NEW i \in 1..N,
         NEW s, Splitting(N, V, m0, q, S, n, i - 1, s)
  PROVE  Splitting(N, V, m0, q, S, n, i, SplitRound(n, s))
<1>1. /\ s \in [m : Memory(N, V), next : 0..N, end : [Sides -> 1..N]]
      /\ s.m \in Memory(N, V) /\ s.next \in 0..N /\ s.end \in [Sides -> 1..N]
      /\ Same(m0, s.m, N, S \cup {n}, q) /\ s.m.root = m0.root
  BY DEF Splitting
<1>2. PICK K, U, b, root, c :
         Parted(N, m0.key, K, U, b, root, c, S, n, i - 1, s.m, s.next, s.end)
  BY DEF Splitting
<1>3. CASE s.next = NULL
  <2>1. SplitRound(n, s) = s
    BY <1>3 DEF SplitRound
  <2>2. Parted(N, m0.key, K, U, b, root, c, S, n, i, s.m, s.next, s.end)
    BY <1>2, <1>3 DEF Parted
  <2> QED
    BY <1>1, <2>1, <2>2 DEF Splitting
<1>4. CASE s.next # NULL
  <2> DEFINE m == s.m
             next == s.next
             end == s.end
             d == IF m.key[next] < m.key[n] THEN "r" ELSE "l"
             e == Other(d)
             temp == m.kid[d][next]
             alone == temp = NULL \/ (m.key[temp] < m.key[n]) # (m.key[next] < m.key[n])
             first == Link(m, next, d, m.kid[e][temp])
             turned == Link(Link(first, end[e], d, temp), temp, e, next)
             moved == IF alone THEN Link(m, end[e], d, next) ELSE turned
             rest == IF alone THEN temp ELSE m.kid[d][temp]
  <2>1. SplitRound(n, s) =
           [m |-> IF rest = NULL THEN [moved EXCEPT !.kid[e][end[d]] = NULL] ELSE moved,
            next |-> rest, end |-> [end EXCEPT ![e] = IF alone THEN next ELSE temp]]
    BY <1>4 DEF SplitRound
  <2>2. m.key = m0.key
    BY <1>1 DEF Same
  <2>3. next \in S /\ next \in 1..N /\ next # NULL /\ \A t \in Sides : m.kid[t][next] = K[t][next]
    <3>1. next \in S /\ \A x \in Below(m0.key, S, b, next), t \in Sides : m.kid[t][x] = K[t][x]
      BY <1>2, <1>4 DEF Parted
    <3>2. next \in Below(m0.key, S, b, next)
      BY <1>2, <3>1, BelowFacts DEF Parted, Tree
    <3> QED
      BY <1>4, <3>1, <3>2
  <2>4. /\ d \in Sides /\ e \in Sides /\ Other(e) = d
        /\ On(m0.key, e, n, next)
    <3>1. n \in S \cup {n} /\ next \in S \cup {n} /\ n # next
      BY <2>3
    <3>2. m0.key[n] \in Int /\ m0.key[next] \in Int /\ m0.key[n] # m0.key[next]
      BY <3>1 DEF Keyed
    <3> QED
      BY <2>2, <3>2 DEF Sides, Other, On
  <2>5. m \in Memory(N, V) /\ m.kid \in [Sides -> [1..N -> 0..N]] /\ end \in [Sides -> 1..N]
    BY <1>1 DEF Memory
  <2>6. temp \in 0..N
    BY <2>3, <2>4, <2>5
  <2>7. CASE alone
    <3>1. SplitRound(n, s) = Attaching(m, end, e, next, temp)
      <4> HIDE DEF m, next, end, d, temp, alone, first, turned
      <4> QED
        BY <2>1, <2>4, <2>7 DEF Attaching, Attached
    <3>2. temp = K[Other(e)][next]
      BY <2>3, <2>4
    <3>3. Parted(N, m0.key, K, U, b, root, c, S, n, i - 1, m, next, end)
      BY <1>2
    <3>4. Same(m0, m, N, S \cup {n}, q) /\ m.root = m0.root
      BY <1>1
    <3> HIDE DEF m, next, end, d, e, temp
    <3>5. Attachable(N, V, m0, q, S, n, i, m, next, end, temp, K, U, b, root, c, e)
      BY <2>3, <2>4, <2>5, <2>6, <3>2, <3>3, <3>4 DEF Attachable
    <3> QED
      BY <3>1, <3>5, AttachingRound
  <2>8. CASE ~ alone
    <3>0. temp # NULL /\ ((m.key[temp] < m.key[n]) = (m.key[next] < m.key[n])) /\ temp \in 1..N
      <4> HIDE DEF m, next, end, d, e, temp, first, turned, moved, rest
      <4>1. temp # NULL /\ ((m.key[temp] < m.key[n]) = (m.key[next] < m.key[n]))
        BY <2>8 DEF alone
      <4>2. temp \in 1..N
        BY <2>6, <4>1 DEF NULL
      <4> QED
        BY <4>1, <4>2
    <3>1. Parted(N, m0.key, K, U, b, root, c, S, n, i - 1, m, next, end)
      BY <1>2
    <3>2. Same(m0, m, N, S \cup {n}, q) /\ m.root = m0.root
      BY <1>1
    <3>3. rest = m.kid[d][temp] /\ rest \in 0..N /\ m.kid[e][temp] \in 0..N
      BY <2>4, <2>5, <2>8, <3>0
    <3>4. SplitRound(n, s) =
             [m |-> IF rest = NULL THEN [turned EXCEPT !.kid[e][end[d]] = NULL] ELSE turned,
              next |-> rest, end |-> [end EXCEPT ![e] = temp]]
      <4> HIDE DEF m, next, end, d, e, temp, first, turned, alone, rest
      <4> QED
        BY <2>1, <2>8 DEF rest, moved
    <3> DEFINE m3 == Link(first, temp, e, next)
    <3> HIDE DEF m, next, end, d, e, temp, first, alone, rest, m3
    <3>5. Linked(N, V, m, first, next, d, m.kid[e][temp])
      BY <2>3, <2>4, <2>5, <3>3, LinkFacts DEF first
    <3>6. first \in Memory(N, V)
      BY <3>5 DEF Linked
    <3>7. Linked(N, V, first, m3, temp, e, next)
      <4>1. next \in 0..N
        BY <2>3
      <4> QED
        BY <2>4, <3>0, <3>6, <4>1, LinkFacts DEF m3
    <3> DEFINE K2 == TurnedK(K, S, next, d)
               U2 == TurnedU(K, U, S, next, d)
               b2 == TurnedBounds(K, b, S, next, d)
    <3>8. /\ \E root2 : Parted(N, m0.key, K2, U2, b2, root2, c, S, n, i - 1, m3, temp, end)
          /\ temp \in S /\ K2[d][temp] = m.kid[d][temp]
          /\ next \in S /\ next # temp
          /\ m.kid[e][temp] # next /\ m.kid[e][temp] \in S \cup {NULL}
      <4>1. e = Other(d) /\ temp = m.kid[d][next]
        BY DEF e, temp
      <4>2. Linked(N, V, m, first, next, d, m.kid[Other(d)][temp])
            /\ Linked(N, V, first, m3, temp, Other(d), next)
        BY <3>5, <3>7, <4>1
      <4>3. PartTurned(N, m0.key, K, U, b, c, S, n, i - 1, m, m3, next, temp, end, d)
        BY <2>3, <2>4, <2>5, <3>0, <3>1, <4>1, <4>2, PartedTurned
      <4> HIDE DEF K2, U2, b2
      <4> QED
        BY <4>1, <4>3 DEF PartTurned, K2, U2, b2
    <3> HIDE DEF K2, U2, b2
    <3>9. PICK root2 : Parted(N, m0.key, K2, U2, b2, root2, c, S, n, i - 1, m3, temp, end)
      BY <3>8
    <3>10. m3 \in Memory(N, V)
      BY <3>7 DEF Linked
    <3>11. /\ end[e] \in 1..N /\ end[e] # temp /\ end[e] # next
           /\ n # next /\ n # temp
      <4>1. next \in Below(m0.key, S, b, next) /\ end[e] \in (S \ Below(m0.key, S, b, next)) \cup {n}
        <5>1. Keyed(m0.key, S) /\ Bounded(m0.key, S, b)
          BY <3>1 DEF Parted, Tree
        <5>2. next \in Below(m0.key, S, b, next)
          BY <2>3, <5>1, BelowFacts
        <5> QED
          BY <2>3, <2>4, <3>1, <5>2 DEF Parted, Rest
      <4>2. temp \in Below(m0.key, S, b2, temp) /\ end[e] \in (S \ Below(m0.key, S, b2, temp)) \cup {n}
        <5>1. Keyed(m0.key, S) /\ Bounded(m0.key, S, b2)
          BY <3>9 DEF Parted, Tree
        <5>2. temp \in Below(m0.key, S, b2, temp)
          BY <3>8, <5>1, BelowFacts
        <5> QED
          BY <2>4, <3>0, <3>9, <5>2 DEF Parted, Rest
      <4> QED
        BY <2>4, <2>5, <3>8, <4>1, <4>2
    <3>12. turned = Link(m3, end[e], d, temp)
      <4> DEFINE second == Link(first, end[e], d, temp)
                 other == Link(m3, end[e], d, temp)
      <4>0. temp \in 0..N /\ next \in 0..N
        BY <2>3, <3>0
      <4> HIDE DEF second, other, turned
      <4>1. Linked(N, V, first, second, end[e], d, temp)
        BY <2>4, <3>6, <3>11, <4>0, LinkFacts DEF second
      <4>2. second \in Memory(N, V)
        BY <4>1 DEF Linked
      <4>3. Linked(N, V, second, turned, temp, e, next)
        BY <2>4, <3>0, <4>0, <4>2, LinkFacts DEF turned, second
      <4>4. Linked(N, V, m3, other, end[e], d, temp)
        BY <2>4, <3>10, <3>11, <4>0, LinkFacts DEF other
      <4>5. d # e
        BY <2>4, SidesFacts
      <4>6. \A t \in Sides, x \in 1..N : turned.kid[t][x] = other.kid[t][x]
        BY <3>7, <3>11, <4>1, <4>3, <4>4, <4>5 DEF Linked
      <4>7. \A x \in 1..N : turned.u[x] = other.u[x]
        BY <3>7, <3>8, <4>1, <4>3, <4>4 DEF Linked
      <4>8. /\ turned \in Memory(N, V) /\ other \in Memory(N, V)
            /\ turned.key = other.key /\ turned.data = other.data
            /\ turned.eltscnt = other.eltscnt /\ turned.free = other.free
            /\ turned.root = other.root
        BY <3>7, <4>1, <4>3, <4>4 DEF Linked
      <4>9. turned = other
        BY <4>6, <4>7, <4>8, MemoryEqual
      <4> QED
        BY <4>9 DEF other
    <3> HIDE DEF turned
    <3>13. SplitRound(n, s) = Attaching(m3, end, e, temp, rest)
      BY <2>4, <3>4, <3>12 DEF Attaching, Attached
    <3>14. On(m0.key, e, n, temp)
      <4>1. n \in S \cup {n} /\ temp \in S \cup {n} /\ next \in S \cup {n}
        BY <3>8
      <4>2. m0.key[n] \in Int /\ m0.key[next] \in Int /\ m0.key[temp] \in Int
            /\ m0.key[n] # m0.key[temp]
        BY <3>11, <4>1 DEF Keyed
      <4> QED
        BY <2>2, <2>4, <3>0, <4>2 DEF On
    <3>15. Same(m0, m3, N, S \cup {n}, q) /\ m3.root = m0.root
      <4>2. \A x \in (1..N) \ (S \cup {n}) : x # next /\ x # temp /\ x # m.kid[e][temp]
        BY <3>8 DEF NULL
      <4>3. Same(m, m3, N, S \cup {n}, q) /\ m3.root = m.root
        BY <3>5, <3>7, <4>2 DEF Linked, Same
      <4> QED
        BY <3>2, <4>3, SameAgain
    <3>16. rest = K2[Other(e)][temp]
      BY <2>4, <3>3, <3>8
    <3>17. Attachable(N, V, m0, q, S, n, i, m3, temp, end, rest, K2, U2, b2, root2, c, e)
      BY <2>4, <2>5, <3>0, <3>3, <3>9, <3>10, <3>14, <3>15, <3>16 DEF Attachable
    <3> QED
      BY <3>13, <3>17, AttachingRound
  <2> QED
    BY <2>7, <2>8
<1> QED
  BY <1>3, <1>4

\* n has been put into q, as its root.
Enqueued(N, V, m, m2, q, S, n) == /\ m2 \in Memory(N, V) /\ Same(m, m2, N, S \cup {n}, q)
                                  /\ m2.root[q] = n /\ Holds(m2, q, S \cup {n})

\* n's children are exchanged.
Swapped(m, n) == [m EXCEPT !.kid["l"][n] = m.kid["r"][n], !.kid["r"][n] = m.kid["l"][n]]

\* After the loops the two trees are the children of n, which are exchanged.
LEMMA SplittingEnds ==
  ASSUME NEW N \in Nat, NEW V, NEW m0, NEW q \in AllTrees, NEW S \in SUBSET (1..N),
         NEW n \in 1..N, n \notin S, m0.root[q] = n,
         NEW s, Splitting(N, V, m0, q, S, n, N, s)
  PROVE  Enqueued(N, V, m0, Swapped(s.m, n), q, S, n)
<1> DEFINE m == s.m
           end == s.end
           m2 == Swapped(m, n)
<1>1. /\ s \in [m : Memory(N, V), next : 0..N, end : [Sides -> 1..N]]
      /\ m \in Memory(N, V) /\ end \in [Sides -> 1..N]
      /\ Same(m0, m, N, S \cup {n}, q) /\ m.root = m0.root
  BY DEF Splitting
<1>2. PICK K, U, b, root, c :
         Parted(N, m0.key, K, U, b, root, c, S, n, N, m, s.next, end)
  BY DEF Splitting
<1>3. s.next = NULL
  <2> SUFFICES ASSUME s.next # NULL PROVE FALSE
    OBVIOUS
  <2>1. /\ Keyed(m0.key, S) /\ Bounded(m0.key, S, b)
        /\ s.next \in S /\ Cardinality(Below(m0.key, S, b, s.next)) <= N - N
    BY <1>2 DEF Parted, Tree
  <2>2. /\ Cardinality(Below(m0.key, S, b, s.next)) \in Nat
        /\ Cardinality(Below(m0.key, S, b, s.next)) # 0
    BY <2>1, BelowFacts
  <2> QED
    BY <2>1, <2>2
<1>4. /\ \A t \in Sides : m.kid[Other(t)][end[t]] = NULL
      /\ Tree(Outer(N, m, n, end), m.u, m0.key, S \cup {n}, c, n)
  BY <1>2, <1>3 DEF Parted, Rest
<1> HIDE DEF m, end
<1>5. /\ m2 \in Memory(N, V)
      /\ \A t \in Sides, x \in 1..N :
            m2.kid[t][x] = IF x = n THEN m.kid[Other(t)][n] ELSE m.kid[t][x]
      /\ m2.u = m.u /\ m2.key = m.key /\ m2.data = m.data /\ m2.eltscnt = m.eltscnt
      /\ m2.free = m.free /\ m2.root = m.root
  <2> DEFINE left == m.kid["r"][n]
             right == m.kid["l"][n]
             first == SetKid(m, n, "l", left)
             second == SetKid(first, n, "r", right)
  <2>1. m2 = second
    BY DEF Swapped, SetKid
  <2>2. /\ "l" \in Sides /\ "r" \in Sides /\ "l" # "r" /\ Other("l") = "r" /\ Other("r") = "l"
        /\ (\A t \in Sides : t = "l" \/ t = "r") /\ left \in 0..N /\ right \in 0..N
    <3>1. /\ "l" \in Sides /\ "r" \in Sides /\ "l" # "r" /\ Other("l") = "r" /\ Other("r") = "l"
          /\ (\A t \in Sides : t = "l" \/ t = "r")
      BY DEF Sides, Other
    <3>2. m.kid \in [Sides -> [1..N -> 0..N]]
      BY <1>1 DEF Memory
    <3> QED
      BY <3>1, <3>2
  <2> HIDE DEF m2, left, right
  <2>3. /\ first \in Memory(N, V)
        /\ \A t \in Sides, x \in 1..N :
              first.kid[t][x] = IF t = "l" /\ x = n THEN left ELSE m.kid[t][x]
        /\ first.u = m.u /\ first.key = m.key /\ first.data = m.data
        /\ first.eltscnt = m.eltscnt /\ first.free = m.free /\ first.root = m.root
    <3>1. KidSet(N, V, m, first, n, "l", left)
      BY <1>1, <2>2, KidFacts
    <3> HIDE DEF first
    <3> QED
      BY <3>1 DEF KidSet
  <2> HIDE DEF first
  <2>4. /\ second \in Memory(N, V)
        /\ \A t \in Sides, x \in 1..N :
              second.kid[t][x] = IF t = "r" /\ x = n THEN right ELSE first.kid[t][x]
        /\ second.u = first.u /\ second.key = first.key /\ second.data = first.data
        /\ second.eltscnt = first.eltscnt /\ second.free = first.free /\ second.root = first.root
    <3>1. KidSet(N, V, first, second, n, "r", right)
      BY <2>2, <2>3, KidFacts
    <3> HIDE DEF second
    <3> QED
      BY <3>1 DEF KidSet
  <2> HIDE DEF second
  <2>5. left = m.kid[Other("l")][n] /\ right = m.kid[Other("r")][n]
    BY <2>2 DEF left, right
  <2>6. \A t \in Sides, x \in 1..N :
            m2.kid[t][x] = IF x = n THEN m.kid[Other(t)][n] ELSE m.kid[t][x]
    BY <2>1, <2>2, <2>3, <2>4, <2>5
  <2> QED
    BY <2>1, <2>3, <2>4, <2>6
<1> HIDE DEF m2
<1>6. Tree(m2.kid, m2.u, m2.key, S \cup {n}, c, n)
  <2>1. m2.key = m0.key
    BY <1>1, <1>5 DEF Same
  <2>2. ASSUME NEW x \in S \cup {n}, NEW t \in Sides
        PROVE  m2.kid[t][x] = Outer(N, m, n, end)[t][x]
    <3>1. x \in 1..N /\ Other(t) \in Sides /\ Other(Other(t)) = t
      BY SidesFacts
    <3>2. Outer(N, m, n, end)[t][x] =
             IF x = n THEN IF end[t] = n THEN NULL ELSE m.kid[Other(t)][n]
             ELSE IF x = end[Other(t)] THEN NULL ELSE m.kid[t][x]
      BY <3>1 DEF Outer
    <3>3. m.kid[Other(t)][end[t]] = NULL /\ m.kid[t][end[Other(t)]] = NULL
      BY <1>4, <3>1
    <3> QED
      BY <1>5, <3>1, <3>2, <3>3
  <2> QED
    <3>1. \A x \in S \cup {n} : m2.u[x] = m.u[x] /\ m2.key[x] = m0.key[x]
      BY <1>5, <2>1
    <3> DEFINE O == S \cup {n}
               KO == Outer(N, m, n, end)
    <3>2. /\ Tree(KO, m.u, m0.key, O, c, n)
          /\ \A x \in O, t \in Sides : m2.kid[t][x] = KO[t][x]
          /\ \A x \in O : m2.u[x] = m.u[x] /\ m2.key[x] = m0.key[x]
      BY <1>4, <2>2, <3>1
    <3> HIDE DEF O, KO
    <3>3. Tree(m2.kid, m2.u, m2.key, O, c, n)
      BY <3>2, Agree
    <3> QED
      BY <3>3 DEF O
<1>7. Same(m0, m2, N, S \cup {n}, q)
  <2>1. Same(m, m2, N, S \cup {n}, q)
    BY <1>5 DEF Same
  <2> QED
    BY <1>1, <2>1, SameAgain
<1>8. m2.root[q] = n
  BY <1>1, <1>5
<1> QED
  BY <1>5, <1>6, <1>7, <1>8 DEF Enqueued, Holds, m2, m

\* What _sp_enq starts from.
Alone(m, q, n) == [m EXCEPT !.root[q] = n, !.u[n] = NULL, !.kid["l"][n] = NULL, !.kid["r"][n] = NULL]

\* What that does to the memory.
LEMMA AloneFacts ==
  ASSUME NEW N \in Nat, NEW V, NEW m \in Memory(N, V), NEW q \in AllTrees, NEW n \in 1..N
  PROVE  LET m2 == Alone(m, q, n)
         IN  /\ m2 \in Memory(N, V) /\ m2.root[q] = n
             /\ \A t \in Sides, x \in 1..N : m2.kid[t][x] = IF x = n THEN NULL ELSE m.kid[t][x]
             /\ \A x \in 1..N : m2.u[x] = IF x = n THEN NULL ELSE m.u[x]
             /\ m2.key = m.key /\ m2.data = m.data /\ m2.eltscnt = m.eltscnt
             /\ m2.free = m.free /\ \A t \in AllTrees \ {q} : m2.root[t] = m.root[t]
<1> DEFINE m2 == Alone(m, q, n)
           first == [m EXCEPT !.root[q] = n, !.u[n] = NULL]
           second == SetKid(first, n, "l", NULL)
           third == SetKid(second, n, "r", NULL)
<1>1. m2 = third
  BY DEF Alone, SetKid
<1>2. /\ "l" \in Sides /\ "r" \in Sides /\ (\A t \in Sides : t = "l" \/ t = "r")
      /\ NULL \in 0..N /\ n \in 0..N
      /\ m.u \in [1..N -> 0..N] /\ m.root \in [AllTrees -> 0..N]
  BY DEF Memory, Sides, NULL
<1>3. /\ first \in Memory(N, V) /\ first.kid = m.kid
      /\ first.u = [m.u EXCEPT ![n] = NULL] /\ first.root = [m.root EXCEPT ![q] = n]
      /\ first.key = m.key /\ first.data = m.data /\ first.eltscnt = m.eltscnt
      /\ first.free = m.free
  BY <1>2 DEF Memory
<1> HIDE DEF m2, first
<1>4. /\ second \in Memory(N, V)
      /\ \A t \in Sides, x \in 1..N :
            second.kid[t][x] = IF t = "l" /\ x = n THEN NULL ELSE first.kid[t][x]
      /\ second.u = first.u /\ second.key = first.key /\ second.data = first.data
      /\ second.eltscnt = first.eltscnt /\ second.free = first.free /\ second.root = first.root
  <2>1. KidSet(N, V, first, second, n, "l", NULL)
    BY <1>2, <1>3, KidFacts
  <2> HIDE DEF second
  <2> QED
    BY <2>1 DEF KidSet
<1> HIDE DEF second
<1>5. /\ third \in Memory(N, V)
      /\ \A t \in Sides, x \in 1..N :
            third.kid[t][x] = IF t = "r" /\ x = n THEN NULL ELSE second.kid[t][x]
      /\ third.u = second.u /\ third.key = second.key /\ third.data = second.data
      /\ third.eltscnt = second.eltscnt /\ third.free = second.free /\ third.root = second.root
  <2>1. KidSet(N, V, second, third, n, "r", NULL)
    BY <1>2, <1>4, KidFacts
  <2> HIDE DEF third
  <2> QED
    BY <2>1 DEF KidSet
<1> HIDE DEF third
<1>6. /\ \A x \in 1..N : first.u[x] = IF x = n THEN NULL ELSE m.u[x]
      /\ first.root[q] = n /\ \A t \in AllTrees \ {q} : first.root[t] = m.root[t]
  BY <1>2, <1>3
<1>7. \A t \in Sides, x \in 1..N : m2.kid[t][x] = IF x = n THEN NULL ELSE m.kid[t][x]
  BY <1>1, <1>2, <1>3, <1>4, <1>5
<1> QED
  BY <1>1, <1>3, <1>4, <1>5, <1>6, <1>7 DEF m2

\* Before the first round everything is below next.
LEMMA SplittingStarts ==
  ASSUME NEW N \in Nat, NEW V, NEW m \in Memory(N, V), NEW q \in AllTrees,
         NEW S \in SUBSET (1..N), Holds(m, q, S), NEW n \in 1..N, n \notin S,
         Keyed(m.key, S \cup {n})
  PROVE  Splitting(N, V, Alone(m, q, n), q, S, n, 0,
                   [m |-> Alone(m, q, n), next |-> m.root[q], end |-> [d \in Sides |-> n]])
<1> DEFINE m0 == Alone(m, q, n)
           next == m.root[q]
           end == [d \in Sides |-> n]
           c == [d \in Sides |-> [x \in {n} |-> NULL]]
           s == [m |-> m0, next |-> next, end |-> end]
<1>1. /\ m0 \in Memory(N, V) /\ m0.root[q] = n
      /\ \A t \in Sides, x \in 1..N : m0.kid[t][x] = IF x = n THEN NULL ELSE m.kid[t][x]
      /\ \A x \in 1..N : m0.u[x] = IF x = n THEN NULL ELSE m.u[x]
      /\ m0.key = m.key
  BY AloneFacts
<1>2. PICK b : Tree(m.kid, m.u, m.key, S, b, next)
  BY DEF Holds
<1>3. next \in 0..N
  BY DEF Memory
<1> HIDE DEF m0, next
<1>4. Tree(m0.kid, m0.u, m0.key, S, b, next)
  <2>1. /\ \A x \in S : m0.u[x] = m.u[x] /\ m0.key[x] = m.key[x]
        /\ \A x \in S, t \in Sides : m0.kid[t][x] = m.kid[t][x]
    BY <1>1
  <2> QED
    BY <1>2, <2>1, Agree
<1>5. next # NULL => /\ next \in S /\ Below(m0.key, S, b, next) = S
                     /\ \A t \in Sides : b[t][next] = NULL
  BY <1>4 DEF Tree, Below, Within
<1>6. S = Rest(m0.key, S, b, next)
  <2>1. next = NULL => S = {}
    BY <1>4 DEF Tree, Keyed
  <2> QED
    BY <1>5, <2>1 DEF Rest
<1>7. Cardinality(S) <= N - 0
  <2>1. Cardinality(S) \in Nat /\ Cardinality(S) <= N
    BY AtMost
  <2> QED
    BY <2>1
<1>8. \A t \in Sides : end[t] = n
  OBVIOUS
<1>9. Tree(Outer(N, m0, n, end), m0.u, m0.key, {n}, c, n)
  <2>1. Keyed(m0.key, {n})
    <3>1. n # NULL /\ m0.key[n] \in Int
      <4>1. m0.key[n] \in Int
        BY <1>1 DEF Keyed
      <4> QED
        BY <4>1 DEF NULL
    <3>2. IsFiniteSet({n})
      BY FS_Singleton
    <3> QED
      BY <3>1, <3>2 DEF Keyed
  <2>2. \A t \in Sides : c[t][n] = NULL /\ Outer(N, m0, n, end)[t][n] = NULL
    BY <1>8 DEF Outer
  <2>3. m0.u[n] = NULL
    BY <1>1
  <2> HIDE DEF c, end
  <2>4. \A t \in Sides : ~ On(m0.key, t, n, n)
    BY <2>1, Order
  <2>5. Bounded(m0.key, {n}, c)
    BY <2>2 DEF Bounded
  <2>6. \A t \in Sides : KidOf(Outer(N, m0, n, end), m0.u, m0.key, {n}, c, n, t)
    BY <2>2, <2>4 DEF KidOf
  <2> QED
    BY <2>1, <2>2, <2>3, <2>5, <2>6 DEF Tree
<1>10. Parted(N, m0.key, m0.kid, m0.u, b, next, c, S, n, 0, m0, next, end)
  <2>1. (S \ Rest(m0.key, S, b, next)) \cup {n} = {n}
    BY <1>6
  <2>2. next = NULL => \A t \in Sides : m0.kid[Other(t)][end[t]] = NULL
    BY <1>1, <1>8, SidesFacts
  <2>3. \A t \in Sides : /\ end[t] \in {n}
                         /\ end[t] # n => On(m0.key, t, n, end[t]) /\ c[Other(t)][end[t]] = n
    BY <1>8
  <2> HIDE DEF c, end
  <2> QED
    BY <1>4, <1>5, <1>7, <1>8, <1>9, <2>1, <2>2, <2>3 DEF Parted
<1>11. s \in [m : Memory(N, V), next : 0..N, end : [Sides -> 1..N]]
       /\ s.m = m0 /\ s.next = next /\ s.end = end
  BY <1>1, <1>3
<1>12. Same(m0, m0, N, S \cup {n}, q)
  BY DEF Same
<1> HIDE DEF s, c, end
<1>13. Splitting(N, V, m0, q, S, n, 0, s)
  BY <1>10, <1>11, <1>12 DEF Splitting
<1> QED
  BY <1>13 DEF s, m0, next, end

\* _sp_enq makes a block that is in no tree, with a key that is in no block, the root.
LEMMA EnqPuts ==
  ASSUME NEW N \in Nat, NEW V, NEW m \in Memory(N, V), NEW q \in AllTrees,
         NEW S \in SUBSET (1..N), Holds(m, q, S), NEW n \in 1..N, n \notin S,
         Keyed(m.key, S \cup {n})
  PROVE  Enqueued(N, V, m, _sp_enq(m, q, n), q, S, n)
<1> DEFINE m0 == Alone(m, q, n)
           rd(s) == SplitRound(n, s)
           start == [m |-> m0, next |-> m.root[q], end |-> [d \in Sides |-> n]]
           rounds == CHOOSE f : f = [i \in 0..N |-> IF i = 0 THEN start ELSE rd(f[i - 1])]
           X == [m : Memory(N, V), next : 0..N, end : [Sides -> 1..N]]
           r == [s \in X |-> rd(s)]
           W == [i \in 0..N |-> {s \in X : Splitting(N, V, m0, q, S, n, i, s)}]
           s == rounds[N]
<1>1. Len(m.key) = N
  BY Length DEF Memory
<1>2. _sp_enq(m, q, n) = Swapped(s.m, n)
  BY <1>1 DEF _sp_enq, Loop, Swapped, Alone
<1>3. W \in [0..N -> SUBSET X] /\ \A t \in X : r[t] = rd(t)
  OBVIOUS
<1>4. \A i, t : Splitting(N, V, m0, q, S, n, i, t) => t \in X
  BY DEF Splitting
<1>0. /\ m0 \in Memory(N, V) /\ m0.root[q] = n
      /\ \A t \in Sides, x \in 1..N : m0.kid[t][x] = IF x = n THEN NULL ELSE m.kid[t][x]
      /\ \A x \in 1..N : m0.u[x] = IF x = n THEN NULL ELSE m.u[x]
      /\ m0.key = m.key /\ m0.data = m.data /\ m0.eltscnt = m.eltscnt
      /\ m0.free = m.free /\ \A t \in AllTrees \ {q} : m0.root[t] = m.root[t]
  BY AloneFacts
<1>5. start \in W[0]
  <2>1. Splitting(N, V, m0, q, S, n, 0, start)
    BY SplittingStarts
  <2> HIDE DEF X, start
  <2> QED
    BY <1>4, <2>1
<1> HIDE DEF start, X, rd, r, m0
<1>6. ASSUME NEW i \in 1..N, NEW t \in W[i - 1]
      PROVE  r[t] \in W[i]
  <2>1. i - 1 \in 0..N /\ i \in 0..N
    OBVIOUS
  <2>2. t \in X /\ Splitting(N, V, m0, q, S, n, i - 1, t)
    BY <2>1
  <2>3. Splitting(N, V, m0, q, S, n, i, rd(t))
    <3>1. Keyed(m0.key, S \cup {n})
      BY <1>0
    <3> QED
      BY <2>2, <3>1, SplittingRound DEF rd
  <2> QED
    BY <1>3, <1>4, <2>1, <2>2, <2>3
<1>7. \A t \in W[N] : Splitting(N, V, m0, q, S, n, N, t)
  OBVIOUS
<1> HIDE DEF W
<1>8. Steps(N, X, W, start, r)
  BY <1>3, <1>5, <1>6 DEF Steps
<1>9. PICK f : Run(f, N, X, start, r)
  BY <1>8, Rounds
<1>10. f = [i \in 0..N |-> IF i = 0 THEN start ELSE rd(f[i - 1])]
  BY <1>3, <1>9 DEF Run
<1>11. rounds = [i \in 0..N |-> IF i = 0 THEN start ELSE rd(rounds[i - 1])]
  BY <1>10
<1> HIDE DEF rounds
<1>12. Follows(rounds, N, X, start, r)
  BY <1>3, <1>11 DEF Follows
<1>13. rounds[N] \in W[N]
  BY <1>8, <1>12, Rounds
<1>14. Splitting(N, V, m0, q, S, n, N, s)
  BY <1>7, <1>13
<1> HIDE DEF s
<1>15. Enqueued(N, V, m0, Swapped(s.m, n), q, S, n)
  BY <1>0, <1>14, SplittingEnds
<1>16. Same(m, m0, N, S \cup {n}, q)
  BY <1>0 DEF Same
<1> QED
  BY <1>2, <1>15, <1>16, SameAgain DEF Enqueued

(***************************************************************************)
(* _sp_deq and sp_delete: the root is replaced by the block after it.      *)
(***************************************************************************)

\* x, the first block after the root n, has been taken out of the tree of K.
Cut(K, U, key, S, b, n, x, kid, u) ==
    /\ Tree(K, U, key, S, b, n) /\ n \in S
    /\ x \in S /\ x # n /\ K["l"][x] = NULL /\ b["l"][x] = n
    /\ \A z \in S \ {x}, s \in Sides : kid[s][z] = IF K[s][z] = x THEN K["r"][x] ELSE K[s][z]
    /\ \A z \in S \ {x} : U[x] # n \/ z # K["r"][x] =>
                             u[z] = IF z = K["r"][x] THEN U[x] ELSE U[z]

\* It becomes the root instead of n.
Headed(kid, u, S, n, x, K2, U2) ==
    /\ \A z \in S \ {n}, s \in Sides : K2[s][z] = IF z = x THEN kid[s][n] ELSE kid[s][z]
    /\ \A z \in S \ {n} : U2[z] = IF z = x THEN NULL
                                  ELSE IF \E s \in Sides : z = kid[s][n] THEN x ELSE u[z]

\* That is a tree without n.
LEMMA CutTree ==
  ASSUME NEW K, NEW U, NEW key, NEW S, NEW b, NEW n, NEW x, NEW kid, NEW u,
         Cut(K, U, key, S, b, n, x, kid, u), NEW K2, NEW U2, Headed(kid, u, S, n, x, K2, U2)
  PROVE  \E b2 : Tree(K2, U2, key, S \ {n}, b2, x)
<1> DEFINE T == S \ {n}
           b2 == [s \in Sides |-> [z \in T |-> IF z = x THEN NULL
                                               ELSE IF b[s][z] = n THEN x ELSE b[s][z]]]
           k == K["r"][x]
<1>a. /\ \A z \in S \ {n}, s \in Sides : K2[s][z] = IF z = x THEN kid[s][n] ELSE kid[s][z]
      /\ \A z \in S \ {n} : U2[z] = IF z = x THEN NULL
                                    ELSE IF \E s \in Sides : z = kid[s][n] THEN x ELSE u[z]
  BY DEF Headed
<1> USE <1>a
<1>0. /\ Tree(K, U, key, S, b, n) /\ n \in S
      /\ x \in S /\ x # n /\ K["l"][x] = NULL /\ b["l"][x] = n
      /\ \A z \in S \ {x}, s \in Sides : kid[s][z] = IF K[s][z] = x THEN k ELSE K[s][z]
      /\ \A z \in S \ {x} : U[x] # n \/ z # k => u[z] = IF z = k THEN U[x] ELSE U[z]
  BY DEF Cut
<1>1. /\ Keyed(key, S) /\ Bounded(key, S, b) /\ NULL \notin S
      /\ \A z \in S, s \in Sides : KidOf(K, U, key, S, b, z, s)
      /\ U[n] = NULL /\ \A s \in Sides : b[s][n] = NULL
  BY <1>0 DEF Tree, Keyed
<1>2. "l" \in Sides /\ "r" \in Sides /\ Other("l") = "r" /\ Other("r") = "l" /\ "l" # "r"
      /\ \A s \in Sides : s = "l" \/ s = "r"
  BY SidesFacts DEF Sides
<1>3. On(key, "r", n, x) /\ On(key, "l", x, n)
  BY <1>0, <1>1, <1>2, Order DEF Bounded
<1>4. \A y \in S : On(key, "r", n, y) => y = x \/ On(key, "r", x, y)
  <2>1. \A y \in S : On(key, "l", x, y) => ~ On(key, "l", y, n)
    BY <1>0, <1>1, <1>2 DEF KidOf
  <2> QED
    BY <1>0, <1>1, <1>2, <2>1, Order
<1>5. \A y \in S : On(key, "l", x, y) => y = n \/ On(key, "l", n, y)
  BY <1>0, <1>1, <1>2, <1>4, Order
<1>6. /\ \A z \in T, s \in Sides : b2[s][z] = IF z = x THEN NULL
                                              ELSE IF b[s][z] = n THEN x ELSE b[s][z]
      /\ x \in T /\ T \in SUBSET S /\ n \notin T /\ \A z \in S : z = n \/ z \in T
  BY <1>0
<1>7. Keyed(key, T)
  BY <1>1, FS_Subset DEF Keyed
<1>8. k # NULL => /\ k \in S /\ U[k] = x /\ b["r"][k] = b["r"][x] /\ b["l"][k] = x /\ k # x /\ k # n
  <2>1. k # NULL => k \in S /\ U[k] = x /\ b["r"][k] = b["r"][x] /\ b["l"][k] = x
    BY <1>0, <1>1, <1>2 DEF KidOf
  <2>2. k # NULL => On(key, "l", k, x)
    BY <1>0, <1>1, <1>2, <2>1 DEF Bounded
  <2> QED
    BY <1>0, <1>1, <1>2, <2>1, <2>2, Order
<1>9. \A z \in S, s \in Sides : K[s][z] # NULL => K[s][z] \in S /\ U[K[s][z]] = z /\ K[s][z] # n
                                                 /\ b[s][K[s][z]] = b[s][z] /\ b[Other(s)][K[s][z]] = z
  BY <1>1 DEF KidOf
\* Its place.
<1>10. \A z \in S, s \in Sides : K[s][z] = x => z = U[x] /\ (z = n => s = "r") /\ (z # n => s = "l")
  BY <1>0, <1>1, <1>2, <1>3, <1>9
<1> HIDE DEF T, b2, k
\* The children of the new root.
<1>11. ASSUME NEW s \in Sides
       PROVE  \/ /\ kid[s][n] \in T /\ U2[kid[s][n]] = x
                 /\ b2[s][kid[s][n]] = NULL /\ b2[Other(s)][kid[s][n]] = x
              \/ kid[s][n] = NULL /\ \A y \in T : ~ On(key, s, x, y)
  <2>1. CASE K[s][n] = x
    <3>1. s = "r" /\ U[x] = n /\ kid[s][n] = k
      BY <1>0, <1>10, <2>1
    <3>2. b[s][x] = NULL
      BY <1>0, <1>1, <1>9, <2>1
    <3>3. CASE k = NULL
      <4>1. \A y \in S : ~ On(key, "r", x, y)
        BY <1>0, <1>1, <1>2, <3>1, <3>2, <3>3 DEF KidOf, k
      <4> QED
        BY <1>6, <3>1, <3>3, <4>1
    <3>4. CASE k # NULL
      <4>1. k \in T /\ U2[k] = x
        BY <1>6, <1>8, <3>1, <3>4
      <4>2. k \in T /\ k # x /\ b["r"][k] = NULL /\ b["l"][k] = x
        BY <1>8, <3>1, <3>2, <3>4, <4>1
      <4>3. b2["r"][k] = NULL
        BY <1>1, <1>2, <1>6, <1>0, <4>2
      <4>4. b2["l"][k] = x
        BY <1>2, <1>6, <1>0, <4>2
      <4> QED
        BY <1>2, <3>1, <4>1, <4>3, <4>4
    <3> QED
      BY <3>3, <3>4
  <2>2. CASE K[s][n] # x /\ K[s][n] # NULL
    <3>1. kid[s][n] = K[s][n] /\ K[s][n] \in S /\ K[s][n] # n
      BY <1>0, <1>9, <2>2
    <3>2. K[s][n] \in T /\ U2[K[s][n]] = x
      BY <1>6, <2>2, <3>1
    <3>3. b[s][K[s][n]] = NULL /\ b[Other(s)][K[s][n]] = n
      BY <1>0, <1>1, <1>9, <2>2
    <3> QED
      BY <1>0, <1>1, <1>2, <1>6, <2>2, <3>1, <3>2, <3>3
  <2>3. CASE K[s][n] = NULL
    <3>1. kid[s][n] = NULL /\ \A y \in S : ~ On(key, s, n, y)
      BY <1>0, <1>1, <2>3 DEF KidOf
    <3>2. s = "l"
      BY <1>0, <1>2, <1>3, <3>1
    <3>3. \A y \in T : ~ On(key, "l", x, y)
      BY <1>5, <1>6, <3>1, <3>2
    <3> QED
      BY <3>1, <3>2, <3>3
  <2> QED
    BY <2>1, <2>2, <2>3
<1>12. Bounded(key, T, b2)
  <2> SUFFICES ASSUME NEW z \in T, NEW s \in Sides, b2[s][z] # NULL
               PROVE  b2[s][z] \in T /\ On(key, s, z, b2[s][z])
    BY DEF Bounded
  <2>1. z # x /\ z \in S /\ z # n /\ b2[s][z] = IF b[s][z] = n THEN x ELSE b[s][z]
    BY <1>6
  <2>2. CASE b[s][z] = n
    <3>1. On(key, s, z, n)
      BY <1>0, <1>1, <2>1, <2>2 DEF Bounded
    <3> QED
      BY <1>0, <1>1, <1>2, <1>3, <1>4, <1>6, <2>1, <2>2, <3>1, Order
  <2>3. CASE b[s][z] # n
    BY <1>1, <1>6, <2>1, <2>3 DEF Bounded
  <2> QED
    BY <2>2, <2>3
<1>13. \A s \in Sides : KidOf(K2, U2, key, T, b2, x, s)
  <2> SUFFICES ASSUME NEW s \in Sides
               PROVE  KidOf(K2, U2, key, T, b2, x, s)
    OBVIOUS
  <2>1. K2[s][x] = kid[s][n] /\ b2[s][x] = NULL
    BY <1>0, <1>6
  <2> QED
    BY <1>11, <2>1 DEF KidOf
<1>14. ASSUME NEW z \in T, z # x, NEW s \in Sides
       PROVE  KidOf(K2, U2, key, T, b2, z, s)
  <2>1. z \in S /\ z # n /\ K2[s][z] = (IF K[s][z] = x THEN k ELSE K[s][z])
        /\ b2[s][z] = (IF b[s][z] = n THEN x ELSE b[s][z])
    BY <1>0, <1>6, <1>14
  <2>2. CASE K[s][z] = x
    <3>1. z = U[x] /\ s = "l" /\ b[s][z] = n /\ b["r"][x] = z
      BY <1>0, <1>1, <1>2, <1>9, <1>10, <2>1, <2>2
    <3>2. CASE k # NULL
      <4>1. k \in T /\ k # x /\ \A t \in Sides : kid[t][n] # k
        <5>1. ASSUME NEW t \in Sides, kid[t][n] = k PROVE FALSE
          <6>1. K[t][n] # x
            BY <1>0, <1>10, <2>1, <3>1
          <6>2. K[t][n] = k
            BY <1>0, <5>1, <6>1
          <6> QED
            BY <1>0, <1>8, <1>9, <3>2, <6>2
        <5> QED
          BY <1>6, <1>8, <3>2, <5>1
      <4>2. U2[k] = z
        BY <1>0, <1>6, <1>8, <2>1, <3>1, <4>1
      <4>3. b2["l"][k] = x /\ b2["r"][k] = z
        BY <1>0, <1>2, <1>6, <1>8, <2>1, <3>1, <3>2, <4>1
      <4> QED
        BY <1>2, <2>1, <2>2, <3>1, <4>1, <4>2, <4>3 DEF KidOf
    <3>3. CASE k = NULL
      <4>1. \A y \in S : On(key, "r", x, y) => ~ On(key, "r", y, z)
        BY <1>0, <1>1, <1>2, <2>1, <3>1, <3>3 DEF KidOf, k
      <4>2. \A y \in T : On(key, "l", z, y) => x # NULL /\ ~ On(key, "l", y, x)
        BY <1>0, <1>1, <1>2, <1>6, <2>1, <4>1, Order
      <4> QED
        BY <2>1, <2>2, <3>1, <3>3, <4>2 DEF KidOf
    <3> QED
      BY <3>2, <3>3
  <2>3. CASE K[s][z] # x /\ K[s][z] # NULL
    <3> DEFINE c == K[s][z]
    <3>1. c \in T /\ c # x /\ U[c] = z /\ b[s][c] = b[s][z] /\ b[Other(s)][c] = z
      BY <1>6, <1>9, <2>1, <2>3
    <3> HIDE DEF c
    <3>2. c # k /\ \A t \in Sides : kid[t][n] # c
      <4>1. c # k
        BY <1>6, <1>8, <1>14, <1>1, <3>1
      <4>2. ASSUME NEW t \in Sides, kid[t][n] = c PROVE FALSE
        <5>1. K[t][n] = c
          BY <1>0, <4>1, <4>2
        <5> QED
          BY <1>0, <1>1, <1>6, <1>9, <2>1, <3>1, <5>1
      <4> QED
        BY <4>1, <4>2
    <3>3. U2[c] = z
      BY <1>0, <1>6, <3>1, <3>2
    <3>4. b2[s][c] = b2[s][z] /\ b2[Other(s)][c] = z
      BY <1>2, <1>6, <2>1, <3>1
    <3> QED
      BY <2>1, <2>3, <3>1, <3>3, <3>4 DEF KidOf, c
  <2>4. CASE K[s][z] = NULL
    <3>1. \A y \in S : On(key, s, z, y) => b[s][z] # NULL /\ ~ On(key, s, y, b[s][z])
      BY <1>1, <2>1, <2>4 DEF KidOf
    <3>2. K2[s][z] = NULL
      BY <1>0, <1>1, <2>1, <2>4
    <3>3. CASE b[s][z] # n
      BY <1>6, <2>1, <3>1, <3>2, <3>3 DEF KidOf
    <3>4. CASE b[s][z] = n
      <4>1. On(key, s, z, n)
        BY <1>0, <1>1, <2>1, <3>4 DEF Bounded
      <4>2. s = "r"
        BY <1>0, <1>1, <1>2, <1>3, <1>4, <1>14, <2>1, <3>1, <3>4, <4>1, Order
      <4>3. \A y \in T : On(key, "r", z, y) => ~ On(key, "r", y, x)
        BY <1>0, <1>1, <1>2, <1>3, <1>4, <1>6, <2>1, <3>1, <3>4, <4>2, Order
      <4> QED
        BY <1>0, <1>1, <2>1, <3>2, <3>4, <4>2, <4>3 DEF KidOf
    <3> QED
      BY <3>3, <3>4
  <2> QED
    BY <2>2, <2>3, <2>4
<1>15. x \in T /\ U2[x] = NULL /\ \A s \in Sides : b2[s][x] = NULL
  BY <1>6
<1>16. Tree(K2, U2, key, T, b2, x)
  BY <1>7, <1>12, <1>13, <1>14, <1>15 DEF Tree
<1> QED
  BY <1>16 DEF T

\* A root without a right child makes way for its left one.
Unheaded(K, U, S, n, K2, U2) ==
    /\ \A z \in S \ {n}, s \in Sides : K2[s][z] = K[s][z]
    /\ \A z \in S \ {n} : U2[z] = IF z = K["l"][n] THEN NULL ELSE U[z]

\* That is a tree without n.
LEMMA Beheaded ==
  ASSUME NEW K, NEW U, NEW key, NEW S, NEW b, NEW n, Tree(K, U, key, S, b, n), n \in S,
         K["r"][n] = NULL, NEW K2, NEW U2, Unheaded(K, U, S, n, K2, U2)
  PROVE  \E b2 : Tree(K2, U2, key, S \ {n}, b2, K["l"][n])
<1> DEFINE T == S \ {n}
           b2 == [s \in Sides |-> [z \in T |-> IF b[s][z] = n THEN NULL ELSE b[s][z]]]
           root == K["l"][n]
<1>a. /\ \A z \in S \ {n}, s \in Sides : K2[s][z] = K[s][z]
      /\ \A z \in S \ {n} : U2[z] = IF z = root THEN NULL ELSE U[z]
  BY DEF Unheaded
<1> USE <1>a
<1>1. /\ Keyed(key, S) /\ Bounded(key, S, b) /\ NULL \notin S
      /\ \A z \in S, s \in Sides : KidOf(K, U, key, S, b, z, s)
      /\ U[n] = NULL /\ \A s \in Sides : b[s][n] = NULL
  BY DEF Tree, Keyed
<1>2. "l" \in Sides /\ "r" \in Sides /\ Other("l") = "r" /\ Other("r") = "l" /\ "l" # "r"
      /\ \A s \in Sides : s = "l" \/ s = "r"
  BY SidesFacts DEF Sides
<1>3. \A y \in S : ~ On(key, "r", n, y)
  BY <1>1, <1>2 DEF KidOf
<1>4. \A y \in T : y \in S /\ y # n /\ On(key, "l", n, y) /\ On(key, "r", y, n)
  BY <1>1, <1>2, <1>3, Order
<1>5. \A z \in T, s \in Sides : b2[s][z] = IF b[s][z] = n THEN NULL ELSE b[s][z]
  OBVIOUS
<1>6. Keyed(key, T)
  BY <1>1, FS_Subset DEF Keyed
<1>7. \A z \in S, s \in Sides : K[s][z] # NULL => K[s][z] \in T /\ U[K[s][z]] = z
  BY <1>1 DEF KidOf
<1>8. \A y \in S : y = n \/ y \in T
  OBVIOUS
<1>9. n \notin T
  OBVIOUS
<1> HIDE DEF T, b2
<1>10. Bounded(key, T, b2)
  BY <1>1, <1>4, <1>5, <1>8 DEF Bounded
<1>11. ASSUME NEW z \in T, NEW s \in Sides
       PROVE  KidOf(K2, U2, key, T, b2, z, s)
  <2>1. z \in S /\ z # n /\ K2[s][z] = K[s][z]
    BY <1>4 DEF T
  <2>2. CASE K[s][z] # NULL
    <3> DEFINE c == K[s][z]
    <3>1. c \in T /\ U[c] = z /\ b[s][c] = b[s][z] /\ b[Other(s)][c] = z
      BY <1>1, <1>7, <2>1, <2>2 DEF KidOf
    <3> HIDE DEF c
    <3>2. c # root
      <4>1. c # NULL /\ z # n
        BY <1>1, <1>4, <2>1, <3>1
      <4>2. c = root => U[c] = n
        BY <1>2, <1>7, <4>1
      <4> QED
        BY <3>1, <4>1, <4>2
    <3>3. U2[c] = z /\ b2[s][c] = b2[s][z] /\ b2[Other(s)][c] = z
      BY <1>2, <1>5, <2>1, <3>1, <3>2 DEF T
    <3> QED
      BY <2>1, <3>1, <3>3 DEF KidOf, c
  <2>3. CASE K[s][z] = NULL
    <3>1. \A y \in S : On(key, s, z, y) => b[s][z] # NULL /\ ~ On(key, s, y, b[s][z])
      BY <1>1, <2>1, <2>3 DEF KidOf
    <3>2. \A y \in T : On(key, s, z, y) => b[s][z] # n
      <4>1. CASE s = "r"
        BY <1>4, <3>1, <4>1
      <4>2. CASE s = "l"
        <5>1. b[s][z] # n
          BY <1>1, <1>2, <1>4, <2>1, <4>2, Order DEF Bounded
        <5> QED
          BY <5>1
      <4> QED
        BY <1>2, <4>1, <4>2
    <3> QED
      BY <1>4, <1>5, <2>1, <2>3, <3>1, <3>2 DEF KidOf
  <2> QED
    BY <2>2, <2>3
<1>12. \/ T = {} /\ root = NULL
       \/ root \in T /\ U2[root] = NULL /\ \A s \in Sides : b2[s][root] = NULL
  <2>1. CASE root = NULL
    <3>1. \A y \in S : ~ On(key, "l", n, y)
      <4>1. KidOf(K, U, key, S, b, n, "l") /\ K["l"][n] = NULL /\ b["l"][n] = NULL
        BY <1>1, <1>2, <2>1
      <4> QED
        BY <1>1, <4>1 DEF KidOf
    <3> QED
      BY <1>4, <2>1, <3>1
  <2>2. CASE root # NULL
    <3>1. root \in T /\ b["l"][root] = NULL /\ b["r"][root] = n
      BY <1>1, <1>2, <1>7, <2>2 DEF KidOf
    <3>2. U2[root] = NULL
      BY <3>1 DEF T
    <3> QED
      BY <1>2, <1>5, <3>1, <3>2
  <2> QED
    BY <2>1, <2>2
<1>13. Tree(K2, U2, key, T, b2, root)
  BY <1>6, <1>10, <1>11, <1>12 DEF Tree
<1> QED
  BY <1>13 DEF T

\* The first block after the root n is taken out: its right child takes its place.
KidCut(N, m, m2, p, d, n) ==
    /\ \A s \in Sides, z \in 1..N : m2.kid[s][z] = IF s = d /\ z = p THEN m.kid["r"][m.kid[d][p]]
                                                   ELSE m.kid[s][z]
    /\ \A z \in 1..N : p # n \/ z # m.kid["r"][m.kid[d][p]] =>
                          m2.u[z] = IF z = m.kid["r"][m.kid[d][p]] THEN p ELSE m.u[z]

\* It is the block that a tree is cut by.
LEMMA CutKid ==
  ASSUME NEW N \in Nat, NEW m, NEW S \in SUBSET (1..N), NEW b, NEW n,
         Tree(m.kid, m.u, m.key, S, b, n), n \in S,
         NEW p \in S, NEW d \in Sides, b["l"][m.kid[d][p]] = n, m.kid[d][p] # NULL,
         m.kid["l"][m.kid[d][p]] = NULL, NEW m2, KidCut(N, m, m2, p, d, n)
  PROVE  Cut(m.kid, m.u, m.key, S, b, n, m.kid[d][p], m2.kid, m2.u)
<1> DEFINE x == m.kid[d][p]
<1>1. "l" \in Sides /\ "r" \in Sides
  BY SidesFacts
<1>2. x \in S /\ m.u[x] = p /\ x # n
  BY DEF Tree, KidOf, Keyed
<1>3. \A z \in S, s \in Sides : m.kid[s][z] = x => z = p /\ s = d
  BY <1>2, KidsApart
<1>4. \A z \in S : z \in 1..N
  OBVIOUS
<1>5. \A z \in S \ {x}, s \in Sides : m2.kid[s][z] = IF m.kid[s][z] = x THEN m.kid["r"][x]
                                                   ELSE m.kid[s][z]
  BY <1>2, <1>3, <1>4 DEF KidCut
<1>6. \A z \in S \ {x} : m.u[x] # n \/ z # m.kid["r"][x] =>
                             m2.u[z] = IF z = m.kid["r"][x] THEN m.u[x] ELSE m.u[z]
  BY <1>2, <1>4 DEF KidCut
<1> QED
  BY <1>1, <1>2, <1>5, <1>6 DEF Cut

\* _sp_deq's loop.
Deqing(N, V, m0, q, S, n, i, s) ==
    /\ s \in [m : Memory(N, V), next : 0..N, left : 0..N, deq : 0..N]
    /\ Same(m0, s.m, N, S, q) /\ s.m.root = m0.root
    /\ s.deq # NULL => \E K, U, b : Cut(K, U, m0.key, S, b, n, s.deq, s.m.kid, s.m.u)
    /\ s.deq = NULL =>
          \E b : /\ Tree(s.m.kid, s.m.u, m0.key, S, b, n)
                 /\ s.next \in S /\ b["l"][s.next] = n
                 /\ s.left = s.m.kid["l"][s.next] /\ s.left # NULL
                 /\ Cardinality(Below(m0.key, S, b, s.left)) <= N - i

\* The rounds that take x out from below p ...
Taken(m, p, x, next, left) == [m |-> Link(m, p, "l", m.kid["r"][x]), next |-> next,
                               left |-> left, deq |-> x]

\* After them the loop is done.
LEMMA TakenRound ==
  ASSUME NEW N \in Nat, NEW V, NEW m0, NEW q \in AllTrees, NEW S \in SUBSET (1..N),
         NEW n \in S, NEW i, NEW m \in Memory(N, V), Same(m0, m, N, S, q), m.root = m0.root,
         NEW b, Tree(m.kid, m.u, m0.key, S, b, n), NEW p \in S, b["l"][p] = n,
         NEW x, x = m.kid["l"][p], x # NULL, m.kid["l"][x] = NULL,
         NEW next \in 0..N, NEW left \in 0..N
  PROVE  Deqing(N, V, m0, q, S, n, i, Taken(m, p, x, next, left))
<1> DEFINE m2 == Link(m, p, "l", m.kid["r"][x])
<1>1. "l" \in Sides /\ "r" \in Sides
  BY SidesFacts
<1>2. m0.key = m.key
  BY DEF Same
<1>3. b["l"][m.kid["l"][p]] = n /\ x \in S
  BY <1>1 DEF Tree, KidOf, Keyed
<1>4. m.kid["r"][x] \in 0..N
  <2>1. m.kid \in [Sides -> [1..N -> 0..N]] /\ x \in 1..N
    BY <1>3 DEF Memory
  <2> QED
    BY <1>1, <2>1
<1>5. Linked(N, V, m, m2, p, "l", m.kid["r"][x])
  BY <1>1, <1>4, LinkFacts
<1> HIDE DEF m2
<1>6. Cut(m.kid, m.u, m.key, S, b, n, x, m2.kid, m2.u)
  <2>1. Tree(m.kid, m.u, m.key, S, b, n)
    BY <1>2
  <2>2. KidCut(N, m, m2, p, "l", n)
    BY <1>5 DEF Linked, KidCut
  <2> QED
    BY <1>1, <1>3, <2>1, <2>2, CutKid
<1>7. m.kid["r"][x] = NULL \/ m.kid["r"][x] \in S
  BY <1>1, <1>3 DEF Tree, KidOf
<1>8. Same(m0, m2, N, S, q) /\ m2.root = m0.root
  <2>1. NULL \notin 1..N
    BY DEF NULL
  <2> QED
    BY <1>5, <1>7, <2>1 DEF Same, Linked
<1>9. Taken(m, p, x, next, left) = [m |-> m2, next |-> next, left |-> left, deq |-> x]
  BY DEF Taken, m2
<1>10. m2 \in Memory(N, V) /\ x \in 0..N
  BY <1>3, <1>5 DEF Linked
<1> DEFINE s == Taken(m, p, x, next, left)
<1>11. s \in [m : Memory(N, V), next : 0..N, left : 0..N, deq : 0..N] /\ s.m = m2 /\ s.deq = x
  BY <1>9, <1>10
<1> HIDE DEF s
<1> QED
  BY <1>2, <1>6, <1>8, <1>11 DEF Deqing, s

\* ... and the one that turns the tree around.
DeqTurned(m, next, left, far) ==
    [m |-> Link(Link(Link(m, next, "l", far), left, "l", m.kid["r"][far]), far, "r", left),
     next |-> far, left |-> m.kid["l"][far], deq |-> NULL]

\* After it there is less on the left.
LEMMA DeqTurnedRound ==
  ASSUME NEW N \in Nat, NEW V, NEW m0, NEW q \in AllTrees, NEW S \in SUBSET (1..N),
         NEW n \in S, NEW i \in 1..N, NEW m \in Memory(N, V), Same(m0, m, N, S, q), m.root = m0.root,
         NEW b, Tree(m.kid, m.u, m0.key, S, b, n), NEW next \in S, b["l"][next] = n,
         NEW left, left = m.kid["l"][next], left # NULL,
         Cardinality(Below(m0.key, S, b, left)) <= N - (i - 1),
         NEW far, far = m.kid["l"][left], far # NULL, m.kid["l"][far] # NULL
  PROVE  Deqing(N, V, m0, q, S, n, i, DeqTurned(m, next, left, far))
<1> DEFINE m1 == Link(m, next, "l", far)
           m2 == Link(m1, left, "l", m.kid["r"][far])
           m3 == Link(m2, far, "r", left)
           b2 == TurnedBounds(m.kid, b, S, left, "l")
           key == m0.key
<1>1. "l" \in Sides /\ "r" \in Sides /\ Other("l") = "r" /\ Other("r") = "l" /\ "l" # "r"
  BY SidesFacts DEF Sides
<1>2. /\ Keyed(key, S) /\ Bounded(key, S, b)
      /\ \A x \in S, d \in Sides : KidOf(m.kid, m.u, key, S, b, x, d)
  BY DEF Tree
<1>3. /\ left \in S /\ m.u[left] = next /\ b["l"][left] = n
      /\ far \in S /\ m.u[far] = left /\ b["l"][far] = n /\ m.kid["l"][far] \in S
      /\ m.u[n] = NULL /\ NULL \notin S
  BY <1>1, <1>2 DEF Tree, KidOf, Keyed
<1>4. m.kid["r"][far] \in S \cup {NULL} /\ m.kid["r"][far] \in 0..N
  BY <1>1, <1>2, <1>3 DEF KidOf, Memory
<1>5. m.kid["r"][far] # NULL => m.u[m.kid["r"][far]] = far
  BY <1>1, <1>2, <1>3 DEF KidOf
<1>6. Linked(N, V, m, m1, next, "l", far)
  <2>1. next \in 1..N /\ far \in 0..N
    BY <1>3
  <2> QED
    BY <1>1, <2>1, LinkFacts
<1>7. m1 \in Memory(N, V)
  BY <1>6 DEF Linked
<1> HIDE DEF m1
<1>8. Linked(N, V, m1, m2, left, "l", m.kid["r"][far])
  BY <1>1, <1>3, <1>4, <1>7, LinkFacts
<1>9. m2 \in Memory(N, V)
  BY <1>8 DEF Linked
<1> HIDE DEF m2
<1>10. Linked(N, V, m2, m3, far, "r", left)
  BY <1>1, <1>3, <1>9, LinkFacts
<1> HIDE DEF m3
<1>11. next # left /\ left # far /\ far # next
  <2>1. On(key, "l", next, left) /\ On(key, "l", left, far)
    BY <1>1, <1>3, KidBelow
  <2> QED
    BY <1>1, <1>2, <1>3, <2>1, Order
<1>12. \A x \in S, s \in Sides : m.kid[s][x] = left => x = next /\ s = "l"
  BY <1>1, <1>3, KidsApart
<1>13. \A x \in S, s \in Sides : m3.kid[s][x] = IF s = "l" /\ x = left THEN m.kid["r"][far]
                                               ELSE IF s = "r" /\ x = far THEN left
                                               ELSE IF m.kid[s][x] = left THEN far ELSE m.kid[s][x]
  <2> SUFFICES ASSUME NEW x \in S, NEW s \in Sides
               PROVE  m3.kid[s][x] = IF s = "l" /\ x = left THEN m.kid["r"][far]
                                     ELSE IF s = "r" /\ x = far THEN left
                                     ELSE IF m.kid[s][x] = left THEN far ELSE m.kid[s][x]
    OBVIOUS
  <2>1. x \in 1..N
    OBVIOUS
  <2>2. m1.kid[s][x] = IF s = "l" /\ x = next THEN far ELSE m.kid[s][x]
    BY <1>6, <2>1 DEF Linked
  <2>3. m2.kid[s][x] = IF s = "l" /\ x = left THEN m.kid["r"][far] ELSE m1.kid[s][x]
    BY <1>8, <2>1 DEF Linked
  <2>4. m3.kid[s][x] = IF s = "r" /\ x = far THEN left ELSE m2.kid[s][x]
    BY <1>10, <2>1 DEF Linked
  <2> QED
    BY <1>1, <1>11, <1>12, <2>2, <2>3, <2>4
<1>14. \A x \in 1..N : m3.u[x] = IF x = left THEN far ELSE IF x = m.kid["r"][far] THEN left
                                ELSE IF x = far THEN next ELSE m.u[x]
  BY <1>6, <1>8, <1>10, <1>11 DEF Linked
<1>15. \A x \in S : m3.u[x] = IF x = left THEN far ELSE IF x = far THEN m.u[left]
                             ELSE IF x = m.kid["r"][far] THEN left ELSE m.u[x]
  <2>1. m.kid["r"][far] # far
    BY <1>1, <1>2, <1>3, <1>5, <1>11
  <2>2. \A x \in S : x \in 1..N
    OBVIOUS
  <2> QED
    BY <1>3, <1>11, <1>14, <2>1, <2>2
<1>16. Turned(m.kid, m.u, m3.kid, m3.u, S, left, "l")
  BY <1>1, <1>13, <1>15 DEF Turned
<1>17. left # n
  BY <1>3
<1>18. Tree(m3.kid, m3.u, key, S, b2, n)
  BY <1>1, <1>3, <1>16, <1>17, TurnedTree
<1>19. \A s \in Sides, x \in S : b2[s][x] = IF s = "l" /\ x = left THEN far
                                           ELSE IF s = "r" /\ x = far THEN b["r"][left] ELSE b[s][x]
  BY <1>1 DEF TurnedBounds
<1> HIDE DEF b2
<1> DEFINE x == m.kid["l"][far]
<1>20. x \in S /\ x # left /\ x # far
  <2>1. On(key, "l", far, x) /\ On(key, "l", left, far)
    BY <1>1, <1>3, KidBelow
  <2> QED
    BY <1>1, <1>2, <1>3, <2>1, Order
<1>21. Cardinality(Below(key, S, b2, x)) <= N - i
  <2>1. Cardinality(Below(key, S, b, x)) < Cardinality(Below(key, S, b, left))
    <3>1. Cardinality(Below(key, S, b, x)) < Cardinality(Below(key, S, b, far))
      BY <1>1, <1>3, KidBelow
    <3>2. Cardinality(Below(key, S, b, far)) < Cardinality(Below(key, S, b, left))
      BY <1>1, <1>3, KidBelow
    <3>3. /\ Cardinality(Below(key, S, b, x)) \in Nat /\ Cardinality(Below(key, S, b, far)) \in Nat
          /\ Cardinality(Below(key, S, b, left)) \in Nat
      BY <1>2, <1>3, <1>20, BelowFacts
    <3> HIDE DEF x, key
    <3> QED
      BY <3>1, <3>2, <3>3
  <2>2. Below(key, S, b2, x) = Below(key, S, b, x)
    <3>1. \A s \in Sides : b2[s][x] = b[s][x]
      BY <1>19, <1>20
    <3> HIDE DEF x
    <3> QED
      BY <3>1 DEF Below, Within
  <2>3. Cardinality(Below(key, S, b, x)) \in Nat /\ Cardinality(Below(key, S, b, left)) \in Nat
    BY <1>2, <1>3, <1>20, BelowFacts
  <2> DEFINE cx == Cardinality(Below(key, S, b, x))
             cl == Cardinality(Below(key, S, b, left))
  <2>4. cx \in Nat /\ cl \in Nat /\ cx < cl /\ cl <= N - (i - 1) /\ i \in Int
    BY <2>1, <2>3
  <2> HIDE DEF x, key, cx, cl
  <2>5. cx <= N - i
    BY <2>4
  <2> QED
    BY <2>2, <2>5 DEF cx
<1>22. m3.kid["l"][far] = x /\ b2["l"][far] = n
  BY <1>1, <1>3, <1>11, <1>13, <1>19, <1>20
<1>23. Same(m0, m3, N, S, q) /\ m3.root = m0.root
  <2>1. \A z \in (1..N) \ S : m3.u[z] = m.u[z]
    <3>1. NULL \notin 1..N
      BY DEF NULL
    <3> QED
      BY <1>3, <1>4, <1>14, <3>1
  <2>2. \A z \in (1..N) \ S, s \in Sides : m3.kid[s][z] = m.kid[s][z]
    BY <1>3, <1>6, <1>8, <1>10 DEF Linked
  <2> QED
    BY <1>6, <1>8, <1>10, <2>1, <2>2 DEF Same, Linked
<1>24. DeqTurned(m, next, left, far) = [m |-> m3, next |-> far, left |-> x, deq |-> NULL]
  BY DEF DeqTurned, m3, m2, m1
<1>25. m3 \in Memory(N, V) /\ far \in 0..N /\ x \in 0..N /\ NULL \in 0..N
  <2>1. m3 \in Memory(N, V)
    BY <1>10 DEF Linked
  <2>2. \A z \in S : z \in 0..N
    <3>1. 1..N \in SUBSET (0..N)
      OBVIOUS
    <3> HIDE DEF b2, key
    <3> QED
      BY <3>1
  <2>3. NULL \in 0..N
    BY DEF NULL
  <2> QED
    BY <1>3, <1>20, <2>1, <2>2, <2>3
<1> DEFINE s == DeqTurned(m, next, left, far)
<1> HIDE DEF x
<1>26. /\ s \in [m : Memory(N, V), next : 0..N, left : 0..N, deq : 0..N]
       /\ s.m = m3 /\ s.deq = NULL /\ s.next = far /\ s.left = x
  BY <1>24, <1>25
<1> HIDE DEF s
<1>27. s.deq # NULL => \E K, U, c : Cut(K, U, m0.key, S, c, n, s.deq, s.m.kid, s.m.u)
  BY <1>26
<1>28. \E c : /\ Tree(s.m.kid, s.m.u, m0.key, S, c, n)
              /\ s.next \in S /\ c["l"][s.next] = n
              /\ s.left = s.m.kid["l"][s.next] /\ s.left # NULL
              /\ Cardinality(Below(m0.key, S, c, s.left)) <= N - i
  <2>1. x # NULL
    BY <1>3, <1>20
  <2> QED
    BY <1>3, <1>18, <1>21, <1>22, <1>26, <2>1
<1>29. Deqing(N, V, m0, q, S, n, i, s)
  BY <1>23, <1>26, <1>27, <1>28 DEF Deqing
<1> QED
  BY <1>29 DEF s

\* Each round of the loop goes on with less, or ends it.
LEMMA DeqingRound ==
  ASSUME NEW N \in Nat, NEW V, NEW m0, NEW q \in AllTrees, NEW S \in SUBSET (1..N),
         NEW n \in S, NEW i \in 1..N, NEW s, Deqing(N, V, m0, q, S, n, i - 1, s)
  PROVE  Deqing(N, V, m0, q, S, n, i, DeqRound(s))
<1> DEFINE m == s.m
           next == s.next
           left == s.left
           far == m.kid["l"][left]
<1>1. /\ s \in [m : Memory(N, V), next : 0..N, left : 0..N, deq : 0..N]
      /\ Same(m0, s.m, N, S, q) /\ s.m.root = m0.root
  BY DEF Deqing
<1>2. CASE s.deq # NULL
  BY <1>2 DEF Deqing, DeqRound
<1>3. CASE s.deq = NULL
  <2>1. PICK b : /\ Tree(m.kid, m.u, m0.key, S, b, n)
                 /\ next \in S /\ b["l"][next] = n
                 /\ left = m.kid["l"][next] /\ left # NULL
                 /\ Cardinality(Below(m0.key, S, b, left)) <= N - (i - 1)
    BY <1>3 DEF Deqing
  <2>2. left \in S /\ b["l"][left] = n
    <3>1. KidOf(m.kid, m.u, m0.key, S, b, next, "l") /\ NULL \notin S
      BY <2>1, SidesFacts DEF Tree, Keyed
    <3> QED
      BY <2>1, <3>1 DEF KidOf
  <2>3. far # NULL => far \in S
    BY <2>2, <2>1, SidesFacts DEF Tree, KidOf
  <2>4. m \in Memory(N, V) /\ next \in 0..N /\ left \in 0..N
    BY <1>1
  <2>5. s = [m |-> s.m, next |-> s.next, left |-> s.left, deq |-> s.deq]
    BY <1>1
  <2>6. CASE far = NULL
    <3>1. Deqing(N, V, m0, q, S, n, i, Taken(m, next, left, next, left))
      BY <1>1, <2>1, <2>4, <2>6, TakenRound
    <3>2. DeqRound(s) = [s EXCEPT !.m = Link(m, next, "l", m.kid["r"][left]), !.deq = left]
      BY <1>3, <2>6 DEF DeqRound
    <3>3. DeqRound(s) = Taken(m, next, left, next, left)
      BY <2>5, <3>2 DEF Taken
    <3> QED
      BY <3>1, <3>3
  <2>7. CASE far # NULL /\ m.kid["l"][far] = NULL
    <3>1. Deqing(N, V, m0, q, S, n, i, Taken(m, left, far, next, left))
      BY <1>1, <2>1, <2>2, <2>4, <2>7, TakenRound
    <3>2. DeqRound(s) = [s EXCEPT !.m = Link(m, left, "l", m.kid["r"][far]), !.deq = far]
      BY <1>3, <2>7 DEF DeqRound
    <3>3. DeqRound(s) = Taken(m, left, far, next, left)
      BY <2>5, <3>2 DEF Taken
    <3> QED
      BY <3>1, <3>3
  <2>8. CASE far # NULL /\ m.kid["l"][far] # NULL
    <3>1. Deqing(N, V, m0, q, S, n, i, DeqTurned(m, next, left, far))
      BY <1>1, <2>1, <2>4, <2>8, DeqTurnedRound
    <3>2. DeqRound(s) = [s EXCEPT !.m = Link(Link(Link(m, next, "l", far), left, "l", m.kid["r"][far]),
                                             far, "r", left),
                                  !.next = far, !.left = m.kid["l"][far]]
      BY <1>3, <2>8 DEF DeqRound
    <3>3. DeqRound(s) = DeqTurned(m, next, left, far)
      BY <1>3, <2>5, <3>2 DEF DeqTurned
    <3> QED
      BY <3>1, <3>3
  <2> QED
    BY <2>6, <2>7, <2>8
<1> QED
  BY <1>2, <1>3

\* r.deq, the first block after the root n, has been taken out; if it is NULL, there is none.
Dequeued(N, V, m, r, q, S, n) ==
    /\ r.m \in Memory(N, V) /\ r.deq \in 0..N
    /\ Same(m, r.m, N, S, q) /\ r.m.root = m.root
    /\ \/ r.deq = NULL /\ r.m = m /\ m.kid["r"][n] = NULL
       \/ \E K, U, b : Cut(K, U, m.key, S, b, n, r.deq, r.m.kid, r.m.u)

\* The loop finds the first block after the root.
LEMMA DeqLoops ==
  ASSUME NEW N \in Nat, NEW V, NEW m \in Memory(N, V), NEW q \in AllTrees,
         NEW S \in SUBSET (1..N), NEW b, NEW n \in S, Tree(m.kid, m.u, m.key, S, b, n),
         NEW next, next = m.kid["r"][n], NEW left, left = m.kid["l"][next],
         next # NULL, left # NULL
  PROVE  Dequeued(N, V, m, Loop(DeqRound, [m |-> m, next |-> next, left |-> left, deq |-> NULL], m),
                  q, S, n)
<1> DEFINE start == [m |-> m, next |-> next, left |-> left, deq |-> NULL]
           rounds == CHOOSE f : f = [i \in 0..N |-> IF i = 0 THEN start ELSE DeqRound(f[i - 1])]
           X == [m : Memory(N, V), next : 0..N, left : 0..N, deq : 0..N]
           r == [s \in X |-> DeqRound(s)]
           W == [i \in 0..N |-> {s \in X : Deqing(N, V, m, q, S, n, i, s)}]
           s == rounds[N]
<1>1. Len(m.key) = N
  BY Length DEF Memory
<1>2. Loop(DeqRound, start, m) = s
  BY <1>1 DEF Loop
<1>3. W \in [0..N -> SUBSET X] /\ \A t \in X : r[t] = DeqRound(t)
  OBVIOUS
<1>4. \A i, t : Deqing(N, V, m, q, S, n, i, t) => t \in X
  BY DEF Deqing
<1>5. start \in W[0]
  <2>1. /\ Keyed(m.key, S) /\ Bounded(m.key, S, b) /\ NULL \notin S
        /\ \A x \in S, d \in Sides : KidOf(m.kid, m.u, m.key, S, b, x, d)
    BY DEF Tree, Keyed
  <2>2. next \in S /\ b["l"][next] = n /\ left \in S
    BY <2>1, SidesFacts DEF KidOf
  <2>3. \A z \in S : z \in 0..N
    <3>1. 1..N \in SUBSET (0..N)
      OBVIOUS
    <3> QED
      BY <3>1
  <2>4. NULL \in 0..N
    BY DEF NULL
  <2>5. start \in X
    BY <2>2, <2>3, <2>4
  <2>6. Same(m, m, N, S, q)
    BY DEF Same
  <2>7. Cardinality(Below(m.key, S, b, left)) <= N - 0
    <3>1. /\ Cardinality(Below(m.key, S, b, left)) \in Nat
          /\ Cardinality(Below(m.key, S, b, left)) <= Cardinality(S)
      BY <2>1, <2>2, BelowFacts
    <3>2. Cardinality(S) \in Nat /\ Cardinality(S) <= N
      BY AtMost
    <3> QED
      BY <3>1, <3>2
  <2>8. start.m = m /\ start.next = next /\ start.left = left /\ start.deq = NULL
    OBVIOUS
  <2> HIDE DEF start
  <2>9. Deqing(N, V, m, q, S, n, 0, start)
    BY <2>2, <2>5, <2>6, <2>7, <2>8 DEF Deqing
  <2> QED
    BY <2>5, <2>9
<1> HIDE DEF start, X, r
<1>6. ASSUME NEW i \in 1..N, NEW t \in W[i - 1]
      PROVE  r[t] \in W[i]
  <2>1. i - 1 \in 0..N /\ i \in 0..N
    OBVIOUS
  <2>2. t \in X /\ Deqing(N, V, m, q, S, n, i - 1, t)
    BY <2>1
  <2>3. Deqing(N, V, m, q, S, n, i, DeqRound(t))
    BY <2>2, DeqingRound
  <2> QED
    BY <1>3, <1>4, <2>1, <2>2, <2>3
<1>7. \A t \in W[N] : Deqing(N, V, m, q, S, n, N, t)
  OBVIOUS
<1> HIDE DEF W
<1>8. Steps(N, X, W, start, r)
  BY <1>3, <1>5, <1>6 DEF Steps
<1>9. PICK f : Run(f, N, X, start, r)
  BY <1>8, Rounds
<1>10. f = [i \in 0..N |-> IF i = 0 THEN start ELSE DeqRound(f[i - 1])]
  BY <1>3, <1>9 DEF Run
<1>11. rounds = [i \in 0..N |-> IF i = 0 THEN start ELSE DeqRound(rounds[i - 1])]
  BY <1>10
<1> HIDE DEF rounds
<1>12. Follows(rounds, N, X, start, r)
  BY <1>3, <1>11 DEF Follows
<1>13. rounds[N] \in W[N]
  BY <1>8, <1>12, Rounds
<1>14. Deqing(N, V, m, q, S, n, N, s)
  BY <1>7, <1>13
<1> HIDE DEF s
\* There is nothing left to go down to.
<1>15. s.deq # NULL
  <2> SUFFICES ASSUME s.deq = NULL PROVE FALSE
    OBVIOUS
  <2>1. PICK c : /\ Tree(s.m.kid, s.m.u, m.key, S, c, n)
                 /\ s.next \in S /\ s.left = s.m.kid["l"][s.next] /\ s.left # NULL
                 /\ Cardinality(Below(m.key, S, c, s.left)) <= N - N
    BY <1>14 DEF Deqing
  <2>2. s.left \in S /\ Keyed(m.key, S) /\ Bounded(m.key, S, c)
    BY <2>1, SidesFacts DEF Tree, KidOf
  <2>3. Cardinality(Below(m.key, S, c, s.left)) \in Nat \ {0}
    BY <2>2, BelowFacts
  <2> QED
    BY <2>1, <2>3
<1>16. s.m \in Memory(N, V) /\ s.deq \in 0..N
  BY <1>14 DEF Deqing
<1>17. Dequeued(N, V, m, s, q, S, n)
  BY <1>14, <1>15, <1>16 DEF Deqing, Dequeued
<1> QED
  BY <1>2, <1>17 DEF start

\* What _sp_deq cuts off when there is nothing left of the root's child.
CutOff(m, n, c) == LET cut == SetKid(m, n, "r", c)
                   IN  IF c = NULL THEN cut ELSE [cut EXCEPT !.u[c] = NULL]

\* What that does to the memory.
LEMMA CutOffFacts ==
  ASSUME NEW N \in Nat, NEW V, NEW m \in Memory(N, V), NEW n \in 1..N, NEW c \in 0..N
  PROVE  LET m2 == CutOff(m, n, c)
         IN  /\ m2 \in Memory(N, V)
             /\ \A s \in Sides, x \in 1..N : m2.kid[s][x] = IF s = "r" /\ x = n THEN c ELSE m.kid[s][x]
             /\ \A x \in 1..N : m2.u[x] = IF x = c THEN NULL ELSE m.u[x]
             /\ m2.key = m.key /\ m2.data = m.data /\ m2.eltscnt = m.eltscnt
             /\ m2.free = m.free /\ m2.root = m.root
<1> DEFINE m1 == SetKid(m, n, "r", c)
           m2 == CutOff(m, n, c)
<1>1. KidSet(N, V, m, m1, n, "r", c)
  BY SidesFacts, KidFacts
<1>2. m2 = IF c = NULL THEN m1 ELSE [m1 EXCEPT !.u[c] = NULL]
  BY DEF CutOff
<1> HIDE DEF m1, m2
<1>3. m1 \in Memory(N, V)
  BY <1>1 DEF KidSet
<1>4. NULL \in 0..N /\ NULL \notin 1..N /\ (c # NULL => c \in 1..N)
  BY DEF NULL
<1>5. CASE c = NULL
  BY <1>1, <1>2, <1>4, <1>5 DEF KidSet, m2
<1>6. CASE c # NULL
  <2>1. c \in 1..N /\ m1.u \in [1..N -> 0..N]
    BY <1>3, <1>4, <1>6 DEF Memory
  <2>2. m2 = [m1 EXCEPT !.u[c] = NULL]
    BY <1>2, <1>6
  <2>3. m2 \in Memory(N, V)
    BY <1>3, <1>4, <2>1, <2>2 DEF Memory
  <2>4. \A x \in 1..N : m2.u[x] = IF x = c THEN NULL ELSE m1.u[x]
    BY <1>3, <2>1, <2>2 DEF Memory
  <2>5. /\ m2.kid = m1.kid /\ m2.key = m1.key /\ m2.data = m1.data /\ m2.eltscnt = m1.eltscnt
        /\ m2.free = m1.free /\ m2.root = m1.root
    BY <1>3, <2>2 DEF Memory
  <2> QED
    BY <1>1, <2>3, <2>4, <2>5 DEF KidSet, m2
<1> QED
  BY <1>5, <1>6

\* _sp_deq takes out the first block after the root.
LEMMA DeqTakes ==
  ASSUME NEW N \in Nat, NEW V, NEW m \in Memory(N, V), NEW q \in AllTrees,
         NEW S \in SUBSET (1..N), NEW n \in S, m.root[q] = n, Holds(m, q, S)
  PROVE  Dequeued(N, V, m, _sp_deq(m, n), q, S, n)
<1> DEFINE next == m.kid["r"][n]
           left == m.kid["l"][next]
<1>0. "l" \in Sides /\ "r" \in Sides /\ NULL \in 0..N
  BY SidesFacts DEF NULL
<1>1. PICK b : Tree(m.kid, m.u, m.key, S, b, n)
  BY DEF Holds
<1>2. CASE next = NULL
  <2>1. _sp_deq(m, n) = [m |-> m, deq |-> NULL]
    BY <1>2 DEF _sp_deq
  <2>2. Same(m, m, N, S, q)
    BY DEF Same
  <2> QED
    BY <1>0, <1>2, <2>1, <2>2 DEF Dequeued
<1>3. CASE next # NULL /\ left # NULL
  <2>1. _sp_deq(m, n) = Loop(DeqRound, [m |-> m, next |-> next, left |-> left, deq |-> NULL], m)
    BY <1>3 DEF _sp_deq
  <2> QED
    BY <1>1, <1>3, <2>1, DeqLoops
<1>4. CASE next # NULL /\ left = NULL
  <2> DEFINE c == m.kid["r"][next]
             m2 == CutOff(m, n, c)
  <2>1. _sp_deq(m, n) = [m |-> m2, deq |-> next]
    BY <1>4 DEF _sp_deq, CutOff, SetKid
  <2>2. /\ Keyed(m.key, S) /\ NULL \notin S
        /\ \A x \in S, d \in Sides : KidOf(m.kid, m.u, m.key, S, b, x, d)
    BY <1>1 DEF Tree, Keyed
  <2>3. KidOf(m.kid, m.u, m.key, S, b, n, "r")
    BY <1>0, <2>2
  <2>4. next \in S /\ b["l"][next] = n
    BY <1>4, <2>2, <2>3, SidesFacts DEF KidOf
  <2>5. c = NULL \/ c \in S
    BY <1>0, <2>2, <2>4 DEF KidOf
  <2>6. n \in 1..N /\ next \in 1..N /\ c \in 0..N
    <3>1. 1..N \in SUBSET (0..N)
      OBVIOUS
    <3> QED
      BY <1>0, <2>4, <2>5, <3>1
  <2>7. /\ m2 \in Memory(N, V)
        /\ \A s \in Sides, x \in 1..N : m2.kid[s][x] = IF s = "r" /\ x = n THEN c ELSE m.kid[s][x]
        /\ \A x \in 1..N : m2.u[x] = IF x = c THEN NULL ELSE m.u[x]
        /\ m2.key = m.key /\ m2.data = m.data /\ m2.eltscnt = m.eltscnt
        /\ m2.free = m.free /\ m2.root = m.root
    <3> HIDE DEF c, next
    <3> QED
      BY <2>6, CutOffFacts
  <2> HIDE DEF m2
  <2>8. KidCut(N, m, m2, n, "r", n)
    BY <2>7 DEF KidCut
  <2>9. Cut(m.kid, m.u, m.key, S, b, n, next, m2.kid, m2.u)
    BY <1>0, <1>1, <1>4, <2>4, <2>8, CutKid
  <2>10. Same(m, m2, N, S, q)
    <3>1. NULL \notin 1..N
      BY DEF NULL
    <3> QED
      BY <2>5, <2>7, <3>1 DEF Same
  <2>11. next \in 0..N
    BY <2>6
  <2> HIDE DEF next
  <2> QED
    BY <2>1, <2>7, <2>9, <2>10, <2>11 DEF Dequeued
<1> QED
  BY <1>2, <1>3, <1>4

\* A block goes back to the free list.
LEMMA FreeFacts ==
  ASSUME NEW N \in Nat, NEW V, 0 \in V, NEW m \in Memory(N, V), NEW n \in 1..N
  PROVE  LET m2 == sp_free_blk(m, n)
         IN  /\ m2 \in Memory(N, V)
             /\ \A s \in Sides, x \in 1..N : m2.kid[s][x] = IF x = n THEN NULL ELSE m.kid[s][x]
             /\ \A x \in 1..N : /\ m2.u[x] = IF x = n THEN m.free ELSE m.u[x]
                                /\ m2.key[x] = IF x = n THEN 0 ELSE m.key[x]
                                /\ m2.data[x] = IF x = n THEN 0 ELSE m.data[x]
             /\ m2.free = n /\ m2.eltscnt = m.eltscnt /\ m2.root = m.root
<1> DEFINE m2 == sp_free_blk(m, n)
           m0 == SetKid(m, n, "l", NULL)
           m1 == SetKid(m0, n, "r", NULL)
<1>1. "l" \in Sides /\ "r" \in Sides /\ \A s \in Sides : s = "l" \/ s = "r"
  BY DEF Sides
<1>2. NULL \in 0..N /\ n \in 0..N /\ 0 \in Nat
  BY DEF NULL
<1>3. m2 = [m1 EXCEPT !.u[n] = m.free, !.key[n] = 0, !.data[n] = 0, !.free = n]
  BY DEF sp_free_blk, SetKid
<1>4. KidSet(N, V, m, m0, n, "l", NULL)
  BY <1>1, <1>2, KidFacts
<1>5. m0 \in Memory(N, V)
  BY <1>4 DEF KidSet
<1> HIDE DEF m0
<1>6. KidSet(N, V, m0, m1, n, "r", NULL)
  BY <1>1, <1>2, <1>5, KidFacts
<1>7. m1 \in Memory(N, V)
  BY <1>6 DEF KidSet
<1> HIDE DEF m1, m2
<1>8. m2 = [kid |-> m1.kid, u |-> [m1.u EXCEPT ![n] = m.free], key |-> [m1.key EXCEPT ![n] = 0],
            data |-> [m1.data EXCEPT ![n] = 0], root |-> m1.root, eltscnt |-> m1.eltscnt,
            free |-> n]
  BY <1>3, <1>7 DEF Memory
<1>9. m2 \in Memory(N, V)
  BY <1>2, <1>7, <1>8 DEF Memory
<1>10. \A s \in Sides, x \in 1..N : m2.kid[s][x] = IF x = n THEN NULL ELSE m.kid[s][x]
  BY <1>1, <1>4, <1>6, <1>8 DEF KidSet
<1>11. \A x \in 1..N : /\ m2.u[x] = IF x = n THEN m.free ELSE m1.u[x]
                       /\ m2.key[x] = IF x = n THEN 0 ELSE m1.key[x]
                       /\ m2.data[x] = IF x = n THEN 0 ELSE m1.data[x]
  BY <1>7, <1>8 DEF Memory
<1>12. m1.u = m.u /\ m1.key = m.key /\ m1.data = m.data /\ m1.eltscnt = m.eltscnt /\ m1.root = m.root
  BY <1>4, <1>6 DEF KidSet
<1>13. m2.free = n /\ m2.eltscnt = m.eltscnt /\ m2.root = m.root
  BY <1>8, <1>12
<1> QED
  BY <1>9, <1>10, <1>11, <1>12, <1>13 DEF m2

\* sp_delete's new root, once x has been taken out.
Joined(m, q, n, x) ==
    LET left == m.kid["l"][n]
    IN  IF x # NULL
        THEN [Link(Link(m, x, "l", left), x, "r", m.kid["r"][n]) EXCEPT !.u[x] = NULL, !.root[q] = x]
        ELSE IF left = NULL THEN [m EXCEPT !.root[q] = NULL]
        ELSE [m EXCEPT !.root[q] = left, !.u[left] = NULL]

\* What that leaves.
JoinedAs(N, V, m, m2, q, n, x) ==
    /\ m2 \in Memory(N, V)
    /\ \A s \in Sides, z \in 1..N : m2.kid[s][z] = IF z = x THEN m.kid[s][n] ELSE m.kid[s][z]
    /\ \A z \in 1..N : m2.u[z] = IF x # NULL
                                 THEN IF z = x THEN NULL
                                      ELSE IF \E s \in Sides : z = m.kid[s][n] THEN x ELSE m.u[z]
                                 ELSE IF z = m.kid["l"][n] THEN NULL ELSE m.u[z]
    /\ m2.key = m.key /\ m2.data = m.data /\ m2.eltscnt = m.eltscnt /\ m2.free = m.free
    /\ m2.root[q] = IF x # NULL THEN x ELSE m.kid["l"][n]
    /\ \A t \in AllTrees \ {q} : m2.root[t] = m.root[t]

\* What that does to the memory.
LEMMA JoinedFacts ==
  ASSUME NEW N \in Nat, NEW V, NEW m \in Memory(N, V), NEW q \in AllTrees, NEW n \in 1..N,
         NEW x \in 0..N
  PROVE  JoinedAs(N, V, m, Joined(m, q, n, x), q, n, x)
<1> DEFINE left == m.kid["l"][n]
           right == m.kid["r"][n]
           m2 == Joined(m, q, n, x)
<1>1. "l" \in Sides /\ "r" \in Sides /\ \A s \in Sides : s = "l" \/ s = "r"
  BY DEF Sides
<1>2. NULL \in 0..N /\ NULL \notin 1..N /\ \A z \in 0..N : z # NULL => z \in 1..N
  BY DEF NULL
<1>3. left \in 0..N /\ right \in 0..N
  BY <1>1 DEF Memory
<1>4. CASE x # NULL
  <2> DEFINE m0 == Link(m, x, "l", left)
             m1 == Link(m0, x, "r", right)
  <2>1. x \in 1..N
    BY <1>2, <1>4
  <2>2. Linked(N, V, m, m0, x, "l", left)
    BY <1>1, <1>3, <2>1, LinkFacts
  <2>3. m0 \in Memory(N, V)
    BY <2>2 DEF Linked
  <2> HIDE DEF m0, left
  <2>4. Linked(N, V, m0, m1, x, "r", right)
    BY <1>1, <1>3, <2>1, <2>3, LinkFacts
  <2>5. m1 \in Memory(N, V)
    BY <2>4 DEF Linked
  <2>6. m2 = [m1 EXCEPT !.u[x] = NULL, !.root[q] = x]
    BY <1>4 DEF Joined, m0, left
  <2> HIDE DEF m1, m2, right
  <2>7. m2 = [kid |-> m1.kid, u |-> [m1.u EXCEPT ![x] = NULL], key |-> m1.key, data |-> m1.data,
              root |-> [m1.root EXCEPT ![q] = x], eltscnt |-> m1.eltscnt, free |-> m1.free]
    BY <2>5, <2>6 DEF Memory
  <2>8. m2 \in Memory(N, V)
    BY <1>2, <2>1, <2>5, <2>7 DEF Memory
  <2>9. \A z \in 1..N : m2.u[z] = IF z = x THEN NULL ELSE m1.u[z]
    BY <2>5, <2>7 DEF Memory
  <2>10. m2.root[q] = x /\ \A t \in AllTrees \ {q} : m2.root[t] = m1.root[t]
    BY <2>5, <2>7 DEF Memory
  <2>11. m2.kid = m1.kid /\ m2.key = m1.key /\ m2.data = m1.data /\ m2.eltscnt = m1.eltscnt
         /\ m2.free = m1.free
    BY <2>7
  <2>12. \A s \in Sides, z \in 1..N : m2.kid[s][z] = IF z = x THEN m.kid[s][n] ELSE m.kid[s][z]
    BY <1>1, <2>2, <2>4, <2>11 DEF Linked, left, right
  <2>13. \A z \in 1..N : m2.u[z] = IF z = x THEN NULL
                                   ELSE IF \E s \in Sides : z = m.kid[s][n] THEN x ELSE m.u[z]
    BY <1>1, <2>2, <2>4, <2>9 DEF Linked, left, right
  <2>14. /\ m1.key = m.key /\ m1.data = m.data /\ m1.eltscnt = m.eltscnt /\ m1.free = m.free
         /\ m1.root = m.root
    BY <2>2, <2>4 DEF Linked
  <2>15. JoinedAs(N, V, m, m2, q, n, x)
    BY <1>4, <2>8, <2>10, <2>11, <2>12, <2>13, <2>14 DEF JoinedAs
  <2> QED
    BY <2>15 DEF m2
<1>5. CASE x = NULL /\ left = NULL
  <2>1. m2 = [m EXCEPT !.root[q] = NULL]
    BY <1>5 DEF Joined
  <2> HIDE DEF m2
  <2>2. m2 \in Memory(N, V) /\ m2.root[q] = NULL /\ \A t \in AllTrees \ {q} : m2.root[t] = m.root[t]
    BY <1>2, <2>1 DEF Memory
  <2>3. /\ m2.kid = m.kid /\ m2.u = m.u /\ m2.key = m.key /\ m2.data = m.data
        /\ m2.eltscnt = m.eltscnt /\ m2.free = m.free
    BY <2>1 DEF Memory
  <2>4. JoinedAs(N, V, m, m2, q, n, x)
    BY <1>2, <1>5, <2>2, <2>3 DEF JoinedAs
  <2> QED
    BY <2>4 DEF m2
<1>6. CASE x = NULL /\ left # NULL
  <2>0. left \in 1..N
    BY <1>2, <1>3, <1>6
  <2>1. m2 = [m EXCEPT !.root[q] = left, !.u[left] = NULL]
    BY <1>6 DEF Joined
  <2>a. left = m.kid["l"][n]
    OBVIOUS
  <2> HIDE DEF m2, left
  <2>2. m2 \in Memory(N, V) /\ m2.root[q] = left /\ \A t \in AllTrees \ {q} : m2.root[t] = m.root[t]
    BY <1>2, <1>3, <2>1, <2>0 DEF Memory
  <2>3. /\ m2.kid = m.kid /\ m2.key = m.key /\ m2.data = m.data
        /\ m2.eltscnt = m.eltscnt /\ m2.free = m.free
    BY <2>1 DEF Memory
  <2>5. \A z \in 1..N : m2.u[z] = IF z = left THEN NULL ELSE m.u[z]
    BY <2>0, <2>1 DEF Memory
  <2>6. JoinedAs(N, V, m, m2, q, n, x)
    BY <1>2, <1>6, <2>a, <2>2, <2>3, <2>5 DEF JoinedAs
  <2> QED
    BY <2>6 DEF m2
<1> QED
  BY <1>4, <1>5, <1>6

\* n has been taken out of the tree q and is the head of the free list.
Removed(N, V, m, m2, q, S, n) ==
    /\ m2 \in Memory(N, V) /\ Holds(m2, q, S \ {n})
    /\ \A x \in (1..N) \ S, s \in Sides : m2.kid[s][x] = m.kid[s][x] /\ m2.u[x] = m.u[x]
    /\ \A x \in (1..N) \ {n} : m2.key[x] = m.key[x] /\ m2.data[x] = m.data[x]
    /\ m2.eltscnt[q] = m.eltscnt[q] - 1 /\ m2.free = n /\ m2.u[n] = m.free
    /\ \A t \in AllTrees \ {q} : m2.root[t] = m.root[t] /\ m2.eltscnt[t] = m.eltscnt[t]

\* What is joined is a tree without n.
LEMMA JoinedHolds ==
  ASSUME NEW N \in Nat, NEW V, NEW m \in Memory(N, V), NEW q \in AllTrees,
         NEW S \in SUBSET (1..N), NEW n \in S, m.root[q] = n, Holds(m, q, S),
         NEW r, Dequeued(N, V, m, r, q, S, n), NEW m2, JoinedAs(N, V, r.m, m2, q, n, r.deq)
  PROVE  \E b2 : Tree(m2.kid, m2.u, m.key, S \ {n}, b2, m2.root[q])
<1>1. \A z \in S : z \in 1..N
  OBVIOUS
<1>2. CASE r.deq = NULL /\ r.m = m /\ m.kid["r"][n] = NULL
  <2>1. PICK b : Tree(m.kid, m.u, m.key, S, b, n)
    BY DEF Holds
  <2>2. NULL \notin S
    BY <2>1 DEF Tree, Keyed
  <2>3. \A z \in S \ {n}, s \in Sides : m2.kid[s][z] = m.kid[s][z]
    BY <1>1, <1>2, <2>2 DEF JoinedAs
  <2>4. m2.root[q] = m.kid["l"][n]
    BY <1>2 DEF JoinedAs
  <2>5. \A z \in S \ {n} : m2.u[z] = IF z = m2.root[q] THEN NULL ELSE m.u[z]
    BY <1>1, <1>2, <2>2, <2>4 DEF JoinedAs
  <2> QED
    <3>1. Unheaded(m.kid, m.u, S, n, m2.kid, m2.u)
      BY <2>3, <2>4, <2>5 DEF Unheaded
    <3> QED
      <4>1. \E b2 : Tree(m2.kid, m2.u, m.key, S \ {n}, b2, m.kid["l"][n])
        BY <1>2, <2>1, <3>1, Beheaded
      <4> QED
        BY <2>4, <4>1
<1>3. ASSUME NEW K, NEW U, NEW b, Cut(K, U, m.key, S, b, n, r.deq, r.m.kid, r.m.u)
      PROVE  \E b2 : Tree(m2.kid, m2.u, m.key, S \ {n}, b2, m2.root[q])
  <2> DEFINE x == r.deq
  <2>1. x \in S /\ x # NULL
    BY <1>3 DEF Cut, Tree, Keyed
  <2>2. m2.root[q] = x
    BY <2>1 DEF JoinedAs
  <2>3. \A z \in S \ {n}, s \in Sides : m2.kid[s][z] = IF z = x THEN r.m.kid[s][n] ELSE r.m.kid[s][z]
    BY <1>1 DEF JoinedAs
  <2>4. \A z \in S \ {n} : m2.u[z] = IF z = x THEN NULL
                                     ELSE IF \E s \in Sides : z = r.m.kid[s][n] THEN x ELSE r.m.u[z]
    BY <1>1, <2>1 DEF JoinedAs
  <2> HIDE DEF x
  <2>5. Cut(K, U, m.key, S, b, n, x, r.m.kid, r.m.u)
    BY <1>3 DEF x
  <2>6. \E b2 : Tree(m2.kid, m2.u, m.key, S \ {n}, b2, x)
    <3>1. Headed(r.m.kid, r.m.u, S, n, x, m2.kid, m2.u)
      BY <2>3, <2>4 DEF Headed
    <3> QED
      BY <2>5, <3>1, CutTree
  <2> QED
    BY <2>2, <2>6
<1> QED
  BY <1>2, <1>3 DEF Dequeued

\* sp_delete takes a block out of its tree and leaves all others alone.
LEMMA DeleteRemoves ==
  ASSUME NEW N \in Nat, NEW V, 0 \in V, NEW m \in Memory(N, V), NEW q \in AllTrees,
         NEW S \in SUBSET (1..N), Holds(m, q, S), NEW n \in S
  PROVE  Removed(N, V, m, sp_delete(m, q, n), q, S, n)
<1> DEFINE m1 == _splay(m, q, n)
           r == _sp_deq(m1, n)
           m3 == Joined(r.m, q, n, r.deq)
           m4 == sp_free_blk(m3, n)
           m5 == sp_delete(m, q, n)
<1>1. Splayed(N, V, m, m1, q, S, n)
  BY SplayTurns
<1>2. m5 = [m4 EXCEPT !.eltscnt[q] = @ - 1]
  BY DEF sp_delete, Joined
<1> HIDE DEF m1
<1>3. m1 \in Memory(N, V) /\ Same(m, m1, N, S, q) /\ m1.root[q] = n /\ Holds(m1, q, S)
  BY <1>1 DEF Splayed
<1>4. Dequeued(N, V, m1, r, q, S, n)
  BY <1>3, DeqTakes
<1> HIDE DEF r
<1>5. r.m \in Memory(N, V) /\ r.deq \in 0..N /\ Same(m1, r.m, N, S, q) /\ r.m.root = m1.root
  BY <1>4 DEF Dequeued
<1>6. JoinedAs(N, V, r.m, m3, q, n, r.deq)
  BY <1>5, JoinedFacts
<1> HIDE DEF m3
<1>7. PICK b : Tree(m3.kid, m3.u, m1.key, S \ {n}, b, m3.root[q])
  BY <1>3, <1>4, <1>6, JoinedHolds
<1>8. m3 \in Memory(N, V)
  BY <1>6 DEF JoinedAs
<1>9. /\ m4 \in Memory(N, V)
      /\ \A s \in Sides, x \in 1..N : m4.kid[s][x] = IF x = n THEN NULL ELSE m3.kid[s][x]
      /\ \A x \in 1..N : /\ m4.u[x] = IF x = n THEN m3.free ELSE m3.u[x]
                         /\ m4.key[x] = IF x = n THEN 0 ELSE m3.key[x]
                         /\ m4.data[x] = IF x = n THEN 0 ELSE m3.data[x]
      /\ m4.free = n /\ m4.eltscnt = m3.eltscnt /\ m4.root = m3.root
  BY <1>8, FreeFacts
<1> HIDE DEF m4, m5
<1>10. m5 = [kid |-> m4.kid, u |-> m4.u, key |-> m4.key, data |-> m4.data, root |-> m4.root,
             eltscnt |-> [m4.eltscnt EXCEPT ![q] = @ - 1], free |-> m4.free]
  BY <1>2, <1>9 DEF Memory
<1>11. m5 \in Memory(N, V)
  <2>1. m4.eltscnt \in [AllTrees -> Int]
    BY <1>9 DEF Memory
  <2>2. [m4.eltscnt EXCEPT ![q] = @ - 1] \in [AllTrees -> Int]
    BY <2>1
  <2> QED
    BY <1>9, <1>10, <2>2 DEF Memory
<1>12. m5.eltscnt[q] = m4.eltscnt[q] - 1 /\ \A t \in AllTrees \ {q} : m5.eltscnt[t] = m4.eltscnt[t]
  BY <1>9, <1>10 DEF Memory
<1>13. /\ m5.kid = m4.kid /\ m5.u = m4.u /\ m5.key = m4.key /\ m5.data = m4.data
       /\ m5.root = m4.root /\ m5.free = m4.free
  BY <1>10
<1>14. /\ r.m.key = m.key /\ r.m.data = m.data /\ r.m.eltscnt = m.eltscnt /\ r.m.free = m.free
       /\ m1.key = m.key
       /\ \A t \in AllTrees \ {q} : r.m.root[t] = m.root[t]
       /\ \A x \in (1..N) \ S, s \in Sides : r.m.kid[s][x] = m.kid[s][x] /\ r.m.u[x] = m.u[x]
  BY <1>3, <1>5 DEF Same
<1>15. /\ m3.key = m.key /\ m3.data = m.data /\ m3.eltscnt = m.eltscnt /\ m3.free = m.free
       /\ \A t \in AllTrees \ {q} : m3.root[t] = m.root[t]
  BY <1>6, <1>14 DEF JoinedAs
<1>16. \A x \in (1..N) \ S, s \in Sides : m3.kid[s][x] = m.kid[s][x] /\ m3.u[x] = m.u[x]
  <2>1. r.deq # NULL => r.deq \in S
    BY <1>4 DEF Dequeued, Cut
  <2>2. NULL \notin 1..N
    BY DEF NULL
  <2>3. \A s \in Sides : r.m.kid[s][n] = NULL \/ r.m.kid[s][n] \in S
    <3>1. CASE r.m = m1
      BY <1>3, <3>1 DEF Holds, Tree, KidOf
    <3>2. ASSUME NEW K, NEW U, NEW c, Cut(K, U, m1.key, S, c, n, r.deq, r.m.kid, r.m.u), NEW s \in Sides
          PROVE  r.m.kid[s][n] = NULL \/ r.m.kid[s][n] \in S
      <4>1. n # r.deq /\ r.deq \in S /\ \A x \in S, t \in Sides : K[t][x] = NULL \/ K[t][x] \in S
        BY <3>2 DEF Cut, Tree, KidOf
      <4>2. r.m.kid[s][n] = IF K[s][n] = r.deq THEN K["r"][r.deq] ELSE K[s][n]
        BY <3>2, <4>1 DEF Cut
      <4>3. "r" \in Sides
        BY SidesFacts
      <4> QED
        BY <4>1, <4>2, <4>3
    <3> QED
      BY <1>4, <3>1, <3>2 DEF Dequeued
  <2>4. "l" \in Sides
    BY SidesFacts
  <2> QED
    BY <1>6, <1>14, <2>1, <2>2, <2>3, <2>4 DEF JoinedAs
<1>17. Holds(m5, q, S \ {n})
  <2> DEFINE T == S \ {n}
  <2>0. \A x \in T : x \in 1..N /\ x # n
    OBVIOUS
  <2>1. \A x \in T : m5.u[x] = m3.u[x] /\ m5.key[x] = m1.key[x]
    BY <1>9, <1>13, <1>14, <1>15, <2>0
  <2>2. \A x \in T, d \in Sides : m5.kid[d][x] = m3.kid[d][x]
    BY <1>9, <1>13, <2>0
  <2>3. m5.root[q] = m3.root[q]
    BY <1>9, <1>13
  <2>a. Tree(m3.kid, m3.u, m1.key, T, b, m3.root[q])
    BY <1>7
  <2> HIDE DEF T
  <2>4. Tree(m5.kid, m5.u, m5.key, T, b, m3.root[q])
    BY <2>a, <2>1, <2>2, Agree
  <2> QED
    BY <2>3, <2>4 DEF Holds, T
<1>18. \A x \in (1..N) \ S, s \in Sides : m5.kid[s][x] = m.kid[s][x] /\ m5.u[x] = m.u[x]
  BY <1>9, <1>13, <1>16
<1>19. \A x \in (1..N) \ {n} : m5.key[x] = m.key[x] /\ m5.data[x] = m.data[x]
  BY <1>9, <1>13, <1>15
<1>20. m5.u[n] = m.free /\ m5.free = n
  BY <1>9, <1>13, <1>15
<1>21. Removed(N, V, m, m5, q, S, n)
  BY <1>9, <1>11, <1>12, <1>13, <1>15, <1>17, <1>18, <1>19, <1>20 DEF Removed
<1> QED
  BY <1>21 DEF m5

(***************************************************************************)
(* The free list.                                                          *)
(***************************************************************************)

\* f goes through the blocks F of the list, from the last one to the head.
Chained(free, u, F, f, k) ==
    /\ k \in Nat /\ f[0] = NULL /\ f[k] = free /\ NULL \notin F
    /\ \A i \in 1..k : f[i] \in F /\ u[f[i]] = f[i - 1]
    /\ \A x \in F : \E i \in 1..k : f[i] = x
    /\ \A i, j \in 1..k : f[i] = f[j] => i = j

\* The blocks of the free list.
FreeList(m, F) == \E f, k : Chained(m.free, m.u, F, f, k)

\* A block is put at the head of the free list.
LEMMA ListPush ==
  ASSUME NEW m, NEW F, FreeList(m, F), NEW n, n \notin F, n # NULL, NEW m2,
         m2.free = n, m2.u[n] = m.free, \A x \in F : m2.u[x] = m.u[x]
  PROVE  FreeList(m2, F \cup {n})
<1>1. PICK f, k : Chained(m.free, m.u, F, f, k)
  BY DEF FreeList
<1> DEFINE g == [i \in 0..(k + 1) |-> IF i = k + 1 THEN n ELSE f[i]]
<1>2. k \in Nat
  BY <1>1 DEF Chained
<1>3. g[k + 1] = n /\ \A i \in 0..k : g[i] = f[i] /\ i # k + 1
  BY <1>2
<1> HIDE DEF g
<1>4. \A i \in 1..(k + 1) : i = k + 1 \/ i \in 1..k
  BY <1>2
<1>5. \A i \in 1..k : i \in 0..k /\ i - 1 \in 0..k
  BY <1>2
<1>6. 0 \in 0..k /\ k \in 0..k /\ (k + 1) - 1 = k /\ k + 1 \in Nat /\ k + 1 \in 1..(k + 1)
      /\ \A i \in 1..k : i \in 1..(k + 1)
  BY <1>2
<1>7. /\ f[0] = NULL /\ f[k] = m.free /\ NULL \notin F
      /\ \A i \in 1..k : f[i] \in F /\ m.u[f[i]] = f[i - 1]
      /\ \A x \in F : \E i \in 1..k : f[i] = x
      /\ \A i, j \in 1..k : f[i] = f[j] => i = j
  BY <1>1 DEF Chained
<1>8. g[0] = NULL /\ g[k + 1] = m2.free /\ NULL \notin F \cup {n}
  BY <1>3, <1>6, <1>7
<1>9. ASSUME NEW i \in 1..(k + 1) PROVE g[i] \in F \cup {n} /\ m2.u[g[i]] = g[i - 1]
  <2>1. CASE i = k + 1
    BY <1>3, <1>6, <1>7, <2>1
  <2>2. CASE i \in 1..k
    BY <1>3, <1>5, <1>7, <2>2
  <2> QED
    BY <1>4, <2>1, <2>2
<1>10. \A x \in F \cup {n} : \E i \in 1..(k + 1) : g[i] = x
  BY <1>3, <1>5, <1>6, <1>7
<1>11. \A i, j \in 1..(k + 1) : g[i] = g[j] => i = j
  BY <1>3, <1>4, <1>5, <1>7
<1>12. Chained(m2.free, m2.u, F \cup {n}, g, k + 1)
  BY <1>6, <1>8, <1>9, <1>10, <1>11 DEF Chained
<1> QED
  BY <1>12 DEF FreeList

\* The head is taken from the free list.
LEMMA ListPop ==
  ASSUME NEW m, NEW F, FreeList(m, F), m.free # NULL
  PROVE  /\ m.free \in F
         /\ \A m2 : m2.free = m.u[m.free] /\ (\A x \in F \ {m.free} : m2.u[x] = m.u[x])
                       => FreeList(m2, F \ {m.free})
<1>1. PICK f, k : Chained(m.free, m.u, F, f, k)
  BY DEF FreeList
<1>2. k \in Nat /\ k # 0
  BY <1>1 DEF Chained
<1>3. /\ k - 1 \in Nat /\ k \in 1..k /\ k \notin 1..(k - 1)
      /\ \A i \in 1..k : i = k \/ i \in 1..(k - 1)
      /\ \A i \in 1..(k - 1) : i \in 1..k
  BY <1>2
<1>4. /\ f[0] = NULL /\ f[k] = m.free /\ NULL \notin F
      /\ \A i \in 1..k : f[i] \in F /\ m.u[f[i]] = f[i - 1]
      /\ \A x \in F : \E i \in 1..k : f[i] = x
      /\ \A i, j \in 1..k : f[i] = f[j] => i = j
  BY <1>1 DEF Chained
<1>5. m.free \in F
  BY <1>3, <1>4
<1>6. ASSUME NEW m2, m2.free = m.u[m.free], \A x \in F \ {m.free} : m2.u[x] = m.u[x]
      PROVE  FreeList(m2, F \ {m.free})
  <2>1. f[k - 1] = m2.free
    BY <1>3, <1>4, <1>6
  <2>2. \A i \in 1..(k - 1) : f[i] \in F \ {m.free} /\ m2.u[f[i]] = f[i - 1]
    BY <1>3, <1>4, <1>6
  <2>3. \A x \in F \ {m.free} : \E i \in 1..(k - 1) : f[i] = x
    BY <1>3, <1>4
  <2>4. \A i, j \in 1..(k - 1) : f[i] = f[j] => i = j
    BY <1>3, <1>4
  <2>5. Chained(m2.free, m2.u, F \ {m.free}, f, k - 1)
    BY <1>3, <1>4, <2>1, <2>2, <2>3, <2>4 DEF Chained
  <2> QED
    BY <2>5 DEF FreeList
<1> QED
  BY <1>5, <1>6

\* The free list is the same while its links are.
LEMMA ListSame ==
  ASSUME NEW m, NEW F, FreeList(m, F), NEW m2, m2.free = m.free, \A x \in F : m2.u[x] = m.u[x]
  PROVE  FreeList(m2, F)
<1>1. PICK f, k : Chained(m.free, m.u, F, f, k)
  BY DEF FreeList
<1>2. Chained(m2.free, m2.u, F, f, k)
  BY <1>1 DEF Chained
<1> QED
  BY <1>2 DEF FreeList

\* Without a head there are no blocks.
LEMMA ListEmpty ==
  ASSUME NEW m, NEW F, FreeList(m, F), m.free = NULL
  PROVE  F = {}
<1>1. PICK f, k : Chained(m.free, m.u, F, f, k)
  BY DEF FreeList
<1>2. k \in Nat /\ (k # 0 => k \in 1..k)
  BY <1>1 DEF Chained
<1>3. k = 0
  BY <1>1, <1>2 DEF Chained
<1>4. 1..k = {}
  BY <1>3
<1> QED
  BY <1>1, <1>4 DEF Chained

\* sp_free_freelist goes through all of it.
LEMMA FreeBlocksAll ==
  ASSUME NEW N \in Nat, NEW V, NEW m \in Memory(N, V), NEW F \in SUBSET (1..N), FreeList(m, F)
  PROVE  FreeBlocks(m) = F
<1> DEFINE rd(blocks) == blocks \cup ({m.u[n] : n \in blocks} \ {NULL})
           start == {m.free} \ {NULL}
           rounds == CHOOSE f : f = [i \in 0..N |-> IF i = 0 THEN start ELSE rd(f[i - 1])]
<1>1. Len(m.key) = N
  BY Length DEF Memory
<1>2. FreeBlocks(m) = rounds[N]
  BY <1>1 DEF FreeBlocks, Loop
<1>3. PICK g, k : Chained(m.free, m.u, F, g, k)
  BY DEF FreeList
<1>4. /\ k \in Nat /\ g[0] = NULL /\ g[k] = m.free /\ NULL \notin F
      /\ \A i \in 1..k : g[i] \in F /\ m.u[g[i]] = g[i - 1]
      /\ \A x \in F : \E i \in 1..k : g[i] = x
      /\ \A i, j \in 1..k : g[i] = g[j] => i = j
  BY <1>3 DEF Chained
<1>5. k <= N
  <2> DEFINE h == [i \in 1..k |-> g[i]]
  <2>1. h \in [1..k -> 1..N]
    BY <1>4
  <2>2. \A i, j \in 1..k : h[i] = h[j] => i = j
    BY <1>4
  <2> HIDE DEF h
  <2>4. IsFiniteSet(1..k) /\ IsFiniteSet(1..N) /\ Cardinality(1..N) = N /\ Cardinality(1..k) = k
    <3>1. IsFiniteSet(1..N) /\ Cardinality(1..N) = IF 1 > N THEN 0 ELSE N - 1 + 1
      BY FS_Interval
    <3>2. IsFiniteSet(1..k) /\ Cardinality(1..k) = IF 1 > k THEN 0 ELSE k - 1 + 1
      BY <1>4, FS_Interval
    <3> QED
      BY <1>4, <3>1, <3>2
  <2>5. ~ (Cardinality(1..N) < Cardinality(1..k))
    <3> DEFINE A == 1..k
               B == 1..N
    <3>1. h \in [A -> B] /\ (\A i, j \in A : h[i] = h[j] => i = j) /\ IsFiniteSet(A) /\ IsFiniteSet(B)
      BY <2>1, <2>2, <2>4
    <3> HIDE DEF A, B
    <3>2. ~ (Cardinality(B) < Cardinality(A))
      BY <3>1, FS_PigeonHole
    <3> QED
      BY <3>2 DEF A, B
  <2> QED
    BY <1>4, <2>4, <2>5
<1> DEFINE Part2(i) == {g[j] : j \in {j \in 1..k : j >= k - i}}
           X == SUBSET F
           r == [s \in X |-> rd(s)]
           W == [i \in 0..N |-> {s \in X : s = Part2(i)}]
<1>6. \A i \in 0..N : Part2(i) \in X
  BY <1>4
<1>7. start = Part2(0)
  <2>1. CASE k = 0
    BY <1>4, <2>1
  <2>2. CASE k # 0
    <3>1. {j \in 1..k : j >= k - 0} = {k}
      BY <1>4, <2>2
    <3>2. k \in 1..k
      BY <1>4, <2>2
    <3> QED
      BY <1>4, <3>1, <3>2
  <2> QED
    BY <2>1, <2>2
<1>8. ASSUME NEW i \in 1..N PROVE rd(Part2(i - 1)) = Part2(i)
  <2>1. \A j \in 1..k : j >= k - i <=> (j >= k - (i - 1) \/ \E l \in 1..k : l >= k - (i - 1) /\ j = l - 1)
    <3> SUFFICES ASSUME NEW j \in 1..k
                 PROVE  j >= k - i <=> (j >= k - (i - 1) \/ \E l \in 1..k : l >= k - (i - 1) /\ j = l - 1)
      OBVIOUS
    <3>1. k \in Nat /\ i \in Int /\ i >= 1 /\ j \in Int
      BY <1>4
    <3>2. CASE j + 1 \in 1..k
      BY <3>1, <3>2
    <3>3. CASE j + 1 \notin 1..k
      BY <3>1, <3>3
    <3> QED
      BY <3>2, <3>3
  <2>2. \A x : x \in Part2(i) <=> \E j \in 1..k : j >= k - i /\ x = g[j]
    OBVIOUS
  <2>3. \A x : x \in rd(Part2(i - 1)) <=>
                  \/ \E j \in 1..k : j >= k - (i - 1) /\ x = g[j]
                  \/ x # NULL /\ \E l \in 1..k : l >= k - (i - 1) /\ x = g[l - 1]
    <3> DEFINE B == Part2(i - 1)
    <3>1. \A x : x \in B <=> (\E j \in 1..k : j >= k - (i - 1) /\ x = g[j])
      OBVIOUS
    <3> HIDE DEF B
    <3>2. \A x : x \in rd(B) <=> (x \in B \/ (x # NULL /\ \E y \in B : x = m.u[y]))
      OBVIOUS
    <3>3. \A x : (\E y \in B : x = m.u[y]) <=> (\E l \in 1..k : l >= k - (i - 1) /\ x = g[l - 1])
      <4>1. \A x : (\E y \in B : x = m.u[y])
                      <=> (\E l \in 1..k : l >= k - (i - 1) /\ x = m.u[g[l]])
        BY <3>1
      <4>2. \A l \in 1..k : m.u[g[l]] = g[l - 1]
        BY <1>4
      <4> QED
        BY <4>1, <4>2
    <3> HIDE DEF rd
    <3>4. \A x : x \in rd(B) <=>
                    \/ \E j \in 1..k : j >= k - (i - 1) /\ x = g[j]
                    \/ x # NULL /\ \E l \in 1..k : l >= k - (i - 1) /\ x = g[l - 1]
      BY <3>1, <3>2, <3>3
    <3> QED
      BY <3>4 DEF B
  <2>4. \A l \in 1..k : g[l - 1] # NULL => l - 1 \in 1..k
    <3>1. \A l \in 1..k : l - 1 = 0 \/ l - 1 \in 1..k
      BY <1>4
    <3> QED
      BY <1>4, <3>1
  <2>5. \A x : x \in rd(Part2(i - 1)) <=> x \in Part2(i)
    <3> SUFFICES ASSUME NEW x PROVE x \in rd(Part2(i - 1)) <=> x \in Part2(i)
      OBVIOUS
    <3> HIDE DEF Part2, rd
    <3>1. ASSUME x \in rd(Part2(i - 1)) PROVE x \in Part2(i)
      BY <2>1, <2>2, <2>3, <2>4, <3>1
    <3>2. ASSUME x \in Part2(i) PROVE x \in rd(Part2(i - 1))
      BY <1>4, <2>1, <2>2, <2>3, <3>2
    <3> QED
      BY <3>1, <3>2
  <2> HIDE DEF Part2, rd
  <2> QED
    BY <2>5
<1>9. Part2(N) = F
  <2>1. {j \in 1..k : j >= k - N} = 1..k
    BY <1>4, <1>5
  <2>2. Part2(N) = {g[j] : j \in 1..k}
    BY <2>1
  <2>3. \A x : x \in F <=> \E j \in 1..k : x = g[j]
    BY <1>4
  <2>4. \A x : x \in F <=> x \in {g[j] : j \in 1..k}
    BY <2>3
  <2> HIDE DEF Part2
  <2> QED
    BY <2>2, <2>4
<1>10. W \in [0..N -> SUBSET X] /\ \A t \in X : r[t] = rd(t)
  OBVIOUS
<1>11. \A i \in 0..N : \A t : t \in W[i] <=> t = Part2(i)
  BY <1>6
<1> HIDE DEF start, X, r, rd, Part2, W
<1>12. start \in W[0]
  <2>1. 0 \in 0..N
    OBVIOUS
  <2> QED
    BY <1>7, <1>11, <2>1
<1>13. \A i \in 1..N : \A t \in W[i - 1] : r[t] \in W[i]
  <2>1. \A i \in 1..N : i - 1 \in 0..N /\ i \in 0..N
    OBVIOUS
  <2> QED
    BY <1>6, <1>8, <1>10, <1>11, <2>1
<1>14. Steps(N, X, W, start, r)
  BY <1>10, <1>12, <1>13 DEF Steps
<1>15. PICK f : Run(f, N, X, start, r)
  BY <1>14, Rounds
<1>16. f = [i \in 0..N |-> IF i = 0 THEN start ELSE rd(f[i - 1])]
  BY <1>10, <1>15 DEF Run
<1>17. rounds = [i \in 0..N |-> IF i = 0 THEN start ELSE rd(rounds[i - 1])]
  BY <1>16
<1> HIDE DEF rounds
<1>18. Follows(rounds, N, X, start, r)
  BY <1>10, <1>17 DEF Follows
<1>19. rounds[N] \in W[N]
  BY <1>14, <1>18, Rounds
<1> QED
  BY <1>2, <1>9, <1>11, <1>19

(***************************************************************************)
(* The trees and the free list together.                                   *)
(***************************************************************************)

\* The blocks that are in no tree.
Free(N, T) == (1..N) \ (T["spt"] \cup T["got"])

\* T has the blocks of the trees.
Whole(N, V, m, T) ==
    /\ N \in Nat /\ 0 \in V /\ m \in Memory(N, V)
    /\ T \in [AllTrees -> SUBSET (1..N)]
    /\ \A q \in AllTrees : Holds(m, q, T[q]) /\ m.eltscnt[q] = Cardinality(T[q])
    /\ T["spt"] \cap T["got"] = {}
    /\ FreeList(m, Free(N, T))

\* The tree q has now the blocks S.
With(T, q, S) == [T EXCEPT ![q] = S]

\* Only the tree q has changed, and has now the blocks S.
Changed(N, V, m, m2, T, q, S) ==
    /\ 0 \in V /\ m2 \in Memory(N, V) /\ S \in SUBSET (1..N)
    /\ Holds(m2, q, S) /\ m2.eltscnt[q] = Cardinality(S)
    /\ \A t \in AllTrees \ {q} :
          /\ m2.root[t] = m.root[t] /\ m2.eltscnt[t] = m.eltscnt[t] /\ S \cap T[t] = {}
          /\ \A x \in T[t] : m2.u[x] = m.u[x] /\ m2.key[x] = m.key[x]
          /\ \A x \in T[t], d \in Sides : m2.kid[d][x] = m.kid[d][x]
    /\ FreeList(m2, Free(N, With(T, q, S)))

\* A change of one tree and the free list keeps the memory whole.
LEMMA WholeNext ==
  ASSUME NEW N0, NEW V0, NEW m, NEW T, Whole(N0, V0, m, T), NEW q \in AllTrees,
         NEW N \in Nat, N0 <= N, NEW V, NEW m2, NEW S, Changed(N, V, m, m2, T, q, S)
  PROVE  Whole(N, V, m2, With(T, q, S))
<1> DEFINE T2 == With(T, q, S)
<1>1. /\ N0 \in Nat /\ T \in [AllTrees -> SUBSET (1..N0)]
      /\ \A t \in AllTrees : Holds(m, t, T[t]) /\ m.eltscnt[t] = Cardinality(T[t])
      /\ T["spt"] \cap T["got"] = {}
  BY DEF Whole
<1>2. T2[q] = S /\ \A t \in AllTrees \ {q} : T2[t] = T[t]
  BY <1>1 DEF With
<1>3. T2 \in [AllTrees -> SUBSET (1..N)]
  <2>1. 1..N0 \in SUBSET (1..N)
    BY <1>1
  <2>2. T \in [AllTrees -> SUBSET (1..N)]
    BY <1>1, <2>1
  <2>3. S \in SUBSET (1..N)
    BY DEF Changed
  <2> QED
    BY <2>2, <2>3 DEF With
<1>4. ASSUME NEW t \in AllTrees PROVE Holds(m2, t, T2[t]) /\ m2.eltscnt[t] = Cardinality(T2[t])
  <2>1. CASE t = q
    BY <1>2, <2>1 DEF Changed
  <2>2. CASE t # q
    <3>1. PICK b : Tree(m.kid, m.u, m.key, T[t], b, m.root[t])
      BY <1>1 DEF Holds
    <3>2. \A x \in T[t] : m2.u[x] = m.u[x] /\ m2.key[x] = m.key[x]
      BY <2>2 DEF Changed
    <3>3. \A x \in T[t], d \in Sides : m2.kid[d][x] = m.kid[d][x]
      BY <2>2 DEF Changed
    <3> DEFINE A == T[t]
    <3> HIDE DEF A
    <3>4. Tree(m2.kid, m2.u, m2.key, A, b, m.root[t])
      BY <3>1, <3>2, <3>3, Agree DEF A
    <3>5. m2.root[t] = m.root[t] /\ m2.eltscnt[t] = m.eltscnt[t]
      BY <2>2 DEF Changed
    <3> QED
      BY <1>1, <1>2, <2>2, <3>4, <3>5 DEF Holds, A
  <2> QED
    BY <2>1, <2>2
<1>5. T2["spt"] \cap T2["got"] = {}
  <2>1. "spt" \in AllTrees /\ "got" \in AllTrees /\ (q = "spt" \/ q = "got") /\ "spt" # "got"
    BY DEF AllTrees
  <2>2. CASE q = "spt"
    <3>1. T2["got"] = T["got"] /\ S \cap T["got"] = {} /\ T2["spt"] = S
      BY <1>2, <2>1, <2>2 DEF Changed
    <3> QED
      BY <3>1
  <2>3. CASE q = "got"
    <3>1. T2["spt"] = T["spt"] /\ S \cap T["spt"] = {} /\ T2["got"] = S
      BY <1>2, <2>1, <2>3 DEF Changed
    <3> QED
      BY <3>1
  <2> QED
    BY <2>1, <2>2, <2>3
<1>6. 0 \in V /\ m2 \in Memory(N, V) /\ FreeList(m2, Free(N, T2))
  BY DEF Changed
<1> HIDE DEF T2
<1>7. Whole(N, V, m2, T2)
  BY <1>3, <1>4, <1>5, <1>6 DEF Whole
<1> QED
  BY <1>7 DEF T2

\* Two trees, or a tree and the free list, have no block in common.
LEMMA Apart ==
  ASSUME NEW N, NEW V, NEW m, NEW T, Whole(N, V, m, T), NEW q \in AllTrees
  PROVE  /\ \A t \in AllTrees \ {q} : T[q] \cap T[t] = {}
         /\ T[q] \cap Free(N, T) = {} /\ T[q] \in SUBSET (1..N) /\ Free(N, T) \in SUBSET (1..N)
         /\ IsFiniteSet(T[q]) /\ Cardinality(T[q]) \in Nat /\ Cardinality(T[q]) <= N
<1>1. "spt" \in AllTrees /\ "got" \in AllTrees /\ \A t \in AllTrees : t = "spt" \/ t = "got"
  BY DEF AllTrees
<1>2. T[q] \in SUBSET (1..N) /\ N \in Nat /\ T["spt"] \cap T["got"] = {}
  BY DEF Whole
<1>3. IsFiniteSet(T[q]) /\ Cardinality(T[q]) \in Nat /\ Cardinality(T[q]) <= N
  BY <1>2, AtMost
<1> QED
  BY <1>1, <1>2, <1>3 DEF Free

\* The parts of a tree's memory that the free list and the other trees are in.
LEMMA WholeSame ==
  ASSUME NEW N, NEW V, NEW m, NEW T, Whole(N, V, m, T), NEW q \in AllTrees,
         NEW m2 \in Memory(N, V), Same(m, m2, N, T[q], q), Holds(m2, q, T[q])
  PROVE  Whole(N, V, m2, T)
<1>1. /\ N \in Nat /\ T \in [AllTrees -> SUBSET (1..N)] /\ 0 \in V
      /\ m.eltscnt[q] = Cardinality(T[q]) /\ FreeList(m, Free(N, T))
  BY DEF Whole
<1>2. With(T, q, T[q]) = T
  BY <1>1 DEF With
<1>3. /\ \A x \in (1..N) \ T[q] : m2.u[x] = m.u[x]
      /\ \A x \in (1..N) \ T[q], d \in Sides : m2.kid[d][x] = m.kid[d][x]
  BY SidesFacts DEF Same
<1>4. m2.key = m.key /\ m2.eltscnt = m.eltscnt /\ m2.free = m.free
      /\ \A t \in AllTrees \ {q} : m2.root[t] = m.root[t]
  BY DEF Same
<1>5. \A t \in AllTrees \ {q} : T[q] \cap T[t] = {} /\ T[t] \in SUBSET (1..N)
  BY <1>1, Apart
<1>6. FreeList(m2, Free(N, T))
  <2>1. \A x \in Free(N, T) : m2.u[x] = m.u[x]
    BY <1>3, Apart
  <2> QED
    BY <1>1, <1>4, <2>1, ListSame
<1>7. Changed(N, V, m, m2, T, q, T[q])
  <2>1. ASSUME NEW t \in AllTrees \ {q}
        PROVE  /\ \A x \in T[t] : m2.u[x] = m.u[x] /\ m2.key[x] = m.key[x]
               /\ \A x \in T[t], d \in Sides : m2.kid[d][x] = m.kid[d][x]
    BY <1>3, <1>4, <1>5
  <2>2. T[q] \in SUBSET (1..N)
    BY <1>1
  <2> QED
    BY <1>1, <1>2, <1>4, <1>5, <1>6, <2>1, <2>2 DEF Changed
<1>8. N <= N
  BY <1>1
<1> QED
  BY <1>1, <1>2, <1>7, <1>8, WholeNext

\* sp_lookup makes the block that it finds the root.
LookedUp(N, V, m, m2, T, q, n) ==
    /\ Whole(N, V, m2, T) /\ m2.key = m.key /\ m2.data = m.data
    /\ IF n = NULL THEN m2 = m ELSE n \in T[q] /\ m2.root[q] = n

\* sp_lookup turns the tree until the block it finds is the root.
LEMMA LookupWhole ==
  ASSUME NEW N, NEW V, NEW m, NEW T, Whole(N, V, m, T), NEW q \in AllTrees, NEW k \in Nat
  PROVE  LookedUp(N, V, m, sp_lookup(m, q, k), T, q, Find(m, q, k))
<1> DEFINE n == Find(m, q, k)
           m2 == _splay(m, q, n)
<1>1. N \in Nat /\ m \in Memory(N, V) /\ T[q] \in SUBSET (1..N) /\ Holds(m, q, T[q])
  BY DEF Whole
<1>2. n \in T[q] \/ n = NULL
  BY <1>1, Finds
<1>3. sp_lookup(m, q, k) = IF n = NULL THEN m ELSE m2
  BY DEF sp_lookup
<1>4. NULL \notin T[q]
  BY <1>1 DEF Holds, Tree, Keyed
<1> HIDE DEF n
<1>5. CASE n = NULL
  BY <1>3, <1>5 DEF LookedUp, n
<1>6. CASE n # NULL
  <2>1. Splayed(N, V, m, m2, q, T[q], n)
    BY <1>1, <1>2, <1>6, SplayTurns
  <2> HIDE DEF m2
  <2>2. Whole(N, V, m2, T)
    BY <2>1, WholeSame DEF Splayed
  <2>3. LookedUp(N, V, m, m2, T, q, n)
    BY <1>2, <1>6, <2>1, <2>2 DEF LookedUp, Splayed, Same
  <2> QED
    BY <1>3, <1>6, <2>3 DEF n
<1> QED
  BY <1>5, <1>6

\* sp_delete takes a block out.
Deleted(N, V, m, m2, T, q, n) ==
    /\ Whole(N, V, m2, With(T, q, T[q] \ {n}))
    /\ \A x \in (1..N) \ {n} : m2.key[x] = m.key[x] /\ m2.data[x] = m.data[x]

\* sp_delete gives the block to the free list, and no other.
LEMMA DeleteWhole ==
  ASSUME NEW N, NEW V, NEW m, NEW T, Whole(N, V, m, T), NEW q \in AllTrees, NEW n \in T[q]
  PROVE  Deleted(N, V, m, sp_delete(m, q, n), T, q, n)
<1> DEFINE m2 == sp_delete(m, q, n)
           S == T[q] \ {n}
<1>1. /\ N \in Nat /\ 0 \in V /\ m \in Memory(N, V) /\ T[q] \in SUBSET (1..N)
      /\ Holds(m, q, T[q]) /\ m.eltscnt[q] = Cardinality(T[q])
      /\ T \in [AllTrees -> SUBSET (1..N)] /\ FreeList(m, Free(N, T))
  BY DEF Whole
<1>2. Removed(N, V, m, m2, q, T[q], n)
  BY <1>1, DeleteRemoves
<1> HIDE DEF m2
<1>3. /\ \A t \in AllTrees \ {q} : T[q] \cap T[t] = {} /\ T[t] \in SUBSET (1..N)
      /\ T[q] \cap Free(N, T) = {} /\ IsFiniteSet(T[q])
  BY <1>1, Apart
<1>4. Free(N, With(T, q, S)) = Free(N, T) \cup {n}
  <2>1. "spt" \in AllTrees /\ "got" \in AllTrees /\ (q = "spt" \/ q = "got") /\ "spt" # "got"
    BY DEF AllTrees
  <2>2. With(T, q, S)[q] = S /\ \A t \in AllTrees \ {q} : With(T, q, S)[t] = T[t]
    BY <1>1 DEF With
  <2>3. n \in 1..N /\ \A t \in AllTrees \ {q} : n \notin T[t]
    BY <1>1, <1>3
  <2> DEFINE T2 == With(T, q, S)
  <2>4. CASE q = "spt"
    <3>1. T2["spt"] = T["spt"] \ {n} /\ T2["got"] = T["got"] /\ n \notin T["got"] /\ n \in T["spt"]
      BY <2>1, <2>2, <2>3, <2>4
    <3> HIDE DEF T2
    <3> QED
      BY <2>3, <3>1 DEF Free, T2
  <2>5. CASE q = "got"
    <3>1. T2["got"] = T["got"] \ {n} /\ T2["spt"] = T["spt"] /\ n \notin T["spt"] /\ n \in T["got"]
      BY <2>1, <2>2, <2>3, <2>5
    <3> HIDE DEF T2
    <3> QED
      BY <2>3, <3>1 DEF Free, T2
  <2> QED
    BY <2>1, <2>4, <2>5
<1>5. FreeList(m2, Free(N, T) \cup {n})
  <2>1. n # NULL /\ n \notin Free(N, T)
    BY <1>1, <1>3 DEF NULL
  <2>2. \A x \in Free(N, T) : x \in (1..N) \ T[q]
    BY <1>3 DEF Free
  <2>3. \A x \in Free(N, T) : m2.u[x] = m.u[x]
    BY <1>2, <2>2, SidesFacts DEF Removed
  <2>4. m2.free = n /\ m2.u[n] = m.free
    BY <1>2 DEF Removed
  <2> QED
    BY <1>1, <2>1, <2>3, <2>4, ListPush
<1>6. m2.eltscnt[q] = Cardinality(S)
  <2>1. Cardinality(S) = Cardinality(T[q]) - 1
    BY <1>3, FS_RemoveElement
  <2> QED
    BY <1>1, <1>2, <2>1 DEF Removed
<1>7. ASSUME NEW t \in AllTrees \ {q}
      PROVE  /\ m2.root[t] = m.root[t] /\ m2.eltscnt[t] = m.eltscnt[t] /\ S \cap T[t] = {}
             /\ \A x \in T[t] : m2.u[x] = m.u[x] /\ m2.key[x] = m.key[x]
             /\ \A x \in T[t], d \in Sides : m2.kid[d][x] = m.kid[d][x]
  <2>1. \A x \in T[t] : x \in (1..N) \ T[q] /\ x # n
    BY <1>3
  <2>2. \A x \in T[t] : m2.u[x] = m.u[x] /\ m2.key[x] = m.key[x]
    BY <1>2, <2>1, SidesFacts DEF Removed
  <2>3. \A x \in T[t], d \in Sides : m2.kid[d][x] = m.kid[d][x]
    BY <1>2, <2>1 DEF Removed
  <2> QED
    BY <1>2, <1>3, <2>2, <2>3 DEF Removed
<1>8. m2 \in Memory(N, V) /\ Holds(m2, q, S) /\ S \in SUBSET (1..N)
  BY <1>1, <1>2 DEF Removed
<1> HIDE DEF S
<1>9. Changed(N, V, m, m2, T, q, S)
  BY <1>1, <1>4, <1>5, <1>6, <1>7, <1>8 DEF Changed
<1>10. N <= N
  BY <1>1
<1>11. Whole(N, V, m2, With(T, q, S))
  BY <1>1, <1>9, <1>10, WholeNext
<1>12. \A x \in (1..N) \ {n} : m2.key[x] = m.key[x] /\ m2.data[x] = m.data[x]
  BY <1>2 DEF Removed
<1> QED
  BY <1>11, <1>12 DEF Deleted, S, m2

\* h is f, and then g.
Extends(N, A, X, f, g, h) == /\ h \in [1..(N + A) -> X]
                             /\ \A i \in 1..N : h[i] = f[i]
                             /\ \A i \in 1..A : h[N + i] = g[i]

\* Two sequences, one behind the other, are one.
LEMMA Concatenated ==
  ASSUME NEW X, NEW s \in Seq(X), NEW t \in Seq(X)
  PROVE  s \o t \in Seq(X) /\ Len(s \o t) = Len(s) + Len(t)
  OBVIOUS

\* A sequence is appended to another one.
LEMMA Extended ==
  ASSUME NEW N \in Nat, NEW A \in Nat, NEW X, NEW f \in [1..N -> X], NEW g \in [1..A -> X],
         NEW h, h = f \o g
  PROVE  Extends(N, A, X, f, g, h)
<1>1. f \in Seq(X) /\ Len(f) = N /\ g \in Seq(X) /\ Len(g) = A
  BY Length
<1>2. f \o g \in Seq(X) /\ Len(f \o g) = N + A
  <2>1. f \o g \in Seq(X) /\ Len(f \o g) = Len(f) + Len(g)
    BY <1>1, Concatenated
  <2> QED
    BY <1>1, <2>1
<1>3. f \o g \in [1..(N + A) -> X]
  <2>1. \A s \in Seq(X) : s \in [1..Len(s) -> X]
    OBVIOUS
  <2> QED
    BY <1>2, <2>1
<1>4. \A i \in 1..N : (f \o g)[i] = f[i]
  BY <1>1
<1>5. \A i \in 1..A : (f \o g)[N + i] = g[i]
  BY <1>1
<1> QED
  BY <1>3, <1>4, <1>5 DEF Extends

\* SP_ALLOC_N blocks more, all of them in the free list.
Grown(N, V, m, m2) ==
    /\ m2 \in Memory(N + SP_ALLOC_N, V) /\ m2.root = m.root /\ m2.eltscnt = m.eltscnt
    /\ \A s \in Sides, x \in 1..N : m2.kid[s][x] = m.kid[s][x]
    /\ \A x \in 1..N : m2.u[x] = m.u[x] /\ m2.key[x] = m.key[x] /\ m2.data[x] = m.data[x]
    /\ m2.free = N + SP_ALLOC_N
    /\ \A i \in 1..SP_ALLOC_N : m2.u[N + i] = IF i = 1 THEN NULL ELSE N + i - 1

\* What Filled does to an empty free list.
LEMMA FilledFacts ==
  ASSUME NEW N \in Nat, NEW V, 0 \in V, NEW m \in Memory(N, V), m.free = NULL
  PROVE  Grown(N, V, m, Filled(m))
<1> DEFINE A == SP_ALLOC_N
           new == [i \in 1..A |-> NULL]
           up == [i \in 1..A |-> IF i = 1 THEN NULL ELSE N + i - 1]
           kid == [d \in Sides |-> m.kid[d] \o new]
           m2 == Filled(m)
<1>1. A \in Nat /\ A # 0 /\ N + A \in Nat
  BY SplayTreeAssumption
<1>2. Len(m.key) = N
  BY Length DEF Memory
<1>3. /\ m.kid \in [Sides -> [1..N -> 0..N]] /\ m.u \in [1..N -> 0..N] /\ m.key \in [1..N -> Nat]
      /\ m.data \in [1..N -> V] /\ m.root \in [AllTrees -> 0..N] /\ m.eltscnt \in [AllTrees -> Int]
  BY DEF Memory
<1>4. m2 = [m EXCEPT !.kid = kid, !.key = m.key \o new, !.data = m.data \o new, !.u = m.u \o up,
                     !.free = N + A]
  BY <1>2 DEF Filled
<1> HIDE DEF A, kid, m2
<1>5. /\ new \in [1..A -> Nat] /\ new \in [1..A -> V] /\ new \in [1..A -> 0..(N + A)]
      /\ up \in [1..A -> 0..(N + A)]
  <2>1. NULL \in 0..(N + A) /\ NULL \in Nat /\ NULL \in V
    BY <1>1 DEF NULL
  <2>2. \A i \in 1..A : i # 1 => N + i - 1 \in 0..(N + A)
    BY <1>1
  <2>3. \A i \in 1..A : (IF i = 1 THEN NULL ELSE N + i - 1) \in 0..(N + A)
    BY <2>1, <2>2
  <2> QED
    BY <2>1, <2>3
<1>6. 1..N \in SUBSET (1..(N + A)) /\ 0..N \in SUBSET (0..(N + A))
  BY <1>1
<1>7. \A i \in 1..A : up[i] = IF i = 1 THEN NULL ELSE N + i - 1
  OBVIOUS
<1> HIDE DEF new, up
<1> DEFINE key == m.key \o new
           data == m.data \o new
           u == m.u \o up
<1>a. key = m.key \o new /\ data = m.data \o new /\ u = m.u \o up
  OBVIOUS
<1> HIDE DEF key, data, u
<1>8. key \in [1..(N + A) -> Nat] /\ \A x \in 1..N : key[x] = m.key[x]
  <2>1. Extends(N, A, Nat, m.key, new, key)
    BY <1>1, <1>3, <1>5, <1>a, Extended
  <2> QED
    BY <2>1 DEF Extends
<1>9. data \in [1..(N + A) -> V] /\ \A x \in 1..N : data[x] = m.data[x]
  <2>1. Extends(N, A, V, m.data, new, data)
    BY <1>1, <1>3, <1>5, <1>a, Extended
  <2> QED
    BY <2>1 DEF Extends
<1>10. /\ u \in [1..(N + A) -> 0..(N + A)] /\ \A x \in 1..N : u[x] = m.u[x]
       /\ \A i \in 1..A : u[N + i] = up[i]
  <2>1. m.u \in [1..N -> 0..(N + A)]
    BY <1>3, <1>6
  <2>2. Extends(N, A, 0..(N + A), m.u, up, u)
    BY <1>1, <1>5, <1>a, <2>1, Extended
  <2> QED
    BY <2>2 DEF Extends
<1>11. \A d \in Sides : /\ m.kid[d] \o new \in [1..(N + A) -> 0..(N + A)]
                        /\ \A x \in 1..N : (m.kid[d] \o new)[x] = m.kid[d][x]
  <2> SUFFICES ASSUME NEW d \in Sides
               PROVE  /\ m.kid[d] \o new \in [1..(N + A) -> 0..(N + A)]
                      /\ \A x \in 1..N : (m.kid[d] \o new)[x] = m.kid[d][x]
    OBVIOUS
  <2> DEFINE f == m.kid[d]
  <2>1. f \in [1..N -> 0..N]
    BY <1>3
  <2> HIDE DEF f
  <2>2. f \in [1..N -> 0..(N + A)]
    BY <1>6, <2>1
  <2> DEFINE h == f \o new
  <2>3. h = f \o new
    OBVIOUS
  <2> HIDE DEF h
  <2>4. Extends(N, A, 0..(N + A), f, new, h)
    BY <1>1, <1>5, <2>2, <2>3, Extended
  <2>5. h \in [1..(N + A) -> 0..(N + A)] /\ \A x \in 1..N : h[x] = f[x]
    BY <2>4 DEF Extends
  <2> QED
    BY <2>5 DEF f, h
<1>12. kid \in [Sides -> [1..(N + A) -> 0..(N + A)]]
       /\ \A s \in Sides, x \in 1..N : kid[s][x] = m.kid[s][x]
  BY <1>11 DEF kid
<1>13. m2 = [kid |-> kid, u |-> u, key |-> key, data |-> data, root |-> m.root,
             eltscnt |-> m.eltscnt, free |-> N + A]
  BY <1>4 DEF Memory, key, data, u
<1>14. m2 \in Memory(N + A, V)
  <2>1. m.root \in [AllTrees -> 0..(N + A)]
    BY <1>3, <1>6
  <2>2. N + A \in 0..(N + A)
    BY <1>1
  <2>3. key \in [1..(N + A) -> Nat] /\ data \in [1..(N + A) -> V] /\ u \in [1..(N + A) -> 0..(N + A)]
    BY <1>8, <1>9, <1>10
  <2> QED
    BY <1>3, <1>12, <1>13, <2>1, <2>2, <2>3 DEF Memory
<1>15. \A s \in Sides, x \in 1..N : m2.kid[s][x] = m.kid[s][x]
  BY <1>12, <1>13
<1>16. \A x \in 1..N : m2.u[x] = m.u[x] /\ m2.key[x] = m.key[x] /\ m2.data[x] = m.data[x]
  BY <1>8, <1>9, <1>10, <1>13
<1>17. \A i \in 1..A : m2.u[N + i] = IF i = 1 THEN NULL ELSE N + i - 1
  BY <1>7, <1>10, <1>13
<1>18. m2.root = m.root /\ m2.eltscnt = m.eltscnt /\ m2.free = N + A
  BY <1>13
<1> QED
  BY <1>14, <1>15, <1>16, <1>17, <1>18 DEF Grown, A, m2

\* There is always a block to allocate.
Ready(N, V, m, N2, m2, T) ==
    /\ N2 \in Nat /\ N <= N2 /\ Whole(N2, V, m2, T) /\ m2.free # NULL
    /\ \A x \in 1..N : m2.key[x] = m.key[x] /\ m2.data[x] = m.data[x]

\* A memory whose free list was filled is whole.
LEMMA FilledWhole ==
  ASSUME NEW N, NEW V, NEW m, NEW T, Whole(N, V, m, T)
  PROVE  \E N2 : Ready(N, V, m, N2, Filled(m), T)
<1> DEFINE m2 == Filled(m)
           A == SP_ALLOC_N
           q == "spt"
           N2 == N + A
<1>1. /\ N \in Nat /\ 0 \in V /\ m \in Memory(N, V) /\ T \in [AllTrees -> SUBSET (1..N)]
      /\ \A t \in AllTrees : Holds(m, t, T[t]) /\ m.eltscnt[t] = Cardinality(T[t])
      /\ FreeList(m, Free(N, T))
  BY DEF Whole
<1>2. CASE m.free # NULL
  <2>1. m2 = m
    BY <1>2 DEF Filled
  <2>2. Ready(N, V, m, N, m2, T)
    BY <1>1, <1>2, <2>1 DEF Ready
  <2> QED
    BY <2>2
<1>3. CASE m.free = NULL
  <2>1. Grown(N, V, m, m2)
    BY <1>1, <1>3, FilledFacts
  <2>2. A \in Nat /\ A # 0 /\ N2 \in Nat /\ N <= N2 /\ N2 # NULL
    BY <1>1, SplayTreeAssumption DEF NULL
  <2>3. Free(N, T) = {}
    BY <1>1, <1>3, ListEmpty
  <2>4. "spt" \in AllTrees /\ "got" \in AllTrees
    BY DEF AllTrees
  <2>5. With(T, q, T[q]) = T
    BY <1>1 DEF With
  <2>6. Free(N2, T) = (N + 1)..N2
    <3>1. T["spt"] \cup T["got"] = 1..N
      BY <1>1, <2>3, <2>4 DEF Free
    <3>2. (1..N2) \ (1..N) = (N + 1)..N2
      BY <1>1, <2>2
    <3> HIDE DEF N2
    <3> QED
      BY <3>1, <3>2 DEF Free
  <2> HIDE DEF m2
  <2>7. FreeList(m2, Free(N2, T))
    <3> DEFINE f == [i \in 0..A |-> IF i = 0 THEN NULL ELSE N + i]
               F == (N + 1)..N2
    <3>1. \A i \in 1..A : f[i] = N + i /\ f[i - 1] = IF i = 1 THEN NULL ELSE N + i - 1
      BY <1>1, <2>2
    <3>2. f[0] = NULL /\ f[A] = m2.free
      BY <1>1, <2>1, <2>2 DEF Grown
    <3> HIDE DEF f
    <3>3. NULL \notin F
      BY <1>1, <2>2 DEF NULL
    <3>4. \A i \in 1..A : f[i] \in F /\ m2.u[f[i]] = f[i - 1]
      BY <1>1, <2>1, <2>2, <3>1 DEF Grown
    <3>5. \A x \in F : x - N \in 1..A /\ f[x - N] = x
      <4>1. \A x \in F : x - N \in 1..A /\ N + (x - N) = x
        BY <1>1, <2>2
      <4> HIDE DEF F
      <4> QED
        BY <3>1, <4>1
    <3>6. \A i, j \in 1..A : f[i] = f[j] => i = j
      BY <1>1, <2>2, <3>1
    <3> HIDE DEF F, A
    <3>7. Chained(m2.free, m2.u, F, f, A)
      BY <2>2, <3>2, <3>3, <3>4, <3>5, <3>6 DEF Chained
    <3> QED
      BY <2>6, <3>7 DEF FreeList, F
  <2>8. \A t \in AllTrees : T[t] \in SUBSET (1..N)
    BY <1>1
  <2>9. ASSUME NEW t \in AllTrees
        PROVE  /\ m2.root[t] = m.root[t] /\ m2.eltscnt[t] = m.eltscnt[t]
               /\ \A x \in T[t] : m2.u[x] = m.u[x] /\ m2.key[x] = m.key[x]
               /\ \A x \in T[t], d \in Sides : m2.kid[d][x] = m.kid[d][x]
    BY <2>1, <2>8 DEF Grown
  <2>10. Holds(m2, q, T[q])
    <3> DEFINE B == T[q]
    <3>1. PICK b : Tree(m.kid, m.u, m.key, B, b, m.root[q])
      BY <1>1, <2>4 DEF Holds
    <3>2. /\ \A x \in B : m2.u[x] = m.u[x] /\ m2.key[x] = m.key[x]
          /\ \A x \in B, d \in Sides : m2.kid[d][x] = m.kid[d][x]
      BY <2>4, <2>9
    <3> HIDE DEF B
    <3>3. Tree(m2.kid, m2.u, m2.key, B, b, m.root[q])
      BY <3>1, <3>2, Agree
    <3> QED
      BY <2>4, <2>9, <3>3 DEF Holds, B
  <2>11. \A t \in AllTrees \ {q} : T[q] \cap T[t] = {}
    BY <2>4, Apart
  <2>12. T[q] \in SUBSET (1..N2)
    <3>1. 1..N \in SUBSET (1..N2)
      BY <1>1, <2>2
    <3> HIDE DEF N2
    <3> QED
      BY <2>4, <2>8, <3>1
  <2>13. m2 \in Memory(N2, V)
    BY <2>1 DEF Grown
  <2> HIDE DEF N2
  <2>14. Changed(N2, V, m, m2, T, q, T[q])
    BY <1>1, <2>4, <2>5, <2>7, <2>9, <2>10, <2>11, <2>12, <2>13 DEF Changed
  <2>15. Whole(N2, V, m2, T)
    BY <2>2, <2>4, <2>5, <2>14, WholeNext
  <2>16. \A x \in 1..N : m2.key[x] = m.key[x] /\ m2.data[x] = m.data[x]
    BY <2>1 DEF Grown
  <2>17. m2.free # NULL
    BY <2>1, <2>2 DEF Grown, N2
  <2>18. Ready(N, V, m, N2, m2, T)
    BY <2>2, <2>15, <2>16, <2>17 DEF Ready
  <2> QED
    BY <2>18 DEF m2
<1> QED
  BY <1>2, <1>3

\* n has been allocated for the key k and is the root of the tree.
Installed(N, V, m, N2, m2, T, q, n, k) ==
    /\ N2 \in Nat /\ N <= N2 /\ n \in Free(N2, T) /\ n # NULL
    /\ Whole(N2, V, m2, With(T, q, T[q] \cup {n}))
    /\ m2.root[q] = n /\ m2.key[n] = k
    /\ \A x \in (1..N) \ {n} : m2.key[x] = m.key[x] /\ m2.data[x] = m.data[x]

\* The block that is allocated.
Taking(m, q, n, k) == [m EXCEPT !.free = m.u[n], !.key[n] = k, !.eltscnt[q] = @ + 1]

\* What that leaves.
TakenFrom(N, V, m, m2, q, n, k) ==
    /\ m2 \in Memory(N, V) /\ m2.kid = m.kid /\ m2.u = m.u /\ m2.data = m.data
    /\ m2.root = m.root /\ m2.free = m.u[n]
    /\ \A x \in 1..N : m2.key[x] = IF x = n THEN k ELSE m.key[x]
    /\ m2.eltscnt[q] = m.eltscnt[q] + 1
    /\ \A t \in AllTrees \ {q} : m2.eltscnt[t] = m.eltscnt[t]

\* What that does to the memory.
LEMMA TakingFacts ==
  ASSUME NEW N \in Nat, NEW V, NEW m \in Memory(N, V), NEW q \in AllTrees, NEW n \in 1..N,
         NEW k \in Nat
  PROVE  TakenFrom(N, V, m, Taking(m, q, n, k), q, n, k)
<1> DEFINE m2 == Taking(m, q, n, k)
<1>1. m.key \in [1..N -> Nat] /\ m.eltscnt \in [AllTrees -> Int] /\ m.u \in [1..N -> 0..N]
  BY DEF Memory
<1>2. m2 = [kid |-> m.kid, u |-> m.u, key |-> [m.key EXCEPT ![n] = k], data |-> m.data,
            root |-> m.root, eltscnt |-> [m.eltscnt EXCEPT ![q] = @ + 1], free |-> m.u[n]]
  <2>1. m2 = [[[m EXCEPT !.free = m.u[n]] EXCEPT !.key[n] = k] EXCEPT !.eltscnt[q] = @ + 1]
    BY Zenon DEF Taking
  <2> DEFINE a == [m EXCEPT !.free = m.u[n]]
             c == [a EXCEPT !.key[n] = k]
  <2>2. a = [kid |-> m.kid, u |-> m.u, key |-> m.key, data |-> m.data,
             root |-> m.root, eltscnt |-> m.eltscnt, free |-> m.u[n]]
    <3>1. m = [kid |-> m.kid, u |-> m.u, key |-> m.key, data |-> m.data,
               root |-> m.root, eltscnt |-> m.eltscnt, free |-> m.free]
      BY DEF Memory
    <3> HIDE DEF m2
    <3> QED
      BY <3>1
  <2>3. m2 = [c EXCEPT !.eltscnt[q] = @ + 1]
    BY <2>1
  <2>4. c = [a EXCEPT !.key[n] = k]
    OBVIOUS
  <2> HIDE DEF a, c, m2
  <2>5. c = [kid |-> m.kid, u |-> m.u, key |-> [m.key EXCEPT ![n] = k], data |-> m.data,
             root |-> m.root, eltscnt |-> m.eltscnt, free |-> m.u[n]]
    BY <2>2, <2>4
  <2> QED
    BY <2>3, <2>5
<1>3. [m.eltscnt EXCEPT ![q] = @ + 1] \in [AllTrees -> Int] /\ m.u[n] \in 0..N
      /\ [m.key EXCEPT ![n] = k] \in [1..N -> Nat]
  BY <1>1
<1> HIDE DEF m2
<1>4. m2 \in Memory(N, V)
  BY <1>2, <1>3 DEF Memory
<1>5. \A x \in 1..N : m2.key[x] = IF x = n THEN k ELSE m.key[x]
  BY <1>1, <1>2
<1>6. m2.eltscnt[q] = m.eltscnt[q] + 1 /\ \A t \in AllTrees \ {q} : m2.eltscnt[t] = m.eltscnt[t]
  BY <1>1, <1>2
<1>7. m2.kid = m.kid /\ m2.u = m.u /\ m2.data = m.data /\ m2.root = m.root /\ m2.free = m.u[n]
  BY <1>2
<1> QED
  BY <1>4, <1>5, <1>6, <1>7 DEF TakenFrom, m2

\* What is free when n is in a tree.
LEMMA FreeAfter ==
  ASSUME NEW N, NEW T, NEW q \in AllTrees, T \in [AllTrees -> SUBSET (1..N)], NEW n \in 1..N
  PROVE  Free(N, With(T, q, T[q] \cup {n})) = Free(N, T) \ {n}
<1>1. "spt" \in AllTrees /\ "got" \in AllTrees /\ (q = "spt" \/ q = "got") /\ "spt" # "got"
  BY DEF AllTrees
<1> DEFINE T2 == With(T, q, T[q] \cup {n})
<1>2. T2[q] = T[q] \cup {n} /\ \A t \in AllTrees \ {q} : T2[t] = T[t]
  BY DEF With
<1>3. CASE q = "spt"
  <2>1. T2["spt"] = T["spt"] \cup {n} /\ T2["got"] = T["got"]
    BY <1>1, <1>2, <1>3
  <2> HIDE DEF T2
  <2> QED
    BY <2>1 DEF Free, T2
<1>4. CASE q = "got"
  <2>1. T2["got"] = T["got"] \cup {n} /\ T2["spt"] = T["spt"]
    BY <1>1, <1>2, <1>4
  <2> HIDE DEF T2
  <2> QED
    BY <2>1 DEF Free, T2
<1> QED
  BY <1>1, <1>3, <1>4

\* The block that is allocated becomes the root.
LEMMA TakenEnqueued ==
  ASSUME NEW N, NEW V, NEW m, NEW T, Whole(N, V, m, T), NEW q \in AllTrees, NEW k \in Nat,
         m.free # NULL, \A x \in T[q] : m.key[x] # k
  PROVE  Installed(N, V, m, N, _sp_enq(Taking(m, q, m.free, k), q, m.free), T, q, m.free, k)
<1> DEFINE n == m.free
           m1 == Taking(m, q, n, k)
           m2 == _sp_enq(m1, q, n)
           S == T[q] \cup {n}
<1>1. /\ N \in Nat /\ 0 \in V /\ m \in Memory(N, V) /\ T \in [AllTrees -> SUBSET (1..N)]
      /\ Holds(m, q, T[q]) /\ m.eltscnt[q] = Cardinality(T[q]) /\ FreeList(m, Free(N, T))
  BY DEF Whole
<1>2. n \in Free(N, T) /\ n # NULL
  BY <1>1, ListPop
<1>3. /\ \A t \in AllTrees : T[t] \in SUBSET (1..N) /\ T[t] \cap Free(N, T) = {}
      /\ \A t \in AllTrees \ {q} : T[q] \cap T[t] = {}
      /\ Free(N, T) \in SUBSET (1..N) /\ IsFiniteSet(T[q])
  BY Apart
<1>4. n \in 1..N /\ \A t \in AllTrees : n \notin T[t]
  BY <1>2, <1>3
<1> HIDE DEF n
<1>5. TakenFrom(N, V, m, m1, q, n, k)
  BY <1>1, <1>4, TakingFacts
<1> HIDE DEF m1
<1>6. Holds(m1, q, T[q])
  <2> DEFINE A == T[q]
  <2>1. PICK b : Tree(m.kid, m.u, m.key, A, b, m.root[q])
    BY <1>1 DEF Holds
  <2>2. /\ \A x \in A : m1.u[x] = m.u[x] /\ m1.key[x] = m.key[x]
        /\ \A x \in A, d \in Sides : m1.kid[d][x] = m.kid[d][x]
    BY <1>3, <1>4, <1>5 DEF TakenFrom
  <2> HIDE DEF A
  <2>3. Tree(m1.kid, m1.u, m1.key, A, b, m.root[q])
    BY <2>1, <2>2, Agree
  <2> QED
    BY <1>5, <2>3 DEF Holds, TakenFrom, A
<1>7. Keyed(m1.key, S)
  <2>1. Keyed(m1.key, T[q])
    BY <1>6 DEF Holds, Tree
  <2>2. m1.key[n] = k /\ \A x \in T[q] : m1.key[x] = m.key[x]
    BY <1>3, <1>4, <1>5 DEF TakenFrom
  <2>3. IsFiniteSet(S)
    BY <1>3, FS_AddElement
  <2>4. \A x \in S : m1.key[x] \in Int
    BY <2>1, <2>2 DEF Keyed
  <2>5. \A x, y \in S : m1.key[x] = m1.key[y] => x = y
    BY <2>1, <2>2 DEF Keyed
  <2>6. NULL \notin S
    BY <1>2, <2>1 DEF Keyed
  <2> QED
    BY <2>3, <2>4, <2>5, <2>6 DEF Keyed
<1>8. m1 \in Memory(N, V) /\ T[q] \in SUBSET (1..N) /\ n \notin T[q]
  BY <1>3, <1>4, <1>5 DEF TakenFrom
<1>9. Enqueued(N, V, m1, m2, q, T[q], n)
  BY <1>1, <1>4, <1>6, <1>7, <1>8, EnqPuts
<1> HIDE DEF m2
<1>10. m2 \in Memory(N, V) /\ Same(m1, m2, N, S, q) /\ m2.root[q] = n /\ Holds(m2, q, S)
  BY <1>9 DEF Enqueued
<1>11. m2.eltscnt[q] = Cardinality(S)
  <2>1. Cardinality(S) = Cardinality(T[q]) + 1
    BY <1>3, <1>4, FS_AddElement
  <2> QED
    BY <1>1, <1>5, <1>10, <2>1 DEF Same, TakenFrom
<1>12. FreeList(m2, Free(N, T) \ {n})
  <2>1. m2.free = m.u[n]
    BY <1>5, <1>10 DEF Same, TakenFrom
  <2>2. \A x \in Free(N, T) \ {n} : x \in (1..N) \ S
    BY <1>3
  <2>3. \A x \in Free(N, T) \ {n} : m2.u[x] = m.u[x]
    BY <1>5, <1>10, <2>2, SidesFacts DEF Same, TakenFrom
  <2> QED
    BY <1>1, <1>2, <2>1, <2>3, ListPop DEF n
<1>13. Free(N, With(T, q, S)) = Free(N, T) \ {n}
  BY <1>1, <1>4, FreeAfter
<1>14. ASSUME NEW t \in AllTrees \ {q}
       PROVE  /\ m2.root[t] = m.root[t] /\ m2.eltscnt[t] = m.eltscnt[t] /\ S \cap T[t] = {}
              /\ \A x \in T[t] : m2.u[x] = m.u[x] /\ m2.key[x] = m.key[x]
              /\ \A x \in T[t], d \in Sides : m2.kid[d][x] = m.kid[d][x]
  <2>1. \A x \in T[t] : x \in (1..N) \ S /\ x # n
    BY <1>3, <1>4
  <2>2. \A x \in T[t] : m2.u[x] = m.u[x] /\ m2.key[x] = m.key[x]
    BY <1>5, <1>10, <2>1, SidesFacts DEF Same, TakenFrom
  <2>3. \A x \in T[t], d \in Sides : m2.kid[d][x] = m.kid[d][x]
    BY <1>5, <1>10, <2>1 DEF Same, TakenFrom
  <2>4. S \cap T[t] = {}
    BY <1>3, <1>4
  <2> QED
    BY <1>5, <1>10, <2>2, <2>3, <2>4 DEF Same, TakenFrom
<1>15. S \in SUBSET (1..N)
  BY <1>3, <1>4
<1>16. m2.key[n] = k /\ \A x \in (1..N) \ {n} : m2.key[x] = m.key[x] /\ m2.data[x] = m.data[x]
  BY <1>4, <1>5, <1>10 DEF Same, TakenFrom
<1> HIDE DEF S
<1>17. Changed(N, V, m, m2, T, q, S)
  BY <1>1, <1>10, <1>11, <1>12, <1>13, <1>14, <1>15 DEF Changed
<1>18. N <= N
  BY <1>1
<1>19. Whole(N, V, m2, With(T, q, S))
  BY <1>1, <1>17, <1>18, WholeNext
<1>20. Installed(N, V, m, N, m2, T, q, n, k)
  BY <1>1, <1>2, <1>10, <1>16, <1>18, <1>19 DEF Installed, S
<1> QED
  BY <1>20 DEF m2, m1, n

\* sp_install of a key that is in the tree finds it, and of one that is not allocates
\* a block for it.
LEMMA InstallWhole ==
  ASSUME NEW N, NEW V, NEW m, NEW T, Whole(N, V, m, T), NEW q \in AllTrees, NEW k \in Nat
  PROVE  IF Find(m, q, k) # NULL
         THEN LookedUp(N, V, m, sp_install(m, q, k), T, q, Find(m, q, k))
         ELSE \E N2, n : Installed(N, V, m, N2, sp_install(m, q, k), T, q, n, k)
<1> DEFINE filled == Filled(m)
           n == filled.free
           m2 == _sp_enq(Taking(filled, q, n, k), q, n)
<1>1. sp_install(m, q, k) = IF Find(m, q, k) # NULL THEN sp_lookup(m, q, k) ELSE m2
  BY DEF sp_install, Taking
<1>2. CASE Find(m, q, k) # NULL
  BY <1>1, <1>2, LookupWhole
<1>3. CASE Find(m, q, k) = NULL
  <2>1. PICK N2 : Ready(N, V, m, N2, filled, T)
    BY FilledWhole
  <2>2. N \in Nat /\ m \in Memory(N, V) /\ T[q] \in SUBSET (1..N) /\ Holds(m, q, T[q])
    BY DEF Whole
  <2>3. \A x \in T[q] : m.key[x] # k
    BY <1>3, <2>2, Finds DEF Holds, Tree, Keyed
  <2> HIDE DEF filled
  <2>4. \A x \in T[q] : filled.key[x] # k
    BY <2>1, <2>2, <2>3 DEF Ready
  <2>5. Installed(N2, V, filled, N2, m2, T, q, n, k)
    BY <2>1, <2>4, TakenEnqueued DEF Ready
  <2> HIDE DEF m2, n
  <2>6. \A x \in (1..N) \ {n} : m2.key[x] = m.key[x] /\ m2.data[x] = m.data[x]
    <3>1. \A x \in 1..N : x \in 1..N2
      BY <2>1, <2>2 DEF Ready
    <3> QED
      BY <2>1, <2>5, <3>1 DEF Ready, Installed
  <2>7. N <= N2
    BY <2>1 DEF Ready
  <2>8. Installed(N, V, m, N2, m2, T, q, n, k)
    BY <2>5, <2>6, <2>7 DEF Installed
  <2> QED
    BY <1>1, <1>3, <2>8
<1> QED
  BY <1>2, <1>3

(***************************************************************************)
(* sp_null: the blocks of a tree are given back leaf by leaf.              *)
(***************************************************************************)

\* A leaf is all there is below it.
LEMMA LeafAlone ==
  ASSUME NEW K, NEW U, NEW key, NEW S, NEW b, NEW root, Tree(K, U, key, S, b, root),
         NEW n \in S, \A d \in Sides : K[d][n] = NULL
  PROVE  /\ \A y \in S : Within(key, b, n, y) => y = n
         /\ \A x \in S, d \in Sides : b[d][x] # n
         /\ n = root => S = {n}
<1>1. \A y \in S : Within(key, b, n, y) => y = n
  <2> DEFINE A == {n}
  <2>1. A \in SUBSET S /\ n \in A /\ \A x \in A, d \in Sides : K[d][x] # NULL => K[d][x] \in A
    OBVIOUS
  <2> HIDE DEF A
  <2>2. \A y \in S : Within(key, b, n, y) => y \in A
    BY <2>1, Subtree
  <2> QED
    BY <2>2 DEF A
<1>2. \A x \in S, d \in Sides : b[d][x] # n
  <2> SUFFICES ASSUME NEW x \in S, NEW d \in Sides, b[d][x] = n PROVE FALSE
    OBVIOUS
  <2>1. n # NULL
    BY DEF Tree, Keyed
  <2>2. Within(key, b, n, x)
    BY <2>1, Bounds
  <2>3. x = n
    BY <1>1, <2>2
  <2>4. On(key, d, n, n)
    BY <2>1, <2>3 DEF Tree, Bounded
  <2>5. Keyed(key, S)
    BY DEF Tree
  <2> QED
    BY <2>4, <2>5, Order
<1>3. n = root => S = {n}
  <2> SUFFICES ASSUME n = root, NEW y \in S PROVE y = n
    OBVIOUS
  <2>1. \A d \in Sides : b[d][n] = NULL
    BY DEF Tree
  <2>2. Within(key, b, n, y)
    BY <2>1 DEF Within
  <2> QED
    BY <1>1, <2>2
<1> QED
  BY <1>1, <1>2, <1>3

\* It can be taken away.
Bare(K, U, S, n, p, d, K2, U2) ==
    /\ \A z \in S \ {n}, s \in Sides : K2[s][z] = IF z = p /\ s = d THEN NULL ELSE K[s][z]
    /\ \A z \in S \ {n} : U2[z] = U[z]

\* What is left is a tree.
LEMMA LeafTree ==
  ASSUME NEW K, NEW U, NEW key, NEW S, NEW b, NEW root, Tree(K, U, key, S, b, root),
         NEW n \in S, \A d \in Sides : K[d][n] = NULL, n # root,
         NEW p, NEW d \in Sides, p = U[n], K[d][p] = n,
         NEW K2, NEW U2, Bare(K, U, S, n, p, d, K2, U2)
  PROVE  Tree(K2, U2, key, S \ {n}, b, root)
<1> DEFINE T == S \ {n}
<1>1. /\ \A z \in T, s \in Sides : K2[s][z] = IF z = p /\ s = d THEN NULL ELSE K[s][z]
      /\ \A z \in T : U2[z] = U[z]
  BY DEF Bare
<1>2. /\ \A y \in S : Within(key, b, n, y) => y = n
      /\ \A x \in S, s \in Sides : b[s][x] # n
  BY LeafAlone
<1>3. /\ Keyed(key, S) /\ Bounded(key, S, b) /\ NULL \notin S
      /\ \A x \in S, s \in Sides : KidOf(K, U, key, S, b, x, s)
      /\ root \in S /\ U[root] = NULL /\ \A s \in Sides : b[s][root] = NULL
  BY DEF Tree, Keyed
<1>4. p \in S /\ p # n
  <2>1. p \in S
    BY <1>3, Parents
  <2> QED
    BY <2>1, <1>3
<1>5. KidOf(K, U, key, S, b, p, d) /\ b[d][n] = b[d][p] /\ b[Other(d)][n] = p
  BY <1>3, <1>4 DEF KidOf
<1>6. T \in SUBSET S /\ n \notin T /\ \A z \in S : z = n \/ z \in T
  OBVIOUS
<1> HIDE DEF T
<1>7. Keyed(key, T)
  BY <1>3, <1>6, FS_Subset DEF Keyed
<1>8. Bounded(key, T, b)
  BY <1>2, <1>3, <1>6 DEF Bounded
<1>9. ASSUME NEW z \in T, NEW s \in Sides
      PROVE  KidOf(K2, U2, key, T, b, z, s)
  <2>0. z \in S
    BY <1>6
  <2>1. CASE z = p /\ s = d
    <3>1. ASSUME NEW y \in T, On(key, d, p, y)
          PROVE  b[d][p] # NULL /\ ~ On(key, d, y, b[d][p])
      <4>1. y \in S /\ y # n
        BY <1>6
      <4>2. ~ Within(key, b, n, y)
        BY <1>2, <4>1
      <4>3. On(key, Other(d), y, p)
        BY <1>3, <1>4, <3>1, <4>1, Order
      <4>4. PICK e \in Sides : b[e][n] # NULL /\ ~ On(key, e, y, b[e][n])
        BY <4>2 DEF Within
      <4>5. e = d
        BY <1>5, <4>3, <4>4, SidesFacts
      <4> QED
        BY <1>5, <4>4, <4>5
    <3>2. K2[d][p] = NULL
      BY <1>1, <2>1
    <3> QED
      BY <2>1, <3>1, <3>2 DEF KidOf
  <2>2. CASE ~ (z = p /\ s = d) /\ K[s][z] # NULL
    <3>1. K2[s][z] = K[s][z]
      BY <1>1, <2>2
    <3>2. K[s][z] # n
      BY <1>3, <1>4, <2>0, <2>2, KidsApart
    <3>3. K[s][z] \in T /\ U[K[s][z]] = z /\ b[s][K[s][z]] = b[s][z] /\ b[Other(s)][K[s][z]] = z
      BY <1>3, <1>6, <2>0, <2>2, <3>2 DEF KidOf
    <3> QED
      BY <1>1, <3>1, <3>3 DEF KidOf
  <2>3. CASE ~ (z = p /\ s = d) /\ K[s][z] = NULL
    <3>1. K2[s][z] = NULL
      BY <1>1, <2>3
    <3>2. \A y \in S : On(key, s, z, y) => b[s][z] # NULL /\ ~ On(key, s, y, b[s][z])
      BY <1>3, <2>0, <2>3 DEF KidOf
    <3> QED
      BY <1>6, <3>1, <3>2 DEF KidOf
  <2> QED
    BY <2>1, <2>2, <2>3
<1>10. root \in T /\ U2[root] = NULL
  BY <1>1, <1>3, <1>6
<1>11. Tree(K2, U2, key, T, b, root)
  BY <1>3, <1>7, <1>8, <1>9, <1>10 DEF Tree
<1> QED
  BY <1>11 DEF T

\* _sp_chop's way down ends at a leaf.
Chop(m, x) == IF m.kid["r"][x] # NULL THEN m.kid["r"][x]
              ELSE IF m.kid["l"][x] # NULL THEN m.kid["l"][x] ELSE x

\* _sp_chop gets to a block without children.
LEMMA LeafFound ==
  ASSUME NEW N \in Nat, NEW V, NEW m \in Memory(N, V), NEW q \in AllTrees,
         NEW S \in SUBSET (1..N), Holds(m, q, S), S # {}
  PROVE  LET n == Loop(LAMBDA x : Chop(m, x), m.root[q], m)
         IN  n \in S /\ \A d \in Sides : m.kid[d][n] = NULL
<1> DEFINE key == m.key
           start == m.root[q]
           rd(x) == Chop(m, x)
           rounds == CHOOSE f : f = [i \in 0..N |-> IF i = 0 THEN start ELSE rd(f[i - 1])]
           r == [x \in S |-> rd(x)]
<1>1. PICK b : Tree(m.kid, m.u, key, S, b, m.root[q])
  BY DEF Holds
<1>2. /\ Keyed(key, S) /\ Bounded(key, S, b) /\ NULL \notin S /\ m.root[q] \in S
      /\ \A x \in S, d \in Sides : m.kid[d][x] = NULL \/ m.kid[d][x] \in S
  BY <1>1 DEF Tree, Keyed, KidOf
<1>3. "l" \in Sides /\ "r" \in Sides /\ \A d \in Sides : d = "l" \/ d = "r"
  BY DEF Sides
<1> DEFINE Size(x) == Cardinality(Below(key, S, b, x))
           Leaf(x) == \A d \in Sides : m.kid[d][x] = NULL
           W == [i \in 0..N |-> {x \in S : Leaf(x) \/ Size(x) <= N - i}]
<1>4. \A x \in S : Size(x) \in Nat /\ Size(x) # 0 /\ Size(x) <= N
  <2>1. \A x \in S : Size(x) \in Nat /\ Size(x) # 0 /\ Size(x) <= Cardinality(S)
    BY <1>2, BelowFacts
  <2>2. Cardinality(S) \in Nat /\ Cardinality(S) <= N
    BY AtMost
  <2> HIDE DEF Size
  <2> QED
    BY <2>1, <2>2
<1>5. \A x \in S : rd(x) \in S /\ (Leaf(x) => rd(x) = x) /\ (~ Leaf(x) => Size(rd(x)) < Size(x))
  <2> SUFFICES ASSUME NEW x \in S
               PROVE  rd(x) \in S /\ (Leaf(x) => rd(x) = x) /\ (~ Leaf(x) => Size(rd(x)) < Size(x))
    OBVIOUS
  <2>1. \A d \in Sides : m.kid[d][x] # NULL => Size(m.kid[d][x]) < Size(x)
    BY <1>1, KidBelow
  <2> HIDE DEF Size
  <2> QED
    BY <1>2, <1>3, <2>1 DEF Chop
<1>6. Len(m.key) = N
  BY Length DEF Memory
<1>7. Loop(LAMBDA x : Chop(m, x), m.root[q], m) = rounds[N]
  BY <1>6 DEF Loop
<1>8. W \in [0..N -> SUBSET S] /\ \A t \in S : r[t] = rd(t)
  OBVIOUS
<1>9. \A i \in 0..N : \A x : x \in W[i] <=> x \in S /\ (Leaf(x) \/ Size(x) <= N - i)
  OBVIOUS
<1> HIDE DEF start, rd, r, W, Leaf, Size, key
<1>10. start \in W[0]
  <2>1. 0 \in 0..N /\ N - 0 = N
    OBVIOUS
  <2>2. start \in S
    BY <1>2 DEF start
  <2>3. Size(start) <= N
    BY <1>4, <2>2
  <2> QED
    BY <1>9, <2>1, <2>2, <2>3
<1>11. ASSUME NEW i \in 1..N, NEW t \in W[i - 1] PROVE r[t] \in W[i]
  <2>1. i - 1 \in 0..N /\ i \in 0..N
    OBVIOUS
  <2>2. t \in S /\ (Leaf(t) \/ Size(t) <= N - (i - 1))
    BY <1>9, <2>1
  <2>3. CASE Leaf(t)
    BY <1>5, <1>8, <1>9, <2>1, <2>2, <2>3
  <2>4. CASE ~ Leaf(t)
    <3>1. rd(t) \in S /\ Size(rd(t)) < Size(t) /\ Size(t) <= N - (i - 1)
      BY <1>5, <2>2, <2>4
    <3>2. Size(rd(t)) \in Nat /\ Size(t) \in Nat
      BY <1>4, <2>2, <3>1
    <3>3. Size(rd(t)) <= N - i
      BY <3>1, <3>2
    <3> QED
      BY <1>8, <1>9, <2>1, <2>2, <3>1, <3>3
  <2> QED
    BY <2>3, <2>4
<1>12. \A x \in W[N] : Leaf(x) /\ x \in S
  <2>1. ASSUME NEW x \in W[N] PROVE Leaf(x) /\ x \in S
    <3>1. N \in 0..N /\ N - N = 0
      OBVIOUS
    <3>2. x \in S /\ (Leaf(x) \/ Size(x) <= 0)
      BY <1>9, <3>1
    <3>3. Size(x) \in Nat \ {0}
      BY <1>4, <3>2
    <3>4. ~ (Size(x) <= 0)
      BY <3>3
    <3> QED
      BY <3>2, <3>4
  <2> QED
    BY <2>1
<1> DEFINE X == S
<1>13. W \in [0..N -> SUBSET X] /\ \A t \in X : r[t] = rd(t)
  BY <1>8
<1> HIDE DEF X
<1>14. Steps(N, X, W, start, r)
  BY <1>10, <1>11, <1>13 DEF Steps
<1>15. PICK f : Run(f, N, X, start, r)
  BY <1>14, Rounds
<1>16. f = [i \in 0..N |-> IF i = 0 THEN start ELSE rd(f[i - 1])]
  BY <1>13, <1>15 DEF Run
<1>17. rounds = [i \in 0..N |-> IF i = 0 THEN start ELSE rd(rounds[i - 1])]
  BY <1>16
<1> HIDE DEF rounds
<1>18. Follows(rounds, N, X, start, r)
  BY <1>13, <1>17 DEF Follows
<1>19. rounds[N] \in W[N]
  BY <1>14, <1>18, Rounds
<1> QED
  BY <1>7, <1>12, <1>19 DEF Leaf

\* A tree without a root is empty.
LEMMA HoldsNone ==
  ASSUME NEW m, NEW q
  PROVE  /\ m.root[q] = NULL => Holds(m, q, {})
         /\ \A S : Holds(m, q, S) /\ m.root[q] = NULL => S = {}
         /\ Holds(m, q, {}) => m.root[q] = NULL
<1>1. ASSUME m.root[q] = NULL PROVE Holds(m, q, {})
  <2>1. Keyed(m.key, {})
    BY FS_EmptySet DEF Keyed
  <2>2. Tree(m.kid, m.u, m.key, {}, [d \in Sides |-> <<>>], NULL)
    BY <2>1 DEF Tree, Bounded
  <2> QED
    BY <1>1, <2>2 DEF Holds
<1>2. \A S : Holds(m, q, S) /\ m.root[q] = NULL => S = {}
  BY DEF Holds, Tree, Keyed
<1>3. Holds(m, q, {}) => m.root[q] = NULL
  BY DEF Holds, Tree
<1> QED
  BY <1>1, <1>2, <1>3

\* What is free when n is not in the tree any more.
LEMMA FreeBefore ==
  ASSUME NEW N, NEW T, NEW q \in AllTrees, T \in [AllTrees -> SUBSET (1..N)],
         NEW S, NEW n \in S, n \in 1..N, \A t \in AllTrees \ {q} : n \notin T[t]
  PROVE  Free(N, With(T, q, S \ {n})) = Free(N, With(T, q, S)) \cup {n}
<1>1. "spt" \in AllTrees /\ "got" \in AllTrees /\ (q = "spt" \/ q = "got") /\ "spt" # "got"
  BY DEF AllTrees
<1> DEFINE A == With(T, q, S \ {n})
           B == With(T, q, S)
<1>2. A[q] = S \ {n} /\ B[q] = S /\ \A t \in AllTrees \ {q} : A[t] = T[t] /\ B[t] = T[t]
  BY DEF With
<1> HIDE DEF A, B
<1>3. CASE q = "spt"
  <2>1. A["spt"] = S \ {n} /\ B["spt"] = S /\ A["got"] = B["got"] /\ n \notin A["got"]
    BY <1>1, <1>2, <1>3
  <2> QED
    BY <2>1 DEF Free, A, B
<1>4. CASE q = "got"
  <2>1. A["got"] = S \ {n} /\ B["got"] = S /\ A["spt"] = B["spt"] /\ n \notin A["spt"]
    BY <1>1, <1>2, <1>4
  <2> QED
    BY <2>1 DEF Free, A, B
<1> QED
  BY <1>1, <1>3, <1>4

\* The leaf n has been taken off.
Plucked(N, V, m, m2, q, S, n) ==
    /\ m2 \in Memory(N, V) /\ \E b : Tree(m2.kid, m2.u, m2.key, S \ {n}, b, m2.root[q])
    /\ \A x \in (1..N) \ S, s \in Sides : m2.kid[s][x] = m.kid[s][x]
    /\ m2.u = m.u /\ m2.key = m.key /\ m2.data = m.data /\ m2.eltscnt = m.eltscnt
    /\ m2.free = m.free /\ \A t \in AllTrees \ {q} : m2.root[t] = m.root[t]

\* The parent of n, or the tree, is done with it.
Pluck(m, q, n) ==
    LET up == m.u[n]
        d == IF m.kid["r"][up] = n THEN "r" ELSE "l"
    IN  IF up = NULL THEN [m EXCEPT !.root[q] = NULL] ELSE SetKid(m, up, d, NULL)

\* A leaf is taken out.
LEMMA PluckFacts ==
  ASSUME NEW N \in Nat, NEW V, NEW m \in Memory(N, V), NEW q \in AllTrees,
         NEW S \in SUBSET (1..N), Holds(m, q, S), NEW n \in S, \A d \in Sides : m.kid[d][n] = NULL
  PROVE  Plucked(N, V, m, Pluck(m, q, n), q, S, n)
<1> DEFINE m2 == Pluck(m, q, n)
           up == m.u[n]
           d == IF m.kid["r"][up] = n THEN "r" ELSE "l"
<1>1. PICK b : Tree(m.kid, m.u, m.key, S, b, m.root[q])
  BY DEF Holds
<1>2. d \in Sides /\ "l" \in Sides /\ "r" \in Sides /\ \A s \in Sides : s = "l" \/ s = "r"
  BY DEF Sides
<1>3. NULL \in 0..N /\ NULL \notin S
  BY <1>1 DEF NULL, Tree, Keyed
<1>4. \/ n = m.root[q] /\ up = NULL
      \/ n # m.root[q] /\ up \in S /\ \E s \in Sides : m.kid[s][up] = n
  BY <1>1, Parents
<1>5. CASE up = NULL
  <2>1. m2 = [m EXCEPT !.root[q] = NULL]
    BY <1>5 DEF Pluck
  <2> HIDE DEF m2
  <2>2. m2 \in Memory(N, V) /\ m2.root[q] = NULL /\ \A t \in AllTrees \ {q} : m2.root[t] = m.root[t]
    BY <1>3, <2>1 DEF Memory
  <2>3. /\ m2.kid = m.kid /\ m2.u = m.u /\ m2.key = m.key /\ m2.data = m.data
        /\ m2.eltscnt = m.eltscnt /\ m2.free = m.free
    BY <2>1 DEF Memory
  <2>4. S \ {n} = {}
    BY <1>1, <1>3, <1>4, <1>5, LeafAlone
  <2>5. Holds(m2, q, {})
    BY <2>2, HoldsNone
  <2>6. Plucked(N, V, m, m2, q, S, n)
    BY <2>2, <2>3, <2>4, <2>5 DEF Plucked, Holds
  <2> QED
    BY <2>6 DEF m2
<1>6. CASE up # NULL
  <2>1. m2 = SetKid(m, up, d, NULL)
    BY <1>6 DEF Pluck
  <2>2. n # m.root[q] /\ up \in S /\ up \in 1..N
    BY <1>4, <1>6
  <2>3. m.kid[d][up] = n
    BY <1>2, <1>4, <1>6
  <2> HIDE DEF m2, d
  <2>4. KidSet(N, V, m, m2, up, d, NULL)
    BY <1>2, <1>3, <2>1, <2>2, KidFacts
  <2>5. Bare(m.kid, m.u, S, n, up, d, m2.kid, m2.u)
    BY <2>4 DEF Bare, KidSet
  <2>6. Tree(m2.kid, m2.u, m.key, S \ {n}, b, m.root[q])
    BY <1>1, <1>2, <2>2, <2>3, <2>5, LeafTree
  <2>7. Plucked(N, V, m, m2, q, S, n)
    BY <2>2, <2>4, <2>6 DEF Plucked, KidSet
  <2> QED
    BY <2>7 DEF m2
<1> QED
  BY <1>5, <1>6

\* sp_null's loop.
Chopping(N, V, m0, T, q, i, m) ==
    /\ m \in Memory(N, V) /\ m.eltscnt = m0.eltscnt
    /\ \A t \in AllTrees \ {q} : m.root[t] = m0.root[t]
    /\ \A x \in (1..N) \ T[q] : m.u[x] = m0.u[x] /\ m.key[x] = m0.key[x] /\ m.data[x] = m0.data[x]
    /\ \A x \in (1..N) \ T[q], s \in Sides : m.kid[s][x] = m0.kid[s][x]
    /\ \E S \in SUBSET T[q] : /\ Holds(m, q, S) /\ Cardinality(S) <= N - i
                              /\ FreeList(m, Free(N, With(T, q, S)))

\* Each round takes a block out.
LEMMA ChoppingRound ==
  ASSUME NEW N, NEW V, NEW m0, NEW T, Whole(N, V, m0, T), NEW q \in AllTrees,
         NEW i \in 1..N, NEW m, Chopping(N, V, m0, T, q, i - 1, m)
  PROVE  Chopping(N, V, m0, T, q, i, ChopRound(q, m))
<1> DEFINE n == Loop(LAMBDA x : Chop(m, x), m.root[q], m)
           m1 == Pluck(m, q, n)
           m2 == sp_free_blk(m1, n)
<1>1. /\ N \in Nat /\ 0 \in V /\ T \in [AllTrees -> SUBSET (1..N)] /\ T[q] \in SUBSET (1..N)
  BY DEF Whole
<1>2. /\ m \in Memory(N, V) /\ m.eltscnt = m0.eltscnt
      /\ \A t \in AllTrees \ {q} : m.root[t] = m0.root[t]
      /\ \A x \in (1..N) \ T[q] : m.u[x] = m0.u[x] /\ m.key[x] = m0.key[x] /\ m.data[x] = m0.data[x]
      /\ \A x \in (1..N) \ T[q], s \in Sides : m.kid[s][x] = m0.kid[s][x]
  BY DEF Chopping
<1>3. PICK S \in SUBSET T[q] : /\ Holds(m, q, S) /\ Cardinality(S) <= N - (i - 1)
                               /\ FreeList(m, Free(N, With(T, q, S)))
  BY DEF Chopping
<1>4. ChopRound(q, m) = IF m.root[q] = NULL THEN m ELSE m2
  BY DEF ChopRound, Pluck, SetKid, Chop
<1>5. CASE m.root[q] = NULL
  <2>1. S = {}
    BY <1>3, <1>5, HoldsNone
  <2>2. Cardinality(S) = 0 /\ 0 <= N - i
    BY <1>1, <2>1, FS_EmptySet
  <2>3. Cardinality(S) <= N - i
    BY <2>2
  <2>4. Chopping(N, V, m0, T, q, i, m)
    BY <1>2, <1>3, <2>3 DEF Chopping
  <2> QED
    BY <1>4, <1>5, <2>4
<1>6. CASE m.root[q] # NULL
  <2>1. S \in SUBSET (1..N) /\ S # {}
    BY <1>1, <1>3, <1>6, HoldsNone
  <2>2. n \in S /\ \A d \in Sides : m.kid[d][n] = NULL
    BY <1>1, <1>2, <1>3, <2>1, LeafFound
  <2> HIDE DEF n
  <2>3. Plucked(N, V, m, m1, q, S, n)
    BY <1>1, <1>2, <1>3, <2>1, <2>2, PluckFacts
  <2> HIDE DEF m1
  <2>4. n \in 1..N /\ m1 \in Memory(N, V)
    BY <2>1, <2>2, <2>3 DEF Plucked
  <2>5. /\ m2 \in Memory(N, V)
        /\ \A s \in Sides, x \in 1..N : m2.kid[s][x] = IF x = n THEN NULL ELSE m1.kid[s][x]
        /\ \A x \in 1..N : /\ m2.u[x] = IF x = n THEN m1.free ELSE m1.u[x]
                           /\ m2.key[x] = IF x = n THEN 0 ELSE m1.key[x]
                           /\ m2.data[x] = IF x = n THEN 0 ELSE m1.data[x]
        /\ m2.free = n /\ m2.eltscnt = m1.eltscnt /\ m2.root = m1.root
    BY <1>1, <2>4, FreeFacts
  <2> HIDE DEF m2
  <2>6. Holds(m2, q, S \ {n})
    <3> DEFINE B == S \ {n}
    <3>1. PICK b : Tree(m1.kid, m1.u, m1.key, B, b, m1.root[q])
      BY <2>3 DEF Plucked
    <3>2. \A x \in B : x \in 1..N /\ x # n
      BY <2>1
    <3> HIDE DEF B
    <3>3. /\ \A x \in B : m2.u[x] = m1.u[x] /\ m2.key[x] = m1.key[x]
          /\ \A x \in B, d \in Sides : m2.kid[d][x] = m1.kid[d][x]
      BY <2>5, <3>2
    <3>4. Tree(m2.kid, m2.u, m2.key, B, b, m1.root[q])
      BY <3>1, <3>3, Agree
    <3> QED
      BY <2>5, <3>4 DEF Holds, B
  <2>7. \A t \in AllTrees \ {q} : T[q] \cap T[t] = {}
    BY Apart
  <2>8. Free(N, With(T, q, S \ {n})) = Free(N, With(T, q, S)) \cup {n}
    <3>1. \A t \in AllTrees \ {q} : n \notin T[t]
      BY <2>2, <2>7
    <3> QED
      BY <1>1, <2>2, <2>4, <3>1, FreeBefore
  <2>9. FreeList(m2, Free(N, With(T, q, S)) \cup {n})
    <3> DEFINE F == Free(N, With(T, q, S))
    <3>1. n \notin F /\ F \in SUBSET (1..N)
      <4>1. "spt" \in AllTrees /\ "got" \in AllTrees /\ (q = "spt" \/ q = "got")
        BY DEF AllTrees
      <4>2. With(T, q, S)[q] = S
        BY <1>1 DEF With
      <4> QED
        BY <2>2, <4>1, <4>2 DEF Free
    <3>2. n # NULL
      BY <2>4 DEF NULL
    <3> HIDE DEF F
    <3>3. \A x \in F : m2.u[x] = m.u[x]
      BY <2>3, <2>5, <3>1 DEF Plucked
    <3>4. m2.free = n /\ m2.u[n] = m.free /\ FreeList(m, F)
      BY <1>3, <2>3, <2>4, <2>5 DEF Plucked, F
    <3>5. FreeList(m2, F \cup {n})
      BY <3>1, <3>2, <3>3, <3>4, ListPush
    <3> QED
      BY <3>5 DEF F
  <2>10. Cardinality(S \ {n}) <= N - i
    <3>1. IsFiniteSet(S) /\ Cardinality(S) \in Nat
      BY <1>1, <2>1, AtMost
    <3>2. Cardinality(S \ {n}) = Cardinality(S) - 1
      BY <2>2, <3>1, FS_RemoveElement
    <3> QED
      BY <1>1, <1>3, <3>1, <3>2
  <2>11. \A x \in (1..N) \ T[q] : x # n /\ x \in (1..N) \ S
    BY <1>3, <2>2
  <2>12. /\ \A x \in (1..N) \ T[q] : m2.u[x] = m0.u[x] /\ m2.key[x] = m0.key[x]
                                     /\ m2.data[x] = m0.data[x]
         /\ \A x \in (1..N) \ T[q], s \in Sides : m2.kid[s][x] = m0.kid[s][x]
    BY <1>2, <2>3, <2>5, <2>11 DEF Plucked
  <2>13. S \ {n} \in SUBSET T[q]
    BY <1>3
  <2>14. m2.eltscnt = m0.eltscnt /\ \A t \in AllTrees \ {q} : m2.root[t] = m0.root[t]
    BY <1>2, <2>3, <2>5 DEF Plucked
  <2>15. Chopping(N, V, m0, T, q, i, m2)
    BY <2>5, <2>6, <2>8, <2>9, <2>10, <2>12, <2>13, <2>14 DEF Chopping
  <2> QED
    BY <1>4, <1>6, <2>15
<1> QED
  BY <1>5, <1>6

\* sp_null takes all blocks of the tree out.
Nulled(N, V, m, m2, T, q) ==
    /\ Whole(N, V, m2, With(T, q, {}))
    /\ \A x \in (1..N) \ T[q] : m2.key[x] = m.key[x] /\ m2.data[x] = m.data[x]

\* The members of a memory.
LEMMA Members ==
  ASSUME NEW N, NEW V, NEW m \in Memory(N, V)
  PROVE  m = [kid |-> m.kid, u |-> m.u, key |-> m.key, data |-> m.data, root |-> m.root,
              eltscnt |-> m.eltscnt, free |-> m.free]
  BY DEF Memory

\* What is left when the loop is done.
LEMMA ChoppingEnds ==
  ASSUME NEW N, NEW V, NEW m, NEW T, Whole(N, V, m, T), NEW q \in AllTrees,
         NEW s, Chopping(N, V, m, T, q, N, s)
  PROVE  Nulled(N, V, m, [s EXCEPT !.eltscnt[q] = 0], T, q)
<1> DEFINE m2 == [s EXCEPT !.eltscnt[q] = 0]
<1>1. N \in Nat /\ 0 \in V /\ T \in [AllTrees -> SUBSET (1..N)] /\ T[q] \in SUBSET (1..N)
  BY DEF Whole
<1>2. /\ s \in Memory(N, V) /\ s.eltscnt = m.eltscnt
      /\ \A t \in AllTrees \ {q} : s.root[t] = m.root[t]
      /\ \A x \in (1..N) \ T[q] : s.u[x] = m.u[x] /\ s.key[x] = m.key[x] /\ s.data[x] = m.data[x]
      /\ \A x \in (1..N) \ T[q], d \in Sides : s.kid[d][x] = m.kid[d][x]
  BY DEF Chopping
<1>3. PICK S \in SUBSET T[q] : /\ Holds(s, q, S) /\ Cardinality(S) <= N - N
                               /\ FreeList(s, Free(N, With(T, q, S)))
  BY DEF Chopping
<1>4. S = {}
  <2>1. S \in SUBSET (1..N)
    BY <1>1
  <2>2. IsFiniteSet(S) /\ Cardinality(S) \in Nat
    BY <1>1, <2>1, AtMost
  <2>3. Cardinality(S) = 0
    BY <1>1, <1>3, <2>2
  <2> QED
    BY <2>2, <2>3, FS_EmptySet
<1> DEFINE c == [s.eltscnt EXCEPT ![q] = 0]
<1>a. m2 = [kid |-> s.kid, u |-> s.u, key |-> s.key, data |-> s.data, root |-> s.root,
            eltscnt |-> c, free |-> s.free]
  <2>1. s = [kid |-> s.kid, u |-> s.u, key |-> s.key, data |-> s.data, root |-> s.root,
             eltscnt |-> s.eltscnt, free |-> s.free]
    BY <1>2, Members
  <2> QED
    BY <2>1
<1>b. c \in [AllTrees -> Int] /\ c[q] = 0 /\ \A t \in AllTrees \ {q} : c[t] = s.eltscnt[t]
  <2>1. s.eltscnt \in [AllTrees -> Int]
    BY <1>2 DEF Memory
  <2> QED
    BY <2>1
<1> HIDE DEF m2, c
<1>5. /\ m2 \in Memory(N, V) /\ m2.eltscnt[q] = 0
      /\ \A t \in AllTrees \ {q} : m2.eltscnt[t] = s.eltscnt[t]
  BY <1>2, <1>a, <1>b DEF Memory
<1>6. /\ m2.kid = s.kid /\ m2.u = s.u /\ m2.key = s.key /\ m2.data = s.data
      /\ m2.root = s.root /\ m2.free = s.free
  BY <1>a
<1>7. Holds(m2, q, {})
  BY <1>3, <1>4, <1>6 DEF Holds
<1>8. \A t \in AllTrees \ {q} : \A x \in T[t] : x \in (1..N) \ T[q]
  BY <1>1, Apart
<1>9. FreeList(m2, Free(N, With(T, q, {})))
  BY <1>3, <1>4, <1>6, ListSame
<1>10. Cardinality({}) = 0
  BY FS_EmptySet
<1>11. ASSUME NEW t \in AllTrees \ {q}
       PROVE  /\ m2.root[t] = m.root[t] /\ m2.eltscnt[t] = m.eltscnt[t]
              /\ \A x \in T[t] : m2.u[x] = m.u[x] /\ m2.key[x] = m.key[x]
              /\ \A x \in T[t], d \in Sides : m2.kid[d][x] = m.kid[d][x]
  BY <1>2, <1>5, <1>6, <1>8
<1>12. Changed(N, V, m, m2, T, q, {})
  BY <1>1, <1>5, <1>7, <1>9, <1>10, <1>11 DEF Changed
<1>13. Whole(N, V, m2, With(T, q, {}))
  <2>1. N <= N
    BY <1>1
  <2> QED
    BY <1>1, <1>12, <2>1, WholeNext
<1>14. Nulled(N, V, m, m2, T, q)
  BY <1>2, <1>6, <1>13 DEF Nulled
<1> QED
  BY <1>14 DEF m2

\* sp_null empties the tree.
LEMMA NullWhole ==
  ASSUME NEW N, NEW V, NEW m, NEW T, Whole(N, V, m, T), NEW q \in AllTrees
  PROVE  Nulled(N, V, m, sp_null(m, q), T, q)
<1> DEFINE rd(t) == ChopRound(q, t)
           rounds == CHOOSE f : f = [i \in 0..N |-> IF i = 0 THEN m ELSE rd(f[i - 1])]
           X == Memory(N, V)
           r == [t \in X |-> rd(t)]
           W == [i \in 0..N |-> {t \in X : Chopping(N, V, m, T, q, i, t)}]
           s == rounds[N]
<1>0. N \in Nat /\ m \in Memory(N, V) /\ Holds(m, q, T[q]) /\ T \in [AllTrees -> SUBSET (1..N)]
      /\ FreeList(m, Free(N, T)) /\ T[q] \in SUBSET (1..N)
  BY DEF Whole
<1>1. Len(m.key) = N
  BY <1>0, Length DEF Memory
<1>2. sp_null(m, q) = [s EXCEPT !.eltscnt[q] = 0]
  BY <1>1 DEF sp_null, Loop
<1>3. W \in [0..N -> SUBSET X] /\ \A t \in X : r[t] = rd(t)
  OBVIOUS
<1>4. \A i, t : Chopping(N, V, m, T, q, i, t) => t \in X
  BY DEF Chopping
<1>5. m \in W[0]
  <2>1. Cardinality(T[q]) <= N - 0
    BY <1>0, AtMost
  <2>2. With(T, q, T[q]) = T
    BY <1>0 DEF With
  <2>3. T[q] \in SUBSET T[q]
    OBVIOUS
  <2>4. Chopping(N, V, m, T, q, 0, m)
    BY <1>0, <2>1, <2>2, <2>3 DEF Chopping
  <2>5. 0 \in 0..N
    BY <1>0
  <2> QED
    BY <1>4, <2>4, <2>5
<1> HIDE DEF X, r, rd
<1>6. ASSUME NEW i \in 1..N, NEW t \in W[i - 1]
      PROVE  r[t] \in W[i]
  <2>1. i - 1 \in 0..N /\ i \in 0..N
    BY <1>0
  <2>2. t \in X /\ Chopping(N, V, m, T, q, i - 1, t)
    BY <2>1
  <2>3. Chopping(N, V, m, T, q, i, rd(t))
    BY <2>2, ChoppingRound DEF rd
  <2> QED
    BY <1>3, <1>4, <2>1, <2>2, <2>3
<1>7. \A t \in W[N] : Chopping(N, V, m, T, q, N, t)
  BY <1>0
<1> HIDE DEF W
<1>8. Steps(N, X, W, m, r)
  BY <1>0, <1>3, <1>5, <1>6 DEF Steps
<1>9. PICK f : Run(f, N, X, m, r)
  BY <1>8, Rounds
<1>10. f = [i \in 0..N |-> IF i = 0 THEN m ELSE rd(f[i - 1])]
  BY <1>3, <1>9 DEF Run
<1>11. rounds = [i \in 0..N |-> IF i = 0 THEN m ELSE rd(rounds[i - 1])]
  BY <1>10
<1> HIDE DEF rounds
<1>12. Follows(rounds, N, X, m, r)
  BY <1>0, <1>3, <1>11 DEF Follows
<1>13. rounds[N] \in W[N]
  BY <1>8, <1>12, Rounds
<1>14. Chopping(N, V, m, T, q, N, s)
  BY <1>7, <1>13
<1> HIDE DEF s
<1> QED
  BY <1>2, <1>14, ChoppingEnds

(***************************************************************************)
(* The order of the blocks: sp_fhead, sp_fnext, sp_scan, and cache_free.   *)
(***************************************************************************)

\* y is the first one of the blocks A; if it is NULL, there are none.
First(key, A, y) == \/ y = NULL /\ A = {}
                    \/ y \in A /\ \A z \in A : key[y] <= key[z]

\* The blocks with larger keys.
After(key, S, n) == {z \in S : key[n] < key[z]}

\* What a side says of the keys.
LEMMA OnSides ==
  ASSUME NEW key, NEW x, NEW y
  PROVE  /\ On(key, "l", x, y) <=> key[y] < key[x]
         /\ On(key, "r", x, y) <=> key[x] < key[y]
  BY DEF On

\* The way down to the left keeps the bound on the left.
Ending(m, S, b, n, y) == y \in S /\ b["l"][y] = b["l"][n] /\ m.kid["l"][y] = NULL
\* Leftmost goes to the block that has no other one between it and that bound.
LEMMA LeftmostEnds ==
  ASSUME NEW N \in Nat, NEW V, NEW m \in Memory(N, V),
         NEW S \in SUBSET (1..N), NEW b, NEW root, Tree(m.kid, m.u, m.key, S, b, root), NEW n \in S
  PROVE  Ending(m, S, b, n, Leftmost(m, n))
<1> DEFINE key == m.key
           rd(x) == IF x = NULL \/ m.kid["l"][x] = NULL THEN x ELSE m.kid["l"][x]
           rounds == CHOOSE f : f = [i \in 0..N |-> IF i = 0 THEN n ELSE rd(f[i - 1])]
           X == S
           r == [x \in X |-> rd(x)]
           Size(x) == Cardinality(Below(key, S, b, x))
           W == [i \in 0..N |-> {x \in X : /\ b["l"][x] = b["l"][n]
                                           /\ m.kid["l"][x] = NULL \/ Size(x) <= N - i}]
<1>1. Len(m.key) = N
  BY Length DEF Memory
<1>2. Leftmost(m, n) = rounds[N]
  BY <1>1 DEF Leftmost, Loop
<1>3. Keyed(key, S) /\ Bounded(key, S, b) /\ NULL \notin S
  BY DEF Tree, Keyed
<1>4. \A x \in S : Size(x) \in Nat /\ Size(x) # 0 /\ Size(x) <= N
  <2>1. \A x \in S : Size(x) \in Nat /\ Size(x) # 0 /\ Size(x) <= Cardinality(S)
    BY <1>3, BelowFacts
  <2>2. Cardinality(S) \in Nat /\ Cardinality(S) <= N
    BY AtMost
  <2> HIDE DEF Size
  <2> QED
    BY <2>1, <2>2
<1>5. ASSUME NEW x \in S, m.kid["l"][x] # NULL
      PROVE  rd(x) \in S /\ b["l"][rd(x)] = b["l"][x] /\ Size(rd(x)) < Size(x)
  <2>1. x # NULL /\ rd(x) = m.kid["l"][x]
    BY <1>3, <1>5
  <2>2. KidOf(m.kid, m.u, key, S, b, x, "l")
    BY SidesFacts DEF Tree
  <2>3. m.kid["l"][x] \in S /\ b["l"][m.kid["l"][x]] = b["l"][x]
    BY <1>5, <2>2 DEF KidOf
  <2>4. Size(m.kid["l"][x]) < Size(x)
    BY <1>5, KidBelow, SidesFacts
  <2> QED
    BY <2>1, <2>3, <2>4
<1>6. \A x \in S : m.kid["l"][x] = NULL => rd(x) = x
  OBVIOUS
<1> HIDE DEF Size, rd, X
<1>7. W \in [0..N -> SUBSET X] /\ \A t \in X : r[t] = rd(t)
  OBVIOUS
<1>8. \A i \in 0..N : \A x : x \in W[i] <=> /\ x \in X /\ b["l"][x] = b["l"][n]
                                            /\ m.kid["l"][x] = NULL \/ Size(x) <= N - i
  OBVIOUS
<1>9. n \in W[0]
  <2>1. 0 \in 0..N /\ N - 0 = N
    OBVIOUS
  <2> QED
    BY <1>4, <1>8, <2>1 DEF X
<1> HIDE DEF W, r
<1>10. ASSUME NEW i \in 1..N, NEW t \in W[i - 1] PROVE r[t] \in W[i]
  <2>1. i - 1 \in 0..N /\ i \in 0..N
    OBVIOUS
  <2>2. /\ t \in X /\ b["l"][t] = b["l"][n]
        /\ m.kid["l"][t] = NULL \/ Size(t) <= N - (i - 1)
    BY <1>8, <2>1
  <2>3. CASE m.kid["l"][t] = NULL
    BY <1>6, <1>7, <1>8, <2>1, <2>2, <2>3 DEF X
  <2>4. CASE m.kid["l"][t] # NULL
    <3>1. t \in S /\ Size(t) <= N - (i - 1)
      BY <2>2, <2>4 DEF X
    <3>2. rd(t) \in S /\ b["l"][rd(t)] = b["l"][t] /\ Size(rd(t)) < Size(t)
      BY <1>5, <2>4, <3>1
    <3>3. Size(rd(t)) \in Nat /\ Size(t) \in Nat
      BY <1>4, <3>1, <3>2
    <3>4. Size(rd(t)) <= N - i
      BY <3>1, <3>2, <3>3
    <3> QED
      BY <1>7, <1>8, <2>1, <2>2, <3>2, <3>4 DEF X
  <2> QED
    BY <2>3, <2>4
<1>11. \A x \in W[N] : x \in S /\ b["l"][x] = b["l"][n] /\ m.kid["l"][x] = NULL
  <2> SUFFICES ASSUME NEW x \in W[N]
               PROVE  x \in S /\ b["l"][x] = b["l"][n] /\ m.kid["l"][x] = NULL
    OBVIOUS
  <2>1. N \in 0..N /\ N - N = 0
    OBVIOUS
  <2>2. x \in S /\ b["l"][x] = b["l"][n] /\ (m.kid["l"][x] = NULL \/ Size(x) <= 0)
    BY <1>8, <2>1 DEF X
  <2>3. Size(x) \in Nat \ {0}
    BY <1>4, <2>2
  <2>4. ~ (Size(x) <= 0)
    BY <2>3
  <2> QED
    BY <2>2, <2>4
<1>12. Steps(N, X, W, n, r)
  BY <1>7, <1>9, <1>10 DEF Steps
<1>13. PICK f : Run(f, N, X, n, r)
  BY <1>12, Rounds
<1>14. f = [i \in 0..N |-> IF i = 0 THEN n ELSE rd(f[i - 1])]
  BY <1>7, <1>13 DEF Run
<1>15. rounds = [i \in 0..N |-> IF i = 0 THEN n ELSE rd(rounds[i - 1])]
  BY <1>14
<1> HIDE DEF rounds
<1>16. Follows(rounds, N, X, n, r)
  BY <1>7, <1>15 DEF Follows
<1>17. rounds[N] \in W[N]
  BY <1>12, <1>16, Rounds
<1> QED
  BY <1>2, <1>11, <1>17 DEF Ending

\* The way up ends at the bound on the right.
Bound(m, b, n) == Above(m, n) = b["r"][n]
\* Above goes to the bound on the right.
LEMMA AboveEnds ==
  ASSUME NEW N \in Nat, NEW V, NEW m \in Memory(N, V),
         NEW S \in SUBSET (1..N), NEW b, NEW root, Tree(m.kid, m.u, m.key, S, b, root), NEW n \in S
  PROVE  Bound(m, b, n)
<1> DEFINE key == m.key
           Ends(x) == m.u[x] = NULL \/ m.kid["l"][m.u[x]] = x
           rd(x) == IF m.u[x] = NULL \/ m.kid["l"][m.u[x]] = x THEN x ELSE m.u[x]
           rounds == CHOOSE f : f = [i \in 0..N |-> IF i = 0 THEN n ELSE rd(f[i - 1])]
           X == S
           r == [x \in X |-> rd(x)]
           Size(x) == Cardinality(Below(key, S, b, x))
           W == [i \in 0..N |-> {x \in X : b["r"][x] = b["r"][n] /\ (Ends(x) \/ i < Size(x))}]
<1>1. Len(m.key) = N
  BY Length DEF Memory
<1>2. Above(m, n) = m.u[rounds[N]]
  BY <1>1 DEF Above, Loop
<1>3. Keyed(key, S) /\ Bounded(key, S, b) /\ NULL \notin S
  BY DEF Tree, Keyed
<1>4. \A x \in S : Size(x) \in Nat /\ Size(x) # 0 /\ Size(x) <= N
  <2>1. \A x \in S : Size(x) \in Nat /\ Size(x) # 0 /\ Size(x) <= Cardinality(S)
    BY <1>3, BelowFacts
  <2>2. Cardinality(S) \in Nat /\ Cardinality(S) <= N
    BY AtMost
  <2> HIDE DEF Size
  <2> QED
    BY <2>1, <2>2
<1>5. ASSUME NEW x \in S, ~ Ends(x)
      PROVE  rd(x) \in S /\ b["r"][rd(x)] = b["r"][x] /\ Size(x) < Size(rd(x))
  <2>1. rd(x) = m.u[x] /\ m.u[x] # NULL
    BY <1>5
  <2>2. m.u[x] \in S /\ \E d \in Sides : m.kid[d][m.u[x]] = x
    BY <2>1, Parents
  <2>3. m.kid["r"][m.u[x]] = x
    BY <1>5, <2>2 DEF Sides
  <2>4. KidOf(m.kid, m.u, key, S, b, m.u[x], "r")
    BY <2>2, SidesFacts DEF Tree
  <2>5. b["r"][x] = b["r"][m.u[x]]
    BY <1>3, <2>3, <2>4 DEF KidOf
  <2>6. m.kid["r"][m.u[x]] # NULL
    BY <1>3, <2>3
  <2>7. Size(m.kid["r"][m.u[x]]) < Size(m.u[x])
    BY <2>2, <2>6, KidBelow, SidesFacts
  <2> QED
    BY <2>1, <2>2, <2>3, <2>5, <2>7
<1>6. \A x \in S : Ends(x) => rd(x) = x
  OBVIOUS
<1>7. ASSUME NEW x \in S, Ends(x) PROVE m.u[x] = b["r"][x]
  <2>1. CASE m.u[x] = NULL
    <3>1. x = root
      BY <1>3, <2>1, Parents
    <3>2. b["r"][root] = NULL
      BY <3>1, SidesFacts DEF Tree
    <3> QED
      BY <2>1, <3>1, <3>2
  <2>2. CASE m.u[x] # NULL
    <3>1. m.kid["l"][m.u[x]] = x /\ m.u[x] \in S
      BY <1>7, <2>2, Parents
    <3>2. KidOf(m.kid, m.u, key, S, b, m.u[x], "l")
      BY <3>1, SidesFacts DEF Tree
    <3>3. x # NULL
      BY <1>3
    <3> QED
      BY <3>1, <3>2, <3>3, SidesFacts DEF KidOf
  <2> QED
    BY <2>1, <2>2
<1> HIDE DEF Size, rd, X, Ends
<1>8. W \in [0..N -> SUBSET X] /\ \A t \in X : r[t] = rd(t)
  OBVIOUS
<1>9. \A i \in 0..N : \A x : x \in W[i] <=> /\ x \in X /\ b["r"][x] = b["r"][n]
                                            /\ Ends(x) \/ i < Size(x)
  OBVIOUS
<1>10. n \in W[0]
  <2>1. 0 \in 0..N
    OBVIOUS
  <2>2. 0 < Size(n)
    BY <1>4
  <2> QED
    BY <1>9, <2>1, <2>2 DEF X
<1> HIDE DEF W, r
<1>11. ASSUME NEW i \in 1..N, NEW t \in W[i - 1] PROVE r[t] \in W[i]
  <2>1. i - 1 \in 0..N /\ i \in 0..N
    OBVIOUS
  <2>2. t \in X /\ b["r"][t] = b["r"][n] /\ (Ends(t) \/ i - 1 < Size(t))
    BY <1>9, <2>1
  <2>3. CASE Ends(t)
    BY <1>6, <1>8, <1>9, <2>1, <2>2, <2>3 DEF X
  <2>4. CASE ~ Ends(t)
    <3>1. t \in S /\ i - 1 < Size(t)
      BY <2>2, <2>4 DEF X
    <3>2. rd(t) \in S /\ b["r"][rd(t)] = b["r"][t] /\ Size(t) < Size(rd(t))
      BY <1>5, <2>4, <3>1
    <3>3. Size(rd(t)) \in Nat /\ Size(t) \in Nat
      BY <1>4, <3>1, <3>2
    <3>4. i < Size(rd(t))
      BY <3>1, <3>2, <3>3
    <3> QED
      BY <1>8, <1>9, <2>1, <2>2, <3>2, <3>4 DEF X
  <2> QED
    BY <2>3, <2>4
<1>12. \A x \in W[N] : x \in S /\ b["r"][x] = b["r"][n] /\ Ends(x)
  <2> SUFFICES ASSUME NEW x \in W[N] PROVE x \in S /\ b["r"][x] = b["r"][n] /\ Ends(x)
    OBVIOUS
  <2>1. N \in 0..N
    OBVIOUS
  <2>2. x \in S /\ b["r"][x] = b["r"][n] /\ (Ends(x) \/ N < Size(x))
    BY <1>9, <2>1 DEF X
  <2>3. Size(x) \in Nat /\ Size(x) <= N
    BY <1>4, <2>2
  <2>4. ~ (N < Size(x))
    BY <2>3
  <2> QED
    BY <2>2, <2>4
<1>13. Steps(N, X, W, n, r)
  BY <1>8, <1>10, <1>11 DEF Steps
<1>14. PICK f : Run(f, N, X, n, r)
  BY <1>13, Rounds
<1>15. f = [i \in 0..N |-> IF i = 0 THEN n ELSE rd(f[i - 1])]
  BY <1>8, <1>14 DEF Run
<1>16. rounds = [i \in 0..N |-> IF i = 0 THEN n ELSE rd(rounds[i - 1])]
  BY <1>15
<1> HIDE DEF rounds
<1>17. Follows(rounds, N, X, n, r)
  BY <1>8, <1>16 DEF Follows
<1>18. rounds[N] \in W[N]
  BY <1>13, <1>17, Rounds
<1> QED
  BY <1>2, <1>7, <1>12, <1>18 DEF Bound

\* sp_fhead and sp_fnext go through a tree in the order of the keys.
LEMMA HeadFirst ==
  ASSUME NEW N \in Nat, NEW V, NEW m \in Memory(N, V), NEW q \in AllTrees,
         NEW S \in SUBSET (1..N), Holds(m, q, S)
  PROVE  First(m.key, S, sp_fhead(m, q))
<1> DEFINE key == m.key
           y == sp_fhead(m, q)
<1>1. PICK b : Tree(m.kid, m.u, key, S, b, m.root[q])
  BY DEF Holds
<1>2. \/ S = {} /\ m.root[q] = NULL
      \/ m.root[q] \in S /\ b["l"][m.root[q]] = NULL
  BY <1>1, SidesFacts DEF Tree
<1>3. CASE S = {} /\ m.root[q] = NULL
  <2> DEFINE rd(x) == IF x = NULL \/ m.kid["l"][x] = NULL THEN x ELSE m.kid["l"][x]
             rounds == CHOOSE f : f = [i \in 0..N |-> IF i = 0 THEN NULL ELSE rd(f[i - 1])]
             X == {NULL}
             W == [i \in 0..N |-> X]
             r == [x \in X |-> NULL]
  <2>1. Len(m.key) = N
    BY Length DEF Memory
  <2>2. y = rounds[N]
    BY <1>3, <2>1 DEF sp_fhead, Leftmost, Loop
  <2>3. Steps(N, X, W, NULL, r)
    BY DEF Steps
  <2>4. PICK f : Run(f, N, X, NULL, r)
    BY <2>3, Rounds
  <2>5. f = [i \in 0..N |-> IF i = 0 THEN NULL ELSE rd(f[i - 1])]
    BY <2>4 DEF Run
  <2>6. rounds = [i \in 0..N |-> IF i = 0 THEN NULL ELSE rd(rounds[i - 1])]
    BY <2>5
  <2> HIDE DEF rounds
  <2>7. Follows(rounds, N, X, NULL, r)
    BY <2>6 DEF Follows
  <2>8. rounds[N] \in W[N]
    BY <2>3, <2>7, Rounds
  <2>9. N \in 0..N
    OBVIOUS
  <2> QED
    BY <1>3, <2>2, <2>8, <2>9 DEF First
<1>4. CASE m.root[q] \in S /\ b["l"][m.root[q]] = NULL
  <2>0. Ending(m, S, b, m.root[q], Leftmost(m, m.root[q]))
    BY <1>1, <1>4, LeftmostEnds
  <2>1. y \in S /\ b["l"][y] = NULL /\ m.kid["l"][y] = NULL
    BY <1>4, <2>0 DEF sp_fhead, Ending
  <2> HIDE DEF y
  <2>2. KidOf(m.kid, m.u, key, S, b, y, "l") /\ NULL \notin S /\ \A z \in S : key[z] \in Int
    BY <1>1, <2>1, SidesFacts DEF Tree, Keyed
  <2>3. \A z \in S : ~ On(key, "l", y, z)
    BY <2>1, <2>2 DEF KidOf
  <2>4. \A z \in S : key[y] <= key[z]
    BY <2>1, <2>2, <2>3, OnSides
  <2> QED
    BY <2>1, <2>4 DEF First, y
<1> QED
  BY <1>2, <1>3, <1>4

\* sp_fnext goes to the block with the next key.
LEMMA NextFirst ==
  ASSUME NEW N \in Nat, NEW V, NEW m \in Memory(N, V), NEW q \in AllTrees,
         NEW S \in SUBSET (1..N), Holds(m, q, S), NEW n \in S
  PROVE  First(m.key, After(m.key, S, n), sp_fnext(m, n))
<1> DEFINE key == m.key
           y == sp_fnext(m, n)
<1>1. PICK b : Tree(m.kid, m.u, key, S, b, m.root[q])
  BY DEF Holds
<1>2. NULL \notin S /\ (\A z \in S : key[z] \in Int) /\ Bounded(key, S, b)
  BY <1>1 DEF Tree, Keyed
<1>3. CASE m.kid["r"][n] # NULL
  <2> DEFINE c == m.kid["r"][n]
  <2>1. KidOf(m.kid, m.u, key, S, b, n, "r")
    BY <1>1, SidesFacts DEF Tree
  <2>2. c \in S /\ b["l"][c] = n
    BY <1>3, <2>1, SidesFacts DEF KidOf
  <2>3. y = Leftmost(m, c)
    BY <1>3 DEF sp_fnext
  <2> HIDE DEF c, y
  <2>0. Ending(m, S, b, c, Leftmost(m, c))
    BY <1>1, <2>2, LeftmostEnds
  <2>4. y \in S /\ b["l"][y] = n /\ m.kid["l"][y] = NULL
    BY <2>2, <2>3, <2>0 DEF Ending
  <2>5. KidOf(m.kid, m.u, key, S, b, y, "l") /\ n # NULL
    BY <1>1, <1>2, <2>4, SidesFacts DEF Tree
  <2>6. On(key, "l", y, n)
    BY <1>2, <2>4, <2>5, SidesFacts DEF Bounded
  <2>7. \A z \in S : On(key, "l", y, z) => ~ On(key, "l", z, n)
    BY <1>2, <2>4, <2>5 DEF KidOf
  <2>8. key[n] < key[y] /\ \A z \in S : key[n] < key[z] => key[y] <= key[z]
    BY <1>2, <2>4, <2>6, <2>7, OnSides
  <2> QED
    BY <2>4, <2>8 DEF First, After, y
<1>4. CASE m.kid["r"][n] = NULL
  <2>0. Bound(m, b, n)
    BY <1>1, AboveEnds
  <2>1. y = b["r"][n]
    BY <1>4, <2>0 DEF sp_fnext, Bound
  <2> HIDE DEF y
  <2>2. KidOf(m.kid, m.u, key, S, b, n, "r")
    BY <1>1, SidesFacts DEF Tree
  <2>3. \A z \in S : On(key, "r", n, z) => y # NULL /\ ~ On(key, "r", z, y)
    BY <1>2, <1>4, <2>1, <2>2 DEF KidOf
  <2>4. y # NULL => y \in S /\ On(key, "r", n, y)
    BY <1>2, <2>1, SidesFacts DEF Bounded
  <2>5. \A z \in S : key[n] < key[z] => y # NULL
    BY <2>3 DEF On
  <2>6. y # NULL => y \in S /\ key[n] < key[y] /\ \A z \in S : key[n] < key[z] => key[y] <= key[z]
    <3> SUFFICES ASSUME y # NULL
                 PROVE  y \in S /\ key[n] < key[y] /\ \A z \in S : key[n] < key[z] => key[y] <= key[z]
      OBVIOUS
    <3>1. y \in S /\ key[n] < key[y]
      BY <2>4, OnSides
    <3>2. \A z \in S : key[n] < key[z] => ~ On(key, "r", z, y)
      BY <2>3, OnSides
    <3>3. \A z \in S : key[n] < key[z] => ~ (key[z] < key[y])
      BY <3>2, OnSides
    <3>4. key[y] \in Int /\ \A z \in S : key[z] \in Int
      BY <1>2, <3>1
    <3> HIDE DEF key
    <3> QED
      BY <3>1, <3>3, <3>4
  <2> QED
    BY <2>5, <2>6 DEF First, After, y
<1> QED
  BY <1>3, <1>4

\* sp_scan goes through all blocks of the tree, through each of them once.
Scanned(S, s) == /\ s \in Seq(S) /\ \A x \in S : \E i \in 1..Len(s) : s[i] = x
                 /\ \A i, j \in 1..Len(s) : s[i] = s[j] => i = j

\* The blocks that are still to come.
ToScan(S, s) == S \ {s[j] : j \in 1..Len(s)}

\* sp_scan's loop after i rounds.
Scanning(N, key, S, i, s) ==
    /\ s \in Seq(S)
    /\ \A j, k \in 1..Len(s) : j < k => key[s[j]] < key[s[k]]
    /\ \A z \in ToScan(S, s), j \in 1..Len(s) : key[s[j]] < key[z]
    /\ Cardinality(ToScan(S, s)) <= N - i

\* The block that comes after those scanned.
ScanNext(m, q, s) == IF s = <<>> THEN sp_fhead(m, q) ELSE sp_fnext(m, s[Len(s)])

\* A round of it.
ScanRound(m, q, s) == IF ScanNext(m, q, s) = NULL THEN s ELSE Append(s, ScanNext(m, q, s))

\* The next block is the first of those to scan.
LEMMA ScanningFirst ==
  ASSUME NEW N \in Nat, NEW V, NEW m \in Memory(N, V), NEW q \in AllTrees,
         NEW S \in SUBSET (1..N), Holds(m, q, S), NEW i, NEW s, Scanning(N, m.key, S, i, s)
  PROVE  First(m.key, ToScan(S, s), ScanNext(m, q, s))
<1> DEFINE key == m.key
<1>1. s \in Seq(S) /\ Len(s) \in Nat
  BY DEF Scanning
<1>2. \A z \in S : key[z] \in Int
  BY DEF Holds, Tree, Keyed
<1>3. CASE s = <<>>
  <2>1. Len(s) = 0
    BY <1>3
  <2>2. ToScan(S, s) = S
    BY <2>1 DEF ToScan
  <2>3. ScanNext(m, q, s) = sp_fhead(m, q)
    BY <1>3 DEF ScanNext
  <2> QED
    BY <2>2, <2>3, HeadFirst
<1>4. CASE s # <<>>
  <2> DEFINE n == s[Len(s)]
  <2>1. Len(s) \in 1..Len(s) /\ n \in S
    BY <1>1, <1>4
  <2>2. ToScan(S, s) = After(key, S, n)
    <3>1. \A z \in ToScan(S, s) : z \in After(key, S, n)
      BY <2>1 DEF Scanning, ToScan, After
    <3>2. ASSUME NEW z \in After(key, S, n), NEW j \in 1..Len(s), z = s[j]
          PROVE  FALSE
      <4>1. z \in S /\ key[n] < key[z] /\ key[n] \in Int /\ key[z] \in Int
        BY <1>2, <2>1 DEF After
      <4>2. CASE j = Len(s)
        BY <3>2, <4>1, <4>2
      <4>3. CASE j # Len(s)
        <5>1. j < Len(s)
          BY <1>1, <4>3
        <5>2. key[s[j]] < key[s[Len(s)]]
          BY <2>1, <5>1 DEF Scanning
        <5> HIDE DEF key
        <5> QED
          BY <3>2, <4>1, <5>2
      <4> QED
        BY <4>2, <4>3
    <3> HIDE DEF n
    <3>3. \A z \in After(key, S, n) : z \in S /\ z \notin {s[j] : j \in 1..Len(s)}
      BY <3>2 DEF After
    <3> QED
      BY <3>1, <3>3 DEF ToScan
  <2>3. ScanNext(m, q, s) = sp_fnext(m, n)
    BY <1>4 DEF ScanNext
  <2> HIDE DEF n
  <2>4. First(key, After(key, S, n), sp_fnext(m, n))
    BY <2>1, NextFirst
  <2> QED
    BY <2>2, <2>3, <2>4
<1> QED
  BY <1>3, <1>4

\* Each round scans one more.
LEMMA ScanningRound ==
  ASSUME NEW N \in Nat, NEW V, NEW m \in Memory(N, V), NEW q \in AllTrees,
         NEW S \in SUBSET (1..N), Holds(m, q, S), NEW i \in 1..N,
         NEW s, Scanning(N, m.key, S, i - 1, s)
  PROVE  Scanning(N, m.key, S, i, ScanRound(m, q, s))
<1> DEFINE key == m.key
           x == ScanNext(m, q, s)
           R == ToScan(S, s)
<1>1. s \in Seq(S) /\ Len(s) \in Nat /\ Cardinality(R) <= N - (i - 1)
  BY DEF Scanning
<1>2. R \in SUBSET S /\ R \in SUBSET (1..N)
  BY DEF ToScan
<1>3. IsFiniteSet(R) /\ Cardinality(R) \in Nat
  BY <1>2, AtMost
<1>4. Keyed(key, S) /\ NULL \notin S
  BY DEF Holds, Tree, Keyed
<1>5. First(key, R, x)
  BY ScanningFirst
<1>6. ScanRound(m, q, s) = IF x = NULL THEN s ELSE Append(s, x)
  BY DEF ScanRound
<1> HIDE DEF x, R
<1>7. CASE x = NULL
  <2>1. R = {}
    BY <1>2, <1>4, <1>5, <1>7 DEF First
  <2>2. Cardinality(R) = 0
    BY <2>1, FS_EmptySet
  <2>3. Cardinality(R) <= N - i
    BY <2>2
  <2> QED
    BY <1>6, <1>7, <2>3 DEF Scanning, R
<1>8. CASE x # NULL
  <2> DEFINE s2 == Append(s, x)
             A == R \ {x}
  <2>1. x \in R /\ x \in S /\ \A z \in R : key[x] <= key[z]
    BY <1>2, <1>5, <1>8 DEF First
  <2>2. /\ s2 \in Seq(S) /\ Len(s2) = Len(s) + 1 /\ s2[Len(s) + 1] = x
        /\ \A j \in 1..Len(s) : s2[j] = s[j]
    BY <1>1, <2>1
  <2> HIDE DEF s2, A
  <2>3. 1..Len(s2) = (1..Len(s)) \cup {Len(s) + 1}
    BY <1>1, <2>2
  <2>4. ToScan(S, s2) = A
    <3>1. {s2[j] : j \in 1..Len(s2)} = {s[j] : j \in 1..Len(s)} \cup {x}
      <4>1. \A j \in 1..Len(s2) : j \in 1..Len(s) \/ j = Len(s) + 1
        BY <2>3
      <4>2. Len(s) + 1 \in 1..Len(s2) /\ \A j \in 1..Len(s) : j \in 1..Len(s2)
        BY <2>3
      <4> QED
        BY <2>2, <4>1, <4>2
    <3> QED
      BY <3>1 DEF ToScan, A, R
  <2>5. \A z \in A : z \in R /\ z # x
    BY DEF A
  <2>6. \A z \in S : key[z] \in Int
    BY <1>4 DEF Keyed
  <2>7. \A z \in A : key[x] < key[z]
    <3> SUFFICES ASSUME NEW z \in A PROVE key[x] < key[z]
      OBVIOUS
    <3>1. z \in S /\ key[x] <= key[z] /\ key[x] # key[z]
      BY <1>2, <1>4, <2>1, <2>5 DEF Keyed
    <3>2. key[z] \in Int /\ key[x] \in Int
      BY <2>1, <2>6, <3>1
    <3> HIDE DEF key
    <3> QED
      BY <3>1, <3>2
  <2>8. \A z \in R, j \in 1..Len(s) : key[s[j]] < key[z]
    BY DEF Scanning, R
  <2>9. ASSUME NEW j \in 1..Len(s2), NEW k \in 1..Len(s2), j < k
        PROVE  key[s2[j]] < key[s2[k]]
    <3>1. j \in 1..Len(s)
      BY <1>1, <2>2, <2>9
    <3>2. CASE k \in 1..Len(s)
      <4>1. key[s[j]] < key[s[k]]
        BY <2>9, <3>1, <3>2 DEF Scanning
      <4> QED
        BY <2>2, <3>1, <3>2, <4>1
    <3>3. CASE k = Len(s) + 1
      BY <2>1, <2>2, <2>8, <3>1, <3>3
    <3> QED
      BY <2>3, <3>2, <3>3
  <2>10. ASSUME NEW z \in A, NEW j \in 1..Len(s2)
         PROVE  key[s2[j]] < key[z]
    <3>1. CASE j \in 1..Len(s)
      BY <2>2, <2>5, <2>8, <3>1
    <3>2. CASE j = Len(s) + 1
      BY <2>2, <2>7, <3>2
    <3> QED
      BY <2>3, <3>1, <3>2
  <2>11. Cardinality(A) <= N - i
    <3>1. Cardinality(A) = Cardinality(R) - 1
      BY <1>3, <2>1, FS_RemoveElement DEF A
    <3> QED
      BY <1>1, <1>3, <3>1
  <2>12. Scanning(N, key, S, i, s2)
    BY <2>2, <2>4, <2>9, <2>10, <2>11 DEF Scanning
  <2> QED
    BY <1>6, <1>8, <2>12 DEF s2
<1> QED
  BY <1>7, <1>8

\* sp_scan goes through all blocks of a tree, and once.
LEMMA ScanGoes ==
  ASSUME NEW N \in Nat, NEW V, NEW m \in Memory(N, V), NEW q \in AllTrees,
         NEW S \in SUBSET (1..N), Holds(m, q, S)
  PROVE  Scanned(S, sp_scan(m, q))
<1> DEFINE key == m.key
           rd(t) == ScanRound(m, q, t)
           rounds == CHOOSE f : f = [i \in 0..N |-> IF i = 0 THEN <<>> ELSE rd(f[i - 1])]
           X == Seq(S)
           r == [t \in X |-> rd(t)]
           W == [i \in 0..N |-> {t \in X : Scanning(N, key, S, i, t)}]
           s == rounds[N]
<1>1. Len(m.key) = N
  BY Length DEF Memory
<1>2. sp_scan(m, q) = s
  BY <1>1 DEF sp_scan, Loop, ScanRound, ScanNext
<1>3. W \in [0..N -> SUBSET X] /\ \A t \in X : r[t] = rd(t)
  OBVIOUS
<1>4. \A i, t : Scanning(N, key, S, i, t) => t \in X
  BY DEF Scanning
<1>5. \A i \in 0..N : \A t : t \in W[i] <=> Scanning(N, key, S, i, t)
  BY <1>4
<1> HIDE DEF X, r, rd, W
<1>6. <<>> \in W[0]
  <2>1. Len(<<>>) = 0 /\ <<>> \in Seq(S) /\ 0 \in 0..N
    OBVIOUS
  <2>2. ToScan(S, <<>>) = S
    BY DEF ToScan
  <2>3. Cardinality(S) <= N - 0
    BY AtMost
  <2>4. Scanning(N, key, S, 0, <<>>)
    BY <2>1, <2>2, <2>3 DEF Scanning
  <2> QED
    BY <1>5, <2>1, <2>4
<1>7. ASSUME NEW i \in 1..N, NEW t \in W[i - 1] PROVE r[t] \in W[i]
  <2>1. i - 1 \in 0..N /\ i \in 0..N
    OBVIOUS
  <2>2. Scanning(N, key, S, i - 1, t)
    BY <1>5, <2>1
  <2>3. Scanning(N, key, S, i, rd(t))
    BY <2>2, ScanningRound DEF rd
  <2> QED
    BY <1>3, <1>4, <1>5, <2>1, <2>2, <2>3
<1>8. Steps(N, X, W, <<>>, r)
  BY <1>3, <1>6, <1>7 DEF Steps
<1>9. PICK f : Run(f, N, X, <<>>, r)
  BY <1>8, Rounds
<1>10. f = [i \in 0..N |-> IF i = 0 THEN <<>> ELSE rd(f[i - 1])]
  BY <1>3, <1>9 DEF Run
<1>11. rounds = [i \in 0..N |-> IF i = 0 THEN <<>> ELSE rd(rounds[i - 1])]
  BY <1>10
<1> HIDE DEF rounds
<1>12. Follows(rounds, N, X, <<>>, r)
  BY <1>3, <1>11 DEF Follows
<1>13. rounds[N] \in W[N]
  BY <1>8, <1>12, Rounds
<1>14. Scanning(N, key, S, N, s)
  BY <1>5, <1>13
<1> HIDE DEF s
<1>15. ToScan(S, s) = {}
  <2>1. ToScan(S, s) \in SUBSET (1..N) /\ Cardinality(ToScan(S, s)) <= N - N
    BY <1>14 DEF ToScan, Scanning
  <2>2. IsFiniteSet(ToScan(S, s)) /\ Cardinality(ToScan(S, s)) \in Nat
    BY <2>1, AtMost
  <2>3. Cardinality(ToScan(S, s)) = 0
    BY <2>1, <2>2
  <2> QED
    BY <2>2, <2>3, FS_EmptySet
<1>16. \A x \in S : \E i \in 1..Len(s) : s[i] = x
  BY <1>15 DEF ToScan
<1>17. s \in Seq(S) /\ Len(s) \in Nat /\ \A z \in S : key[z] \in Int
  BY <1>14 DEF Scanning, Holds, Tree, Keyed
<1>18. ASSUME NEW i \in 1..Len(s), NEW j \in 1..Len(s), s[i] = s[j], i # j PROVE FALSE
  <2>1. i < j \/ j < i
    BY <1>17, <1>18
  <2>2. key[s[i]] < key[s[j]] \/ key[s[j]] < key[s[i]]
    BY <1>14, <2>1 DEF Scanning
  <2>3. s[i] \in S /\ key[s[i]] \in Int
    <3>1. s[i] \in S
      BY <1>17
    <3> QED
      BY <1>17, <3>1
  <2> HIDE DEF key
  <2> QED
    BY <1>18, <2>2, <2>3
<1>19. Scanned(S, s)
  BY <1>16, <1>17, <1>18 DEF Scanned
<1> QED
  BY <1>2, <1>19

\* cache_free's loop: the blocks S are still there, x is the first of them.
Freeing(N, V, m0, T, q, i, s) ==
    \E S \in SUBSET T[q] :
       /\ Whole(N, V, s.m, With(T, q, S)) /\ First(s.m.key, S, s.x)
       /\ \A t \in AllTrees \ {q} : \A z \in T[t] : /\ s.m.key[z] = m0.key[z]
                                                    /\ s.m.data[z] = m0.data[z]
       /\ s.freed \in Nat /\ s.freed + Cardinality(S) = Cardinality(T[q])
       /\ Cardinality(S) <= N - i

\* A tree is replaced.
LEMMA WithFacts ==
  ASSUME NEW N, NEW T, T \in [AllTrees -> SUBSET (1..N)], NEW q \in AllTrees, NEW S
  PROVE  /\ With(T, q, S)[q] = S /\ \A t \in AllTrees \ {q} : With(T, q, S)[t] = T[t]
         /\ \A S2 : With(With(T, q, S), q, S2) = With(T, q, S2)
         /\ With(T, q, T[q]) = T
         /\ S \in SUBSET (1..N) => With(T, q, S) \in [AllTrees -> SUBSET (1..N)]
  BY DEF With

\* What cache_free's round does.
Freed(s, q) == [m |-> sp_delete(s.m, q, s.x), x |-> sp_fnext(s.m, s.x), freed |-> s.freed + 1]

\* Each round of cache_free takes the first block out and goes on with the next.
LEMMA FreeingRound ==
  ASSUME NEW N, NEW V, NEW m0, NEW T, Whole(N, V, m0, T), NEW q \in AllTrees,
         NEW i \in 1..N, NEW s, Freeing(N, V, m0, T, q, i - 1, s)
  PROVE  Freeing(N, V, m0, T, q, i, FreeRound(q, s))
<1>1. N \in Nat /\ T \in [AllTrees -> SUBSET (1..N)] /\ T[q] \in SUBSET (1..N)
  BY DEF Whole
<1>2. PICK S \in SUBSET T[q] :
        /\ Whole(N, V, s.m, With(T, q, S)) /\ First(s.m.key, S, s.x)
        /\ \A t \in AllTrees \ {q} : \A z \in T[t] : /\ s.m.key[z] = m0.key[z]
                                                     /\ s.m.data[z] = m0.data[z]
        /\ s.freed \in Nat /\ s.freed + Cardinality(S) = Cardinality(T[q])
        /\ Cardinality(S) <= N - (i - 1)
  BY DEF Freeing
<1>3. S \in SUBSET (1..N) /\ NULL \notin S /\ IsFiniteSet(S) /\ Cardinality(S) \in Nat
  <2>1. S \in SUBSET (1..N)
    BY <1>1
  <2> QED
    BY <1>1, <2>1, AtMost DEF NULL
<1> DEFINE T1 == With(T, q, S)
<1>4. T1[q] = S /\ \A t \in AllTrees \ {q} : T1[t] = T[t]
  BY <1>1 DEF With
<1>5. FreeRound(q, s) = IF s.x = NULL THEN s ELSE Freed(s, q)
  BY DEF FreeRound, Freed
<1>6. CASE s.x = NULL
  <2>1. S = {}
    BY <1>2, <1>3, <1>6 DEF First
  <2>2. Cardinality(S) = 0
    BY <2>1, FS_EmptySet
  <2>3. Cardinality(S) <= N - i
    BY <1>1, <2>2
  <2>4. Freeing(N, V, m0, T, q, i, s)
    BY <1>2, <2>3 DEF Freeing
  <2> QED
    BY <1>5, <1>6, <2>4
<1>7. CASE s.x # NULL
  <2> DEFINE s2 == Freed(s, q)
             A == S \ {s.x}
             m == s.m
             x == s.x
  <2>1. x \in S /\ \A z \in S : m.key[x] <= m.key[z]
    BY <1>2, <1>3, <1>7 DEF First
  <2>2. s2.m = sp_delete(m, q, x) /\ s2.x = sp_fnext(m, x) /\ s2.freed = s.freed + 1
    BY DEF Freed
  <2>3. Whole(N, V, m, T1)
    BY <1>2
  <2> HIDE DEF T1, s2, m, x
  <2>4. Deleted(N, V, m, sp_delete(m, q, x), T1, q, x)
    BY <1>4, <2>1, <2>3, DeleteWhole
  <2>5. /\ Whole(N, V, s2.m, With(T1, q, A))
        /\ \A z \in (1..N) \ {x} : s2.m.key[z] = m.key[z] /\ s2.m.data[z] = m.data[z]
    BY <1>4, <2>2, <2>4 DEF Deleted, x
  <2>6. With(T1, q, A) = With(T, q, A)
    BY <1>1 DEF T1, With
  <2>7. Holds(m, q, S) /\ m \in Memory(N, V)
    BY <1>4, <2>3 DEF Whole
  <2>8. First(m.key, After(m.key, S, x), sp_fnext(m, x))
    BY <1>1, <1>3, <2>1, <2>7, NextFirst
  <2>9. After(m.key, S, x) = A
    <3>1. (\A z \in S : m.key[z] \in Int) /\ \A y, z \in S : m.key[y] = m.key[z] => y = z
      BY <2>7 DEF Holds, Tree, Keyed
    <3>2. \A z \in S : m.key[x] < m.key[z] => z # x
      BY <2>1, <3>1
    <3>3. ASSUME NEW z \in S, z # x PROVE m.key[x] < m.key[z]
      <4>1. m.key[x] <= m.key[z] /\ m.key[x] # m.key[z] /\ m.key[x] \in Int /\ m.key[z] \in Int
        BY <2>1, <3>1, <3>3
      <4> QED
        BY <4>1
    <3> QED
      BY <3>2, <3>3 DEF After, x
  <2>10. A \in SUBSET (1..N) /\ A \in SUBSET T[q] /\ \A z \in A : z # x /\ z \in S
    BY <1>3 DEF x
  <2>11. First(s2.m.key, A, s2.x)
    <3>1. \A z \in A : s2.m.key[z] = m.key[z]
      BY <2>5, <2>10
    <3> HIDE DEF A
    <3> QED
      BY <2>2, <2>8, <2>9, <3>1 DEF First
  <2>12. \A t \in AllTrees \ {q} : T[t] \in SUBSET (1..N) /\ x \notin T[t]
    <3>1. \A t \in AllTrees \ {q} : T1[q] \cap T1[t] = {}
      BY <2>3, Apart
    <3> QED
      BY <1>1, <1>4, <2>1, <3>1
  <2>13. \A t \in AllTrees \ {q} : \A z \in T[t] : /\ s2.m.key[z] = m0.key[z]
                                                   /\ s2.m.data[z] = m0.data[z]
    <3> SUFFICES ASSUME NEW t \in AllTrees \ {q}, NEW z \in T[t]
                 PROVE  s2.m.key[z] = m0.key[z] /\ s2.m.data[z] = m0.data[z]
      OBVIOUS
    <3>1. z \in (1..N) \ {x}
      BY <2>12
    <3>2. m.key[z] = m0.key[z] /\ m.data[z] = m0.data[z]
      BY <1>2 DEF m
    <3> QED
      BY <2>5, <3>1, <3>2
  <2>14. Cardinality(A) = Cardinality(S) - 1 /\ Cardinality(S) - 1 \in Nat
    <3>1. Cardinality(A) = Cardinality(S) - 1
      BY <1>3, <2>1, FS_RemoveElement DEF x
    <3>2. Cardinality(A) \in Nat
      BY <1>1, <2>10, AtMost
    <3> QED
      BY <3>1, <3>2
  <2>15. s2.freed \in Nat /\ s2.freed + Cardinality(A) = Cardinality(T[q])
    <3>1. Cardinality(T[q]) \in Nat
      BY <1>1, AtMost
    <3> HIDE DEF A
    <3> QED
      BY <1>2, <1>3, <2>2, <2>14, <3>1
  <2>16. Cardinality(A) <= N - i
    <3> HIDE DEF A
    <3> QED
      BY <1>1, <1>2, <1>3, <2>14
  <2> HIDE DEF A
  <2>17. Freeing(N, V, m0, T, q, i, s2)
    BY <2>5, <2>6, <2>10, <2>11, <2>13, <2>15, <2>16 DEF Freeing
  <2> QED
    BY <1>5, <1>7, <2>17 DEF s2
<1> QED
  BY <1>6, <1>7

\* cache_free takes all blocks out and counts them.
AllFreed(N, V, m, r, T, q) ==
    /\ Whole(N, V, r.m, With(T, q, {})) /\ r.freed = Cardinality(T[q])
    /\ \A t \in AllTrees \ {q} : \A z \in T[t] : r.m.key[z] = m.key[z] /\ r.m.data[z] = m.data[z]

\* The loop of cache_free.
FreeLoop(m, q) == Loop(LAMBDA s : FreeRound(q, s),
                       [m |-> m, x |-> sp_fhead(m, q), freed |-> 0], m)

\* cache_free gives all blocks of a tree to the free list, and counts them.
LEMMA FreeAll ==
  ASSUME NEW N, NEW V, NEW m, NEW T, Whole(N, V, m, T), NEW q \in AllTrees
  PROVE  AllFreed(N, V, m, FreeLoop(m, q), T, q)
<1> DEFINE start == [m |-> m, x |-> sp_fhead(m, q), freed |-> 0]
           rd(t) == FreeRound(q, t)
           rounds == CHOOSE f : f = [i \in 0..N |-> IF i = 0 THEN start ELSE rd(f[i - 1])]
           X == [m : Memory(N, V), x : 0..N, freed : Nat]
           r == [t \in X |-> rd(t)]
           W == [i \in 0..N |-> {t \in X : Freeing(N, V, m, T, q, i, t)}]
           s == rounds[N]
<1>0. /\ N \in Nat /\ m \in Memory(N, V) /\ T \in [AllTrees -> SUBSET (1..N)]
      /\ T[q] \in SUBSET (1..N) /\ Holds(m, q, T[q])
  BY DEF Whole
<1>1. Len(m.key) = N
  BY <1>0, Length DEF Memory
<1>2. FreeLoop(m, q) = s
  BY <1>1 DEF FreeLoop, Loop
<1>3. W \in [0..N -> SUBSET X] /\ \A t \in X : r[t] = rd(t)
  OBVIOUS
<1>4. \A i \in 0..N : \A t : t \in W[i] <=> t \in X /\ Freeing(N, V, m, T, q, i, t)
  OBVIOUS
<1>5. \A x, S : S \in SUBSET (1..N) /\ First(m.key, S, x) => x \in 0..N
  <2>1. 1..N \in SUBSET (0..N) /\ NULL \in 0..N
    BY <1>0 DEF NULL
  <2> QED
    BY <2>1 DEF First
<1>6. start \in W[0]
  <2>1. First(m.key, T[q], sp_fhead(m, q))
    BY <1>0, HeadFirst
  <2>2. With(T, q, T[q]) = T /\ T[q] \in SUBSET T[q]
    BY <1>0, WithFacts
  <2>3. Cardinality(T[q]) \in Nat /\ Cardinality(T[q]) <= N - 0 /\ 0 + Cardinality(T[q]) = Cardinality(T[q])
    BY <1>0, AtMost
  <2>4. start.m = m /\ start.x = sp_fhead(m, q) /\ start.freed = 0
    OBVIOUS
  <2>5. start \in X
    BY <1>0, <1>5, <2>1
  <2> HIDE DEF start
  <2>6. Freeing(N, V, m, T, q, 0, start)
    BY <2>1, <2>2, <2>3, <2>4 DEF Freeing
  <2>7. 0 \in 0..N
    BY <1>0
  <2> QED
    BY <1>4, <2>5, <2>6, <2>7
<1>7. ASSUME NEW t \in X, NEW i, Freeing(N, V, m, T, q, i, rd(t)) PROVE rd(t) \in X
  <2>1. CASE t.x = NULL
    BY <2>1 DEF FreeRound
  <2>2. CASE t.x # NULL
    <3> DEFINE u == rd(t)
    <3>1. u = Freed(t, q)
      BY <2>2 DEF FreeRound, Freed
    <3>2. u = [m |-> u.m, x |-> u.x, freed |-> u.freed]
      BY <3>1 DEF Freed
    <3> HIDE DEF u
    <3>3. PICK S \in SUBSET T[q] : /\ Whole(N, V, u.m, With(T, q, S)) /\ First(u.m.key, S, u.x)
                                   /\ u.freed \in Nat
      BY <1>7 DEF Freeing, u
    <3>4. u.m \in Memory(N, V)
      BY <3>3 DEF Whole
    <3>5. S \in SUBSET (1..N) /\ Holds(u.m, q, S)
      <4>1. With(T, q, S)[q] = S
        BY <1>0 DEF With
      <4> QED
        BY <1>0, <3>3, <4>1 DEF Whole
    <3>6. u.x \in 0..N
      <4>1. 1..N \in SUBSET (0..N) /\ NULL \in 0..N
        BY <1>0 DEF NULL
      <4> QED
        BY <3>3, <3>5, <4>1 DEF First
    <3> QED
      BY <3>2, <3>3, <3>4, <3>6 DEF u
  <2> QED
    BY <2>1, <2>2
<1> HIDE DEF start, X, r, rd, W
<1>8. ASSUME NEW i \in 1..N, NEW t \in W[i - 1] PROVE r[t] \in W[i]
  <2>1. i - 1 \in 0..N /\ i \in 0..N
    BY <1>0
  <2>2. t \in X /\ Freeing(N, V, m, T, q, i - 1, t)
    BY <1>4, <2>1
  <2>3. Freeing(N, V, m, T, q, i, rd(t))
    BY <2>2, FreeingRound DEF rd
  <2>4. rd(t) \in X
    BY <1>7, <2>2, <2>3
  <2> QED
    BY <1>3, <1>4, <2>1, <2>2, <2>3, <2>4
<1>9. Steps(N, X, W, start, r)
  BY <1>0, <1>3, <1>6, <1>8 DEF Steps
<1>10. PICK f : Run(f, N, X, start, r)
  BY <1>9, Rounds
<1>11. f = [i \in 0..N |-> IF i = 0 THEN start ELSE rd(f[i - 1])]
  BY <1>3, <1>10 DEF Run
<1>12. rounds = [i \in 0..N |-> IF i = 0 THEN start ELSE rd(rounds[i - 1])]
  BY <1>11
<1> HIDE DEF rounds
<1>13. Follows(rounds, N, X, start, r)
  BY <1>0, <1>3, <1>12 DEF Follows
<1>14. rounds[N] \in W[N]
  BY <1>9, <1>13, Rounds
<1>15. Freeing(N, V, m, T, q, N, s)
  BY <1>0, <1>4, <1>14
<1> HIDE DEF s
<1>16. PICK S \in SUBSET T[q] :
        /\ Whole(N, V, s.m, With(T, q, S))
        /\ \A t \in AllTrees \ {q} : \A z \in T[t] : /\ s.m.key[z] = m.key[z]
                                                     /\ s.m.data[z] = m.data[z]
        /\ s.freed \in Nat /\ s.freed + Cardinality(S) = Cardinality(T[q])
        /\ Cardinality(S) <= N - N
  BY <1>15 DEF Freeing
<1>17. S = {} /\ Cardinality(S) = 0
  <2>1. S \in SUBSET (1..N)
    BY <1>0
  <2>2. IsFiniteSet(S) /\ Cardinality(S) \in Nat
    BY <1>0, <2>1, AtMost
  <2>3. Cardinality(S) = 0
    BY <1>0, <1>16, <2>2
  <2> QED
    BY <2>2, <2>3, FS_EmptySet
<1>18. s.freed = Cardinality(T[q])
  BY <1>16, <1>17
<1>19. AllFreed(N, V, m, s, T, q)
  BY <1>16, <1>17, <1>18 DEF AllFreed
<1> QED
  BY <1>2, <1>19

(***************************************************************************)
(* The users of the trees.                                                 *)
(***************************************************************************)

\* The block n has the data v.
DataSet(N, V, m, m2, T, n, v) ==
    /\ Whole(N, V, m2, T) /\ m2.key = m.key /\ m2.root = m.root
    /\ \A x \in 1..N : m2.data[x] = IF x = n THEN v ELSE m.data[x]

\* WithData sets the data of the root.
LEMMA DataWhole ==
  ASSUME NEW N, NEW V, NEW m, NEW T, Whole(N, V, m, T), NEW n, n = m.root["spt"], n \in 1..N,
         NEW v
  PROVE  DataSet(N, V \cup {v}, m, WithData(m, v), T, n, v)
<1> DEFINE m2 == WithData(m, v)
           V2 == V \cup {v}
           data == [m.data EXCEPT ![n] = v]
<1>1. /\ N \in Nat /\ 0 \in V2 /\ m \in Memory(N, V) /\ T \in [AllTrees -> SUBSET (1..N)]
      /\ \A q \in AllTrees : Holds(m, q, T[q]) /\ m.eltscnt[q] = Cardinality(T[q])
      /\ T["spt"] \cap T["got"] = {} /\ FreeList(m, Free(N, T))
  BY DEF Whole
<1>2. m2 = [kid |-> m.kid, u |-> m.u, key |-> m.key, data |-> data, root |-> m.root,
            eltscnt |-> m.eltscnt, free |-> m.free]
  <2>1. m = [kid |-> m.kid, u |-> m.u, key |-> m.key, data |-> m.data, root |-> m.root,
             eltscnt |-> m.eltscnt, free |-> m.free]
    BY <1>1, Members
  <2>2. m2 = [m EXCEPT !.data[n] = v]
    BY DEF WithData
  <2> HIDE DEF m2
  <2> QED
    BY <2>1, <2>2
<1>3. data \in [1..N -> V2] /\ \A x \in 1..N : data[x] = IF x = n THEN v ELSE m.data[x]
  <2>1. m.data \in [1..N -> V]
    BY <1>1 DEF Memory
  <2> QED
    BY <2>1
<1> HIDE DEF m2, V2, data
<1>4. m2 \in Memory(N, V2)
  BY <1>1, <1>2, <1>3 DEF Memory
<1>5. /\ m2.kid = m.kid /\ m2.u = m.u /\ m2.key = m.key /\ m2.root = m.root
      /\ m2.eltscnt = m.eltscnt /\ m2.free = m.free /\ m2.data = data
  BY <1>2
<1>6. \A q \in AllTrees : Holds(m2, q, T[q]) /\ m2.eltscnt[q] = Cardinality(T[q])
  BY <1>1, <1>5 DEF Holds
<1>7. FreeList(m2, Free(N, T))
  BY <1>1, <1>5, ListSame
<1>8. Whole(N, V2, m2, T)
  BY <1>1, <1>4, <1>6, <1>7 DEF Whole
<1>9. DataSet(N, V2, m, m2, T, n, v)
  BY <1>3, <1>5, <1>8 DEF DataSet
<1> QED
  BY <1>9 DEF m2, V2

\* v has been put into the tree with the key k; n has it.
PutIn(N, m, N2, V2, m2, T, n, k, v) ==
    /\ N \in Nat /\ N2 \in Nat /\ N <= N2 /\ n \in 1..N2
    /\ Whole(N2, V2, m2, With(T, "spt", T["spt"] \cup {n}))
    /\ m2.key[n] = k /\ m2.data[n] = v
    /\ \A x \in (1..N) \ {n} : m2.key[x] = m.key[x] /\ m2.data[x] = m.data[x]
    /\ n \notin T["got"] /\ T["spt"] \in SUBSET (1..N) /\ T["got"] \in SUBSET (1..N)
    /\ IF Find(m, "spt", k) # NULL THEN n = Find(m, "spt", k) /\ n \in T["spt"]
                                   ELSE n \notin T["spt"]
    /\ n \in T["spt"] => m.key[n] = k

\* sp_install finds or makes the block of a key, and WithData fills it.
LEMMA PutWhole ==
  ASSUME NEW N, NEW V, NEW m, NEW T, Whole(N, V, m, T), NEW k \in Nat, NEW v
  PROVE  \E N2, V2, n : PutIn(N, m, N2, V2, WithData(sp_install(m, "spt", k), v), T, n, k, v)
<1> DEFINE m1 == sp_install(m, "spt", k)
           m2 == WithData(m1, v)
           found == Find(m, "spt", k)
           V2 == V \cup {v}
<1>1. /\ N \in Nat /\ m \in Memory(N, V) /\ T \in [AllTrees -> SUBSET (1..N)]
      /\ Holds(m, "spt", T["spt"]) /\ T["spt"] \cap T["got"] = {}
      /\ T["spt"] \in SUBSET (1..N) /\ T["got"] \in SUBSET (1..N) /\ "spt" \in AllTrees
  BY DEF Whole, AllTrees
<1>2. found = NULL \/ (found \in T["spt"] /\ m.key[found] = k)
  BY <1>1, Finds
<1>3. IF found # NULL THEN LookedUp(N, V, m, m1, T, "spt", found)
      ELSE \E N2, n : Installed(N, V, m, N2, m1, T, "spt", n, k)
  BY <1>1, InstallWhole
<1> HIDE DEF m1, found
<1>4. CASE found # NULL
  <2>1. /\ Whole(N, V, m1, T) /\ m1.key = m.key /\ m1.data = m.data
        /\ found \in T["spt"] /\ m1.root["spt"] = found
    BY <1>3, <1>4 DEF LookedUp
  <2>2. found \in 1..N
    BY <1>1, <2>1
  <2>3. DataSet(N, V2, m1, m2, T, found, v)
    BY <2>1, <2>2, DataWhole
  <2> HIDE DEF m2, V2
  <2>4. With(T, "spt", T["spt"] \cup {found}) = T
    <3>1. T["spt"] \cup {found} = T["spt"]
      BY <2>1
    <3> QED
      BY <1>1, <3>1 DEF With
  <2>5. Whole(N, V2, m2, With(T, "spt", T["spt"] \cup {found}))
    BY <2>3, <2>4 DEF DataSet
  <2>6. \A x \in 1..N : m2.key[x] = m.key[x] /\ m2.data[x] = IF x = found THEN v ELSE m.data[x]
    BY <2>1, <2>3 DEF DataSet
  <2>7. m.key[found] = k /\ N <= N /\ found \notin T["got"]
    BY <1>1, <1>2, <1>4, <2>1
  <2>8. PutIn(N, m, N, V2, m2, T, found, k, v)
    BY <1>1, <1>4, <2>1, <2>2, <2>5, <2>6, <2>7 DEF PutIn, found
  <2> QED
    BY <2>8 DEF m1, m2
<1>5. CASE found = NULL
  <2>1. PICK N2, n : Installed(N, V, m, N2, m1, T, "spt", n, k)
    BY <1>3, <1>5
  <2> DEFINE T2 == With(T, "spt", T["spt"] \cup {n})
  <2>2. /\ N2 \in Nat /\ N <= N2 /\ n \in 1..N2 /\ n \notin T["spt"] /\ n \notin T["got"]
        /\ Whole(N2, V, m1, T2) /\ m1.root["spt"] = n /\ m1.key[n] = k
        /\ \A x \in (1..N) \ {n} : m1.key[x] = m.key[x] /\ m1.data[x] = m.data[x]
    BY <2>1 DEF Installed, Free
  <2>3. DataSet(N2, V2, m1, m2, T2, n, v)
    BY <2>2, DataWhole
  <2> HIDE DEF m2, V2, T2
  <2>4. Whole(N2, V2, m2, T2) /\ m2.key = m1.key
        /\ \A x \in 1..N2 : m2.data[x] = IF x = n THEN v ELSE m1.data[x]
    BY <2>3 DEF DataSet
  <2>5. \A x \in (1..N) \ {n} : m2.key[x] = m.key[x] /\ m2.data[x] = m.data[x]
    <3>1. \A x \in 1..N : x \in 1..N2
      BY <1>1, <2>2
    <3> QED
      BY <2>2, <2>4, <3>1
  <2>6. m2.key[n] = k /\ m2.data[n] = v
    BY <2>2, <2>4
  <2>7. PutIn(N, m, N2, V2, m2, T, n, k, v)
    BY <1>1, <1>5, <2>2, <2>4, <2>5, <2>6 DEF PutIn, found, T2
  <2> QED
    BY <2>7 DEF m1, m2
<1> QED
  BY <1>4, <1>5

\* cache_rotate: the tree is taken away, and an empty one is in its place.
Rotation(m) == sp_init([m EXCEPT !.root["got"] = m.root["spt"], !.eltscnt["got"] = m.eltscnt["spt"]],
                       "spt")

\* The blocks of the tree are in the one that is exported.
InGot(T) == [q \in AllTrees |-> IF q = "got" THEN T["spt"] ELSE {}]

RotatedAs(N, V, m, m2, T) == Whole(N, V, m2, InGot(T)) /\ m2.key = m.key /\ m2.data = m.data

\* cache_rotate only exchanges the names of the trees.
LEMMA RotationWhole ==
  ASSUME NEW N, NEW V, NEW m, NEW T, Whole(N, V, m, T), T["got"] = {}
  PROVE  RotatedAs(N, V, m, Rotation(m), T)
<1> DEFINE m2 == Rotation(m)
           root == [[m.root EXCEPT !["got"] = m.root["spt"]] EXCEPT !["spt"] = NULL]
           eltscnt == [[m.eltscnt EXCEPT !["got"] = m.eltscnt["spt"]] EXCEPT !["spt"] = 0]
           T2 == InGot(T)
<1>1. /\ N \in Nat /\ 0 \in V /\ m \in Memory(N, V) /\ T \in [AllTrees -> SUBSET (1..N)]
      /\ \A q \in AllTrees : Holds(m, q, T[q]) /\ m.eltscnt[q] = Cardinality(T[q])
      /\ FreeList(m, Free(N, T))
  BY DEF Whole
<1>2. "spt" \in AllTrees /\ "got" \in AllTrees /\ \A q \in AllTrees : q = "spt" \/ q = "got"
  BY DEF AllTrees
<1>3. m2 = [kid |-> m.kid, u |-> m.u, key |-> m.key, data |-> m.data, root |-> root,
            eltscnt |-> eltscnt, free |-> m.free]
  <2> DEFINE a == [m EXCEPT !.root["got"] = m.root["spt"]]
             c == [a EXCEPT !.eltscnt["got"] = m.eltscnt["spt"]]
             e == [c EXCEPT !.root["spt"] = NULL]
  <2>1. m = [kid |-> m.kid, u |-> m.u, key |-> m.key, data |-> m.data, root |-> m.root,
             eltscnt |-> m.eltscnt, free |-> m.free]
    BY <1>1, Members
  <2>2. m2 = [e EXCEPT !.eltscnt["spt"] = 0]
    BY Zenon DEF Rotation, sp_init
  <2> HIDE DEF m2
  <2>3. a = [kid |-> m.kid, u |-> m.u, key |-> m.key, data |-> m.data,
             root |-> [m.root EXCEPT !["got"] = m.root["spt"]],
             eltscnt |-> m.eltscnt, free |-> m.free]
    BY <2>1
  <2>4. c = [a EXCEPT !.eltscnt["got"] = m.eltscnt["spt"]]
    OBVIOUS
  <2>5. e = [c EXCEPT !.root["spt"] = NULL]
    OBVIOUS
  <2> HIDE DEF a, c, e
  <2>6. c = [kid |-> m.kid, u |-> m.u, key |-> m.key, data |-> m.data,
             root |-> [m.root EXCEPT !["got"] = m.root["spt"]],
             eltscnt |-> [m.eltscnt EXCEPT !["got"] = m.eltscnt["spt"]], free |-> m.free]
    BY <2>3, <2>4
  <2>7. e = [kid |-> m.kid, u |-> m.u, key |-> m.key, data |-> m.data, root |-> root,
             eltscnt |-> [m.eltscnt EXCEPT !["got"] = m.eltscnt["spt"]], free |-> m.free]
    BY <2>5, <2>6
  <2> HIDE DEF root
  <2> QED
    BY <2>2, <2>7
<1>4. root \in [AllTrees -> 0..N] /\ root["spt"] = NULL /\ root["got"] = m.root["spt"]
  <2>1. m.root \in [AllTrees -> 0..N] /\ NULL \in 0..N
    BY <1>1 DEF Memory, NULL
  <2> QED
    BY <1>2, <2>1
<1>5. eltscnt \in [AllTrees -> Int] /\ eltscnt["spt"] = 0 /\ eltscnt["got"] = m.eltscnt["spt"]
  <2>1. m.eltscnt \in [AllTrees -> Int]
    BY <1>1 DEF Memory
  <2> QED
    BY <1>2, <2>1
<1> HIDE DEF m2, root, eltscnt
<1>6. m2 \in Memory(N, V)
  BY <1>1, <1>3, <1>4, <1>5 DEF Memory
<1>7. /\ m2.kid = m.kid /\ m2.u = m.u /\ m2.key = m.key /\ m2.data = m.data
      /\ m2.root = root /\ m2.eltscnt = eltscnt /\ m2.free = m.free
  BY <1>3
<1>8. T2["spt"] = {} /\ T2["got"] = T["spt"] /\ T2 \in [AllTrees -> SUBSET (1..N)]
  BY <1>1, <1>2 DEF InGot
<1> HIDE DEF T2
<1>9. ASSUME NEW q \in AllTrees PROVE Holds(m2, q, T2[q]) /\ m2.eltscnt[q] = Cardinality(T2[q])
  <2>1. CASE q = "spt"
    <3>1. Holds(m2, "spt", {})
      BY <1>4, <1>7, HoldsNone
    <3>2. Cardinality({}) = 0
      BY FS_EmptySet
    <3> QED
      BY <1>5, <1>7, <1>8, <2>1, <3>1, <3>2
  <2>2. CASE q = "got"
    <3>1. Holds(m, "spt", T["spt"]) /\ m.eltscnt["spt"] = Cardinality(T["spt"])
      BY <1>1, <1>2
    <3>2. Holds(m2, "got", T["spt"])
      BY <1>4, <1>7, <3>1 DEF Holds
    <3> QED
      BY <1>5, <1>7, <1>8, <2>2, <3>1, <3>2
  <2> QED
    BY <1>2, <2>1, <2>2
<1>10. FreeList(m2, Free(N, T2))
  <2>1. Free(N, T2) = Free(N, T)
    BY <1>8 DEF Free
  <2> QED
    BY <1>1, <1>7, <2>1, ListSame
<1>11. Whole(N, V, m2, T2)
  BY <1>1, <1>6, <1>8, <1>9, <1>10 DEF Whole
<1>12. RotatedAs(N, V, m, m2, T)
  BY <1>7, <1>11 DEF RotatedAs, T2
<1> QED
  BY <1>12 DEF m2

(***************************************************************************)
(* What the blocks of a tree say of its dictionary.                        *)
(***************************************************************************)

\* A dictionary after Put and Delete, and an empty one.
PutF(f, k, v) == [j \in DOMAIN f \cup {k} |-> IF j = k THEN v ELSE f[j]]

DeleteF(f, k) == [j \in DOMAIN f \ {k} |-> f[j]]

EmptyF == [k \in {} |-> k]

\* A block has the value of its key.
Kept(key, data, S, f) == /\ f = [k \in {key[n] : n \in S} |-> f[k]]
                         /\ \A n \in S : f[key[n]] = data[n]

\* n has the key k and the data v, the other blocks have what they had.
Changes(key, data, S, key2, data2, n, k, v) ==
    /\ key2[n] = k /\ data2[n] = v /\ (n \in S => key[n] = k)
    /\ \A x \in S \ {n} : key2[x] = key[x] /\ data2[x] = data[x] /\ key[x] # k

\* What is put into a tree is put into its dictionary.
LEMMA KeptPut ==
  ASSUME NEW key, NEW data, NEW S, NEW f, Kept(key, data, S, f), NEW key2, NEW data2,
         NEW n, NEW k, NEW v, Changes(key, data, S, key2, data2, n, k, v)
  PROVE  Kept(key2, data2, S \cup {n}, PutF(f, k, v))
<1> DEFINE g == PutF(f, k, v)
           S2 == S \cup {n}
<1>1. /\ key2[n] = k /\ data2[n] = v /\ (n \in S => key[n] = k)
      /\ \A x \in S \ {n} : key2[x] = key[x] /\ data2[x] = data[x] /\ key[x] # k
  BY DEF Changes
<1>2. DOMAIN f = {key[x] : x \in S} /\ \A x \in S : f[key[x]] = data[x]
  BY DEF Kept
<1>3. {key2[x] : x \in S2} = DOMAIN f \cup {k}
  <2>1. \A x \in S2 : key2[x] \in DOMAIN f \cup {k}
    BY <1>1, <1>2
  <2>2. \A y \in DOMAIN f \cup {k} : \E x \in S2 : y = key2[x]
    <3> SUFFICES ASSUME NEW y \in DOMAIN f \cup {k} PROVE \E x \in S2 : y = key2[x]
      OBVIOUS
    <3>1. CASE y = k
      BY <1>1, <3>1
    <3>2. CASE y # k
      <4>1. PICK x \in S : y = key[x]
        BY <1>2, <3>2
      <4>2. x # n
        BY <1>1, <3>2, <4>1
      <4> QED
        BY <1>1, <4>1, <4>2
    <3> QED
      BY <3>1, <3>2
  <2> QED
    BY <2>1, <2>2
<1>4. /\ g = [j \in DOMAIN f \cup {k} |-> g[j]] /\ g[k] = v
      /\ \A j \in DOMAIN f : j # k => g[j] = f[j]
  BY DEF PutF
<1> HIDE DEF g
<1>5. \A x \in S2 : g[key2[x]] = data2[x]
  <2> SUFFICES ASSUME NEW x \in S2 PROVE g[key2[x]] = data2[x]
    OBVIOUS
  <2>1. CASE x = n
    BY <1>1, <1>4, <2>1
  <2>2. CASE x # n
    <3>1. x \in S /\ key2[x] = key[x] /\ data2[x] = data[x] /\ key[x] # k /\ key[x] \in DOMAIN f
      BY <1>1, <1>2, <2>2
    <3> QED
      BY <1>2, <1>4, <3>1
  <2> QED
    BY <2>1, <2>2
<1> HIDE DEF S2
<1>6. Kept(key2, data2, S2, g)
  BY <1>3, <1>4, <1>5 DEF Kept
<1> QED
  BY <1>6 DEF g, S2

\* The blocks A are as they were.
Stay(key, data, A, key2, data2) == \A x \in A : key2[x] = key[x] /\ data2[x] = data[x]

\* What is deleted from a tree is deleted from its dictionary.
LEMMA KeptDelete ==
  ASSUME NEW key, NEW data, NEW S, NEW f, Kept(key, data, S, f), NEW key2, NEW data2,
         NEW n \in S, Keyed(key, S), Stay(key, data, S \ {n}, key2, data2)
  PROVE  Kept(key2, data2, S \ {n}, DeleteF(f, key[n]))
<1> DEFINE g == DeleteF(f, key[n])
           S2 == S \ {n}
<1>1. DOMAIN f = {key[x] : x \in S} /\ \A x \in S : f[key[x]] = data[x]
  BY DEF Kept
<1>2. \A x \in S2 : x \in S /\ key2[x] = key[x] /\ data2[x] = data[x] /\ key[x] # key[n]
  BY DEF Keyed, Stay
<1>3. {key2[x] : x \in S2} = DOMAIN f \ {key[n]}
  <2>1. \A x \in S2 : key2[x] \in DOMAIN f \ {key[n]}
    BY <1>1, <1>2
  <2>2. \A y \in DOMAIN f \ {key[n]} : \E x \in S2 : y = key2[x]
    BY <1>1, <1>2
  <2> QED
    BY <2>1, <2>2
<1>4. g = [j \in DOMAIN f \ {key[n]} |-> g[j]] /\ \A j \in DOMAIN f : j # key[n] => g[j] = f[j]
  BY DEF DeleteF
<1> HIDE DEF g, S2
<1>5. \A x \in S2 : g[key2[x]] = data2[x]
  <2> SUFFICES ASSUME NEW x \in S2 PROVE g[key2[x]] = data2[x]
    OBVIOUS
  <2>1. x \in S /\ key[x] \in DOMAIN f
    BY <1>1, <1>2
  <2> QED
    BY <1>1, <1>2, <1>4, <2>1
<1>6. Kept(key2, data2, S2, g)
  BY <1>3, <1>4, <1>5 DEF Kept
<1> QED
  BY <1>6 DEF g, S2

\* A tree whose blocks stay has the same dictionary.
LEMMA KeptSame ==
  ASSUME NEW key, NEW data, NEW S, NEW f, Kept(key, data, S, f), NEW key2, NEW data2,
         Stay(key, data, S, key2, data2)
  PROVE  Kept(key2, data2, S, f)
<1>1. {key2[x] : x \in S} = {key[x] : x \in S}
  BY DEF Stay
<1> QED
  BY <1>1 DEF Kept, Stay

\* The dictionary of an empty tree is empty.
LEMMA KeptNone ==
  ASSUME NEW key, NEW data
  PROVE  Kept(key, data, {}, EmptyF)
  BY DEF Kept, EmptyF

\* The chain of a block has the symbols of some names with the block's CRC.
Listed(k, c, f) ==
    /\ \E E : c \in Seq(E)
    /\ c # <<>>
    /\ \A i \in 1..Len(c) : /\ c[i].name \in DOMAIN f /\ Crc(c[i].name) = k
                            /\ f[c[i].name] = c[i].id
    /\ \A i, j \in 1..Len(c) : c[i].name = c[j].name => i = j

\* The chains have the symbols of all names.
SymbolsKept(key, data, S, f) ==
    /\ f = [s \in DOMAIN f |-> f[s]] /\ DOMAIN f \in SUBSET Names /\ IsFiniteSet(DOMAIN f)
    /\ \A n \in S : Listed(key[n], data[n], f)
    /\ \A s \in DOMAIN f : \E n \in S : \E i \in 1..Len(data[n]) : data[n][i].name = s

\* Symbols whose blocks stay are the same.
LEMMA SymbolsSame ==
  ASSUME NEW key, NEW data, NEW S, NEW f, SymbolsKept(key, data, S, f), NEW key2, NEW data2,
         Stay(key, data, S, key2, data2)
  PROVE  SymbolsKept(key2, data2, S, f)
  BY DEF SymbolsKept, Stay

\* An empty tree has no symbols.
LEMMA SymbolsNone ==
  ASSUME NEW key, NEW data
  PROVE  SymbolsKept(key, data, {}, EmptyF) /\ Cardinality(DOMAIN EmptyF) = 0
<1>1. DOMAIN EmptyF = {} /\ EmptyF = [s \in {} |-> EmptyF[s]]
  BY DEF EmptyF
<1> QED
  BY <1>1, FS_EmptySet DEF SymbolsKept

\* A name more in the chain c.
LEMMA ListedMore ==
  ASSUME NEW k, NEW c, NEW f, \/ c = <<>>
                              \/ Listed(k, c, f),
         NEW s, s \notin DOMAIN f, Crc(s) = k, NEW id
  PROVE  /\ Listed(k, Append(c, [id |-> id, name |-> s]), PutF(f, s, id))
         /\ \A i \in 1..Len(c) : Append(c, [id |-> id, name |-> s])[i] = c[i]
         /\ Len(c) \in Nat /\ Len(Append(c, [id |-> id, name |-> s])) = Len(c) + 1
         /\ Append(c, [id |-> id, name |-> s])[Len(c) + 1].name = s
<1> DEFINE r == [id |-> id, name |-> s]
           a == Append(c, r)
           g == PutF(f, s, id)
<1>1. PICK E : c \in Seq(E)
  <2>1. <<>> \in Seq({})
    OBVIOUS
  <2> QED
    BY <2>1 DEF Listed
<1>2. /\ \A i \in 1..Len(c) : /\ c[i].name \in DOMAIN f /\ Crc(c[i].name) = k
                              /\ f[c[i].name] = c[i].id
      /\ \A i, j \in 1..Len(c) : c[i].name = c[j].name => i = j
  <2>1. CASE c = <<>>
    <3>1. Len(c) = 0
      BY <2>1
    <3> QED
      BY <3>1
  <2> QED
    BY <2>1 DEF Listed
<1>3. r.id = id /\ r.name = s
  OBVIOUS
<1> HIDE DEF r
<1>4. Len(c) \in Nat
  BY <1>1
<1>5. a \in Seq(E \cup {r})
  <2>1. c \in Seq(E \cup {r})
    BY <1>1
  <2> QED
    BY <2>1
<1>6. Len(a) = Len(c) + 1 /\ a[Len(c) + 1] = r /\ \A i \in 1..Len(c) : a[i] = c[i]
  <2>1. c \in Seq(E \cup {r})
    BY <1>1
  <2> QED
    BY <2>1
<1>7. DOMAIN g = DOMAIN f \cup {s} /\ g[s] = id /\ \A j \in DOMAIN f : j # s => g[j] = f[j]
  BY DEF PutF
<1> HIDE DEF a, g
<1>8. \A i \in 1..Len(a) : i \in 1..Len(c) \/ i = Len(c) + 1
  BY <1>4, <1>6
<1>9. a # <<>>
  <2>1. Len(a) # 0
    BY <1>4, <1>6
  <2> QED
    BY <2>1
<1>10. ASSUME NEW i \in 1..Len(a)
       PROVE  a[i].name \in DOMAIN g /\ Crc(a[i].name) = k /\ g[a[i].name] = a[i].id
  <2>1. CASE i \in 1..Len(c)
    <3>1. a[i] = c[i] /\ c[i].name \in DOMAIN f /\ c[i].name # s
      BY <1>2, <1>6, <2>1
    <3> QED
      BY <1>2, <1>7, <2>1, <3>1
  <2>2. CASE i = Len(c) + 1
    BY <1>3, <1>6, <1>7, <2>2
  <2> QED
    BY <1>8, <2>1, <2>2
<1>11. ASSUME NEW i \in 1..Len(a), NEW j \in 1..Len(a), a[i].name = a[j].name PROVE i = j
  <2>1. \A x \in 1..Len(c) : a[x].name # s /\ a[x] = c[x]
    BY <1>2, <1>6
  <2>2. a[Len(c) + 1].name = s
    BY <1>3, <1>6
  <2> QED
    BY <1>2, <1>8, <1>11, <2>1, <2>2
<1>12. Listed(k, a, g)
  BY <1>5, <1>9, <1>10, <1>11 DEF Listed
<1> QED
  BY <1>3, <1>4, <1>6, <1>12 DEF a, g, r

\* A chain of other names.
OtherNames(f, g, c, s) == /\ \A j \in DOMAIN f : j # s => j \in DOMAIN g /\ g[j] = f[j]
                        /\ \A i \in 1..Len(c) : c[i].name # s
\* Other names do not matter to it.
LEMMA ListedOther ==
  ASSUME NEW k, NEW c, NEW f, Listed(k, c, f), NEW s, NEW g,
         OtherNames(f, g, c, s)
  PROVE  Listed(k, c, g)
  BY DEF Listed, OtherNames

\* The chain without its element i.
LEMMA ListedLess ==
  ASSUME NEW k, NEW c, NEW f, Listed(k, c, f), NEW i \in 1..Len(c)
  PROVE  /\ Without(c, i) # <<>> => Listed(k, Without(c, i), DeleteF(f, c[i].name))
         /\ Without(c, i) = <<>> => \A j \in 1..Len(c) : j = i
         /\ \A j \in 1..Len(c) : j # i => \E l \in 1..Len(Without(c, i)) : Without(c, i)[l] = c[j]
<1> DEFINE w == Without(c, i)
           g == DeleteF(f, c[i].name)
<1>1. PICK E : c \in Seq(E)
  BY DEF Listed
<1>2. Len(c) \in Nat /\ Len(c) - 1 \in Nat /\ i \in Nat
  BY <1>1
<1>3. \A j \in 1..(Len(c) - 1) : (IF j < i THEN j ELSE j + 1) \in 1..Len(c)
  BY <1>2
<1>4. \A j \in 1..(Len(c) - 1) : c[IF j < i THEN j ELSE j + 1] \in E
  BY <1>1, <1>3
<1>5. w \in Seq(E) /\ Len(w) = Len(c) - 1
      /\ \A j \in 1..Len(w) : w[j] = c[IF j < i THEN j ELSE j + 1]
  BY <1>2, <1>4 DEF Without
<1>6. DOMAIN g = DOMAIN f \ {c[i].name} /\ \A j \in DOMAIN g : g[j] = f[j]
  BY DEF DeleteF
<1> HIDE DEF w, g
<1>7. w = <<>> => \A j \in 1..Len(c) : j = i
  <2> SUFFICES ASSUME w = <<>> PROVE \A j \in 1..Len(c) : j = i
    OBVIOUS
  <2>1. Len(w) = 0
    OBVIOUS
  <2>2. Len(w) = Len(c) - 1
    BY <1>5
  <2>3. Len(c) = 1
    BY <1>2, <2>1, <2>2
  <2>4. \A j \in 1..Len(c) : j = 1
    BY <2>3
  <2> QED
    BY <2>4
<1>8. ASSUME NEW j \in 1..Len(c), j # i
      PROVE  \E l \in 1..Len(w) : w[l] = c[j]
  <2>1. CASE j < i
    <3>1. j \in 1..Len(w)
      BY <1>2, <1>5, <2>1
    <3> QED
      BY <1>5, <2>1, <3>1
  <2>2. CASE i < j
    <3>1. j - 1 \in 1..Len(w) /\ ~ (j - 1 < i) /\ (j - 1) + 1 = j
      BY <1>2, <1>5, <2>2
    <3>2. w[j - 1] = c[j]
      BY <1>5, <3>1
    <3> QED
      BY <3>1, <3>2
  <2> QED
    BY <1>2, <1>8, <2>1, <2>2
<1>9. /\ \A j \in 1..Len(c) : /\ c[j].name \in DOMAIN f /\ Crc(c[j].name) = k
                              /\ f[c[j].name] = c[j].id
      /\ \A j, l \in 1..Len(c) : c[j].name = c[l].name => j = l
  BY DEF Listed
<1> DEFINE at(j) == IF j < i THEN j ELSE j + 1
<1>10. /\ \A j \in 1..Len(w) : w[j] = c[at(j)] /\ at(j) \in 1..Len(c) /\ at(j) # i
       /\ \A j, l \in 1..Len(w) : at(j) = at(l) => j = l
  BY <1>2, <1>3, <1>5
<1> HIDE DEF at
<1>11. ASSUME NEW j \in 1..Len(w)
       PROVE  w[j].name \in DOMAIN g /\ Crc(w[j].name) = k /\ g[w[j].name] = w[j].id
  <2>1. c[at(j)].name # c[i].name
    BY <1>9, <1>10
  <2> QED
    BY <1>6, <1>9, <1>10, <2>1
<1>12. \A j, l \in 1..Len(w) : w[j].name = w[l].name => j = l
  BY <1>9, <1>10
<1>13. w # <<>> => Listed(k, w, g)
  BY <1>5, <1>11, <1>12 DEF Listed
<1> QED
  BY <1>7, <1>8, <1>13 DEF w, g

\* The chain that n has, if it is in the tree.
ChainOf(data, S, n, c) == IF n \in S THEN c = data[n] ELSE c = <<>>

\* A name that is new gets its symbol.
LEMMA SymbolsPut ==
  ASSUME NEW key, NEW data, NEW S, NEW f, SymbolsKept(key, data, S, f),
         NEW s \in Names, s \notin DOMAIN f, NEW id, NEW n, NEW c, ChainOf(data, S, n, c),
         NEW key2, NEW data2,
         Changes(key, data, S, key2, data2, n, Crc(s), Append(c, [id |-> id, name |-> s]))
  PROVE  /\ SymbolsKept(key2, data2, S \cup {n}, PutF(f, s, id))
         /\ Cardinality(DOMAIN PutF(f, s, id)) = Cardinality(DOMAIN f) + 1
<1> DEFINE k == Crc(s)
           a == Append(c, [id |-> id, name |-> s])
           g == PutF(f, s, id)
           S2 == S \cup {n}
<1>1. /\ key2[n] = k /\ data2[n] = a /\ (n \in S => key[n] = k)
      /\ \A x \in S \ {n} : key2[x] = key[x] /\ data2[x] = data[x] /\ key[x] # k
  BY DEF Changes
<1>2. /\ f = [t \in DOMAIN f |-> f[t]] /\ DOMAIN f \in SUBSET Names /\ IsFiniteSet(DOMAIN f)
      /\ \A x \in S : Listed(key[x], data[x], f)
      /\ \A t \in DOMAIN f : \E x \in S : \E i \in 1..Len(data[x]) : data[x][i].name = t
  BY DEF SymbolsKept
<1>0. IF n \in S THEN c = data[n] ELSE c = <<>>
  BY DEF ChainOf
<1>3. c = <<>> \/ Listed(k, c, f)
  BY <1>0, <1>1, <1>2
<1>4. /\ Listed(k, a, g) /\ \A i \in 1..Len(c) : a[i] = c[i]
      /\ Len(c) \in Nat /\ Len(a) = Len(c) + 1 /\ a[Len(c) + 1].name = s
  BY <1>3, ListedMore
<1>5. /\ g = [t \in DOMAIN g |-> g[t]] /\ DOMAIN g = DOMAIN f \cup {s}
      /\ \A t \in DOMAIN f : t # s => t \in DOMAIN g /\ g[t] = f[t]
  BY DEF PutF
<1> HIDE DEF g, a, k
<1>6. DOMAIN g \in SUBSET Names /\ IsFiniteSet(DOMAIN g)
      /\ Cardinality(DOMAIN g) = Cardinality(DOMAIN f) + 1
  BY <1>2, <1>5, FS_AddElement
<1>7. \A x \in S2 : Listed(key2[x], data2[x], g)
  <2> SUFFICES ASSUME NEW x \in S2 PROVE Listed(key2[x], data2[x], g)
    OBVIOUS
  <2>1. CASE x = n
    BY <1>1, <1>4, <2>1
  <2>2. CASE x # n
    <3>1. x \in S /\ key2[x] = key[x] /\ data2[x] = data[x] /\ Listed(key[x], data[x], f)
      BY <1>1, <1>2, <2>2
    <3>2. \A i \in 1..Len(data[x]) : data[x][i].name # s
      BY <3>1 DEF Listed
    <3>3. OtherNames(f, g, data[x], s)
      BY <1>5, <3>2 DEF OtherNames
    <3>4. Listed(key[x], data[x], g)
      BY <3>1, <3>3, ListedOther
    <3> QED
      BY <3>1, <3>4
  <2> QED
    BY <2>1, <2>2
<1>8. \A t \in DOMAIN g : \E x \in S2 : \E i \in 1..Len(data2[x]) : data2[x][i].name = t
  <2> SUFFICES ASSUME NEW t \in DOMAIN g
               PROVE  \E x \in S2 : \E i \in 1..Len(data2[x]) : data2[x][i].name = t
    OBVIOUS
  <2>1. CASE t = s
    <3>1. Len(c) + 1 \in 1..Len(a)
      BY <1>4
    <3> QED
      BY <1>1, <1>4, <2>1, <3>1
  <2>2. CASE t # s
    <3>1. PICK x \in S : \E i \in 1..Len(data[x]) : data[x][i].name = t
      BY <1>2, <1>5, <2>2
    <3>2. PICK i \in 1..Len(data[x]) : data[x][i].name = t
      BY <3>1
    <3>3. CASE x = n
      <4>1. c = data[x]
        BY <1>0, <3>1, <3>3
      <4>2. i \in 1..Len(c) /\ i \in 1..Len(a)
        BY <1>4, <3>2, <4>1
      <4>3. a[i] = data[x][i]
        BY <1>4, <4>1, <4>2
      <4>4. data2[n] = a /\ a[i].name = t /\ n \in S2
        BY <1>1, <3>2, <4>3
      <4> QED
        BY <4>2, <4>4
    <3>4. CASE x # n
      <4>1. data2[x] = data[x] /\ x \in S2
        BY <1>1, <3>4
      <4> QED
        BY <3>1, <4>1
    <3> QED
      BY <3>3, <3>4
  <2> QED
    BY <2>1, <2>2
<1> HIDE DEF S2
<1>9. SymbolsKept(key2, data2, S2, g)
  BY <1>5, <1>6, <1>7, <1>8 DEF SymbolsKept
<1> QED
  BY <1>6, <1>9 DEF g, S2

\* The symbol i of the block n is taken out; the block goes if it was the last one.
LessSymbol(key, data, S, key2, data2, S2, n, i) ==
    /\ \A x \in S \ {n} : key2[x] = key[x] /\ data2[x] = data[x]
    /\ \/ Without(data[n], i) = <<>> /\ S2 = S \ {n}
       \/ /\ Without(data[n], i) # <<>> /\ S2 = S
          /\ key2[n] = key[n] /\ data2[n] = Without(data[n], i)

\* The symbol is gone, and the others are not.
LEMMA SymbolsDelete ==
  ASSUME NEW key, NEW data, NEW S, NEW f, SymbolsKept(key, data, S, f), Keyed(key, S),
         NEW n \in S, NEW i \in 1..Len(data[n]), NEW s, s = data[n][i].name,
         NEW key2, NEW data2, NEW S2, LessSymbol(key, data, S, key2, data2, S2, n, i)
  PROVE  /\ SymbolsKept(key2, data2, S2, DeleteF(f, s))
         /\ Cardinality(DOMAIN DeleteF(f, s)) = Cardinality(DOMAIN f) - 1
<1> DEFINE c == data[n]
           w == Without(c, i)
           g == DeleteF(f, s)
<1>1. /\ DOMAIN f \in SUBSET Names /\ IsFiniteSet(DOMAIN f)
      /\ \A x \in S : Listed(key[x], data[x], f)
      /\ \A t \in DOMAIN f : \E x \in S : \E j \in 1..Len(data[x]) : data[x][j].name = t
  BY DEF SymbolsKept
<1>2. /\ w # <<>> => Listed(key[n], w, g)
      /\ w = <<>> => \A j \in 1..Len(c) : j = i
      /\ \A j \in 1..Len(c) : j # i => \E l \in 1..Len(w) : w[l] = c[j]
  BY <1>1, ListedLess
<1>3. s \in DOMAIN f /\ Crc(s) = key[n]
  BY <1>1 DEF Listed
<1>4. /\ g = [t \in DOMAIN g |-> g[t]] /\ DOMAIN g = DOMAIN f \ {s}
      /\ \A t \in DOMAIN f : t # s => t \in DOMAIN g /\ g[t] = f[t]
  BY DEF DeleteF
<1> HIDE DEF g, w
<1>5. DOMAIN g \in SUBSET Names /\ IsFiniteSet(DOMAIN g)
      /\ Cardinality(DOMAIN g) = Cardinality(DOMAIN f) - 1
  <2> DEFINE A == DOMAIN f
  <2>1. IsFiniteSet(A) /\ s \in A /\ A \in SUBSET Names /\ DOMAIN g = A \ {s}
    BY <1>1, <1>3, <1>4
  <2> HIDE DEF A
  <2>2. IsFiniteSet(A \ {s}) /\ Cardinality(A \ {s}) = Cardinality(A) - 1
    BY <2>1, FS_RemoveElement
  <2> QED
    BY <2>1, <2>2 DEF A
<1>6. /\ \A x \in S \ {n} : key2[x] = key[x] /\ data2[x] = data[x]
      /\ \/ w = <<>> /\ S2 = S \ {n}
         \/ w # <<>> /\ S2 = S /\ key2[n] = key[n] /\ data2[n] = w
  BY DEF LessSymbol, w
<1>7. \A x \in S2 : Listed(key2[x], data2[x], g)
  <2> SUFFICES ASSUME NEW x \in S2 PROVE Listed(key2[x], data2[x], g)
    OBVIOUS
  <2>1. CASE x = n
    BY <1>2, <1>6, <2>1
  <2>2. CASE x # n
    <3>1. x \in S /\ key2[x] = key[x] /\ data2[x] = data[x] /\ Listed(key[x], data[x], f)
      BY <1>1, <1>6, <2>2
    <3>2. key[x] # key[n]
      BY <2>2, <3>1 DEF Keyed
    <3>3. \A j \in 1..Len(data[x]) : data[x][j].name # s
      BY <1>3, <3>1, <3>2 DEF Listed
    <3>4. OtherNames(f, g, data[x], s)
      BY <1>4, <3>3 DEF OtherNames
    <3>5. Listed(key[x], data[x], g)
      BY <3>1, <3>4, ListedOther
    <3> QED
      BY <3>1, <3>5
  <2> QED
    BY <2>1, <2>2
<1>8. \A t \in DOMAIN g : \E x \in S2 : \E j \in 1..Len(data2[x]) : data2[x][j].name = t
  <2> SUFFICES ASSUME NEW t \in DOMAIN g
               PROVE  \E x \in S2 : \E j \in 1..Len(data2[x]) : data2[x][j].name = t
    OBVIOUS
  <2>1. PICK x \in S : \E j \in 1..Len(data[x]) : data[x][j].name = t
    BY <1>1, <1>4
  <2>2. PICK j \in 1..Len(data[x]) : data[x][j].name = t
    BY <2>1
  <2>3. t # s
    BY <1>4
  <2>4. CASE x = n
    <3>1. j # i /\ j \in 1..Len(c)
      BY <2>2, <2>3, <2>4
    <3>2. PICK l \in 1..Len(w) : w[l] = c[j]
      BY <1>2, <3>1
    <3>3. w # <<>>
      BY <1>2, <3>1
    <3>4. data2[n] = w /\ n \in S2 /\ w[l].name = t
      BY <1>6, <2>2, <2>4, <3>2, <3>3
    <3> QED
      BY <3>2, <3>4
  <2>5. CASE x # n
    <3>1. x \in S2 /\ data2[x] = data[x]
      BY <1>6, <2>5
    <3> QED
      BY <2>1, <3>1
  <2> QED
    BY <2>4, <2>5
<1>9. SymbolsKept(key2, data2, S2, g)
  BY <1>4, <1>5, <1>7, <1>8 DEF SymbolsKept
<1> QED
  BY <1>5, <1>9 DEF g

\* The symbols of a list of blocks are as many as the names.
LEMMA SymbolsCounted ==
  ASSUME NEW data, NEW key, NEW S, NEW f, SymbolsKept(key, data, S, f), Keyed(key, S),
         NEW b, Scanned(S, b)
  PROVE  Cardinality(UNION {{i} \X DOMAIN data[b[i]] : i \in DOMAIN b}) = Cardinality(DOMAIN f)
<1> DEFINE P == UNION {{i} \X DOMAIN data[b[i]] : i \in DOMAIN b}
           A == DOMAIN f
           h == [p \in P |-> data[b[p[1]]][p[2]].name]
<1>1. /\ b \in Seq(S) /\ \A x \in S : \E i \in 1..Len(b) : b[i] = x
      /\ \A i, j \in 1..Len(b) : b[i] = b[j] => i = j
  BY DEF Scanned
<1>2. /\ IsFiniteSet(A) /\ \A x \in S : Listed(key[x], data[x], f)
      /\ \A t \in A : \E x \in S : \E i \in 1..Len(data[x]) : data[x][i].name = t
  BY DEF SymbolsKept
<1>3. DOMAIN b = 1..Len(b) /\ \A i \in 1..Len(b) : b[i] \in S
  BY <1>1
<1>4. \A x \in S : DOMAIN data[x] = 1..Len(data[x])
  <2> SUFFICES ASSUME NEW x \in S PROVE DOMAIN data[x] = 1..Len(data[x])
    OBVIOUS
  <2>1. PICK E : data[x] \in Seq(E)
    BY <1>2 DEF Listed
  <2> QED
    BY <2>1
<1>5. \A p : p \in P <=> \E i \in 1..Len(b) : \E j \in 1..Len(data[b[i]]) : p = <<i, j>>
  <2>1. ASSUME NEW p \in P PROVE \E i \in 1..Len(b) : \E j \in 1..Len(data[b[i]]) : p = <<i, j>>
    <3>1. PICK i \in 1..Len(b) : p \in {i} \X DOMAIN data[b[i]]
      BY <1>3
    <3>2. DOMAIN data[b[i]] = 1..Len(data[b[i]])
      BY <1>3, <1>4
    <3>3. PICK j \in 1..Len(data[b[i]]) : p = <<i, j>>
      BY <3>1, <3>2
    <3> QED
      BY <3>3
  <2>2. ASSUME NEW i \in 1..Len(b), NEW j \in 1..Len(data[b[i]]) PROVE <<i, j>> \in P
    <3>1. DOMAIN data[b[i]] = 1..Len(data[b[i]])
      BY <1>3, <1>4
    <3>2. <<i, j>> \in {i} \X DOMAIN data[b[i]]
      BY <3>1
    <3> QED
      BY <1>3, <3>2
  <2> QED
    BY <2>1, <2>2
<1>6. \A i \in 1..Len(b) : \A j \in 1..Len(data[b[i]]) : h[<<i, j>>] = data[b[i]][j].name
  <2> SUFFICES ASSUME NEW i \in 1..Len(b), NEW j \in 1..Len(data[b[i]])
               PROVE  h[<<i, j>>] = data[b[i]][j].name
    OBVIOUS
  <2>1. <<i, j>> \in P
    BY <1>5
  <2> HIDE DEF P
  <2> QED
    BY <2>1
<1>7. DOMAIN h = P /\ h = [p \in P |-> h[p]]
  OBVIOUS
<1> HIDE DEF P, h
<1>8. \A p \in P : h[p] \in A
  <2> SUFFICES ASSUME NEW p \in P PROVE h[p] \in A
    OBVIOUS
  <2>1. PICK i \in 1..Len(b) : \E j \in 1..Len(data[b[i]]) : p = <<i, j>>
    BY <1>5
  <2>2. PICK j \in 1..Len(data[b[i]]) : p = <<i, j>>
    BY <2>1
  <2>3. Listed(key[b[i]], data[b[i]], f)
    BY <1>2, <1>3
  <2> QED
    BY <1>6, <2>2, <2>3 DEF Listed
<1>9. ASSUME NEW p \in P, NEW r \in P, h[p] = h[r] PROVE p = r
  <2>1. PICK i \in 1..Len(b) : \E j \in 1..Len(data[b[i]]) : p = <<i, j>>
    BY <1>5
  <2>2. PICK j \in 1..Len(data[b[i]]) : p = <<i, j>>
    BY <2>1
  <2>3. PICK k \in 1..Len(b) : \E l \in 1..Len(data[b[k]]) : r = <<k, l>>
    BY <1>5
  <2>4. PICK l \in 1..Len(data[b[k]]) : r = <<k, l>>
    BY <2>3
  <2>5. Listed(key[b[i]], data[b[i]], f) /\ Listed(key[b[k]], data[b[k]], f)
        /\ b[i] \in S /\ b[k] \in S
    BY <1>2, <1>3
  <2>6. data[b[i]][j].name = data[b[k]][l].name
    BY <1>6, <1>9, <2>2, <2>4
  <2>7. key[b[i]] = key[b[k]]
    <3>1. Crc(data[b[i]][j].name) = key[b[i]] /\ Crc(data[b[k]][l].name) = key[b[k]]
      BY <2>5 DEF Listed
    <3> QED
      BY <2>6, <3>1
  <2>8. i = k
    BY <1>1, <2>5, <2>7 DEF Keyed
  <2>9. j = l
    BY <2>5, <2>6, <2>8 DEF Listed
  <2> QED
    BY <2>2, <2>4, <2>8, <2>9
<1>10. ASSUME NEW t \in A PROVE \E p \in P : h[p] = t
  <2>1. PICK x \in S : \E j \in 1..Len(data[x]) : data[x][j].name = t
    BY <1>2
  <2>2. PICK j \in 1..Len(data[x]) : data[x][j].name = t
    BY <2>1
  <2>3. PICK i \in 1..Len(b) : b[i] = x
    BY <1>1
  <2>4. <<i, j>> \in P /\ h[<<i, j>>] = t
    BY <1>5, <1>6, <2>2, <2>3
  <2> QED
    BY <2>4
<1> HIDE DEF A
<1>11. h \in [P -> A]
  BY <1>7, <1>8
<1>12. h \in Injection(P, A)
  BY <1>9, <1>11 DEF Injection, IsInjective
<1>13. h \in Surjection(P, A)
  BY <1>10, <1>11 DEF Surjection
<1>14. Cardinality(P) = Cardinality(A)
  BY <1>2, <1>12, <1>13, FS_Injection
<1> QED
  BY <1>14 DEF P, A

(***************************************************************************)
(* The invariant.                                                          *)
(***************************************************************************)

\* Of each user of the trees: what is in them is what ought to be, and all that was
\* allocated is there.
OfSplay(T, m, e, x, rel, f) ==
    /\ e = 0 /\ rel = {} /\ x = FALSE /\ T["got"] = {} /\ f["got"] = EmptyF
    /\ Kept(m.key, m.data, T["spt"], f["spt"])

\* ... the symbol table ...
OfSymbols(T, m, e, x, rel, f) ==
    /\ rel = {} /\ x = FALSE /\ T["got"] = {} /\ f["got"] = EmptyF
    /\ SymbolsKept(m.key, m.data, T["spt"], f["spt"]) /\ e = Cardinality(DOMAIN f["spt"])

\* ... the cache, one tree of which may be exported.
OfCache(T, m, e, x, f) ==
    /\ x = FALSE => T["got"] = {}
    /\ e = Cardinality(T["spt"]) + Cardinality(T["got"])
    /\ Kept(m.key, m.data, T["spt"], f["spt"]) /\ Kept(m.key, m.data, T["got"], f["got"])

\* The memory, the history and what the user counts agree.
Sound(N, V, T, us, m, e, x, rel, f) ==
    /\ Whole(N, V, m, T) /\ f = [q \in AllTrees |-> f[q]] /\ x \in BOOLEAN
    /\ \/ us = "splay" /\ OfSplay(T, m, e, x, rel, f)
       \/ us = "symbols" /\ OfSymbols(T, m, e, x, rel, f)
       \/ us = "cache" /\ OfCache(T, m, e, x, f) /\ rel = {}
       \/ us = "ended" /\ OfCache(T, m, e, x, f) /\ T["spt"] = {} /\ rel \cap T["got"] = {}

\* The inductive invariant.
TreesInv ==
    \E N, V, T : Sound(N, V, T, user, mem, entries, exporting, released, dict)

\* There are two trees.
LEMMA Two == "spt" \in AllTrees /\ "got" \in AllTrees /\ \A q \in AllTrees : q = "spt" \/ q = "got"
  BY DEF AllTrees

\* What Put, Delete, Clear and Move do to the dictionaries of the two trees.
LEMMA DictPut ==
  ASSUME NEW k, NEW v, D!Put("spt", k, v), dict = [q \in AllTrees |-> dict[q]]
  PROVE  /\ dict'["spt"] = PutF(dict["spt"], k, v) /\ dict'["got"] = dict["got"]
         /\ dict' = [q \in AllTrees |-> dict'[q]]
  BY DEF D!Put, PutF, AllTrees

LEMMA DictDelete ==
  ASSUME NEW k, D!Delete("spt", k), dict = [q \in AllTrees |-> dict[q]]
  PROVE  /\ dict'["spt"] = DeleteF(dict["spt"], k) /\ dict'["got"] = dict["got"]
         /\ dict' = [q \in AllTrees |-> dict'[q]]
  BY DEF D!Delete, DeleteF, AllTrees

LEMMA DictClear ==
  ASSUME NEW p \in AllTrees, D!Clear(p), dict = [q \in AllTrees |-> dict[q]]
  PROVE  /\ dict'[p] = EmptyF /\ \A q \in AllTrees \ {p} : dict'[q] = dict[q]
         /\ dict' = [q \in AllTrees |-> dict'[q]]
  BY DEF D!Clear, D!Empty, EmptyF

LEMMA DictMove ==
  ASSUME D!Move("spt", "got"), dict = [q \in AllTrees |-> dict[q]]
  PROVE  /\ dict'["spt"] = EmptyF /\ dict'["got"] = dict["spt"]
         /\ dict' = [q \in AllTrees |-> dict'[q]]
  BY DEF D!Move, D!Empty, EmptyF, AllTrees

\* A memory without blocks is whole.
LEMMA NoTreesWhole == Whole(0, {0}, NoTrees(AllTrees), [q \in AllTrees |-> {}])
<1> DEFINE m == NoTrees(AllTrees)
           T == [q \in AllTrees |-> {}]
<1>1. /\ m.kid = [d \in Sides |-> <<>>] /\ m.u = <<>> /\ m.key = <<>> /\ m.data = <<>>
      /\ m.root = [q \in AllTrees |-> NULL] /\ m.eltscnt = [q \in AllTrees |-> 0]
      /\ m.free = NULL
  BY DEF NoTrees
<1>2. \A X : <<>> \in [1..0 -> X]
  OBVIOUS
<1>3. NULL = 0 /\ 0 \in 0..0 /\ 0 \in Nat /\ 0 \in Int
  BY DEF NULL
<1>4. m \in Memory(0, {0})
  BY <1>2, <1>3 DEF Memory, NoTrees
<1>5. T \in [AllTrees -> SUBSET (1..0)] /\ \A q \in AllTrees : T[q] = {}
  OBVIOUS
<1> HIDE DEF m, T
<1>6. \A q \in AllTrees : Holds(m, q, T[q]) /\ m.eltscnt[q] = Cardinality(T[q])
  <2>1. Cardinality({}) = 0
    BY FS_EmptySet
  <2>2. \A q \in AllTrees : m.root[q] = NULL /\ m.eltscnt[q] = 0
    BY <1>1
  <2> QED
    BY <1>5, <2>1, <2>2, HoldsNone
<1>7. FreeList(m, Free(0, T))
  <2>1. Free(0, T) = {}
    BY DEF Free
  <2>2. Chained(m.free, m.u, {}, [i \in 0..0 |-> NULL], 0)
    BY <1>1 DEF Chained
  <2> QED
    BY <2>1, <2>2 DEF FreeList
<1>8. T["spt"] \cap T["got"] = {}
  BY <1>5, Two
<1>9. Whole(0, {0}, m, T)
  BY <1>3, <1>4, <1>5, <1>6, <1>7, <1>8 DEF Whole
<1> QED
  BY <1>9 DEF m, T

\* The invariant holds initially.
LEMMA InitSound == Init => TreesInv
<1> SUFFICES ASSUME Init PROVE TreesInv
  OBVIOUS
<1> DEFINE T == [q \in AllTrees |-> {}]
<1>1. /\ user \in {"splay", "symbols", "cache"} /\ mem = NoTrees(AllTrees) /\ entries = 0
      /\ exporting = FALSE /\ released = {}
  BY DEF Init
<1>2. dict = [q \in AllTrees |-> dict[q]] /\ dict["spt"] = EmptyF /\ dict["got"] = EmptyF
  BY DEF Init, D!Init, D!Empty, EmptyF, AllTrees
<1>3. Whole(0, {0}, mem, T)
  BY <1>1, NoTreesWhole
<1>4. T["spt"] = {} /\ T["got"] = {}
  BY Two
<1> HIDE DEF T
<1>5. Kept(mem.key, mem.data, {}, EmptyF) /\ SymbolsKept(mem.key, mem.data, {}, EmptyF)
      /\ Cardinality(DOMAIN EmptyF) = 0 /\ Cardinality({}) = 0
  BY KeptNone, SymbolsNone, FS_EmptySet
<1>6. /\ OfSplay(T, mem, entries, exporting, released, dict)
      /\ OfSymbols(T, mem, entries, exporting, released, dict)
      /\ OfCache(T, mem, entries, exporting, dict)
  BY <1>1, <1>2, <1>4, <1>5 DEF OfSplay, OfSymbols, OfCache
<1>7. Sound(0, {0}, T, user, mem, entries, exporting, released, dict)
  BY <1>1, <1>2, <1>3, <1>6 DEF Sound
<1> QED
  BY <1>7 DEF TreesInv

\* A value that is put into a tree is what its dictionary gets.
LEMMA PutChanges ==
  ASSUME NEW N, NEW V, NEW m, NEW T, Whole(N, V, m, T), NEW k \in Nat, NEW v,
         NEW N2, NEW V2, NEW m2, NEW n, PutIn(N, m, N2, V2, m2, T, n, k, v)
  PROVE  /\ Changes(m.key, m.data, T["spt"], m2.key, m2.data, n, k, v)
         /\ Stay(m.key, m.data, T["got"], m2.key, m2.data)
<1>1. /\ m2.key[n] = k /\ m2.data[n] = v
      /\ \A x \in (1..N) \ {n} : m2.key[x] = m.key[x] /\ m2.data[x] = m.data[x]
      /\ n \notin T["got"] /\ T["spt"] \in SUBSET (1..N) /\ T["got"] \in SUBSET (1..N)
      /\ IF Find(m, "spt", k) # NULL THEN n = Find(m, "spt", k) /\ n \in T["spt"]
                                     ELSE n \notin T["spt"]
      /\ n \in T["spt"] => m.key[n] = k
  BY DEF PutIn
<1>2. N \in Nat /\ m \in Memory(N, V) /\ Holds(m, "spt", T["spt"])
  BY Two DEF Whole
<1>3. \/ Find(m, "spt", k) \in T["spt"] /\ m.key[Find(m, "spt", k)] = k
      \/ Find(m, "spt", k) = NULL /\ \A x \in T["spt"] : m.key[x] # k
  BY <1>1, <1>2, Two, Finds
<1>4. Keyed(m.key, T["spt"])
  BY <1>2 DEF Holds, Tree
<1>5. \A x \in T["spt"] \ {n} : m.key[x] # k
  <2>1. CASE n \in T["spt"]
    BY <1>1, <1>4, <2>1 DEF Keyed
  <2>2. CASE n \notin T["spt"]
    <3>1. Find(m, "spt", k) = NULL
      BY <1>1, <2>2
    <3>2. NULL \notin T["spt"]
      BY <1>4 DEF Keyed
    <3> QED
      BY <1>3, <3>1, <3>2
  <2> QED
    BY <2>1, <2>2
<1>6. \A x \in T["spt"] \ {n} : m2.key[x] = m.key[x] /\ m2.data[x] = m.data[x]
  BY <1>1
<1>7. Stay(m.key, m.data, T["got"], m2.key, m2.data)
  BY <1>1 DEF Stay
<1> QED
  BY <1>1, <1>5, <1>6, <1>7 DEF Changes

\* The calls of splay.c keep the invariant.
LEMMA SplaysSound ==
  ASSUME NEW N, NEW V, NEW T, Sound(N, V, T, user, mem, entries, exporting, released, dict),
         Splays, user' = user
  PROVE  TreesInv'
<1>1. /\ user = "splay" /\ Whole(N, V, mem, T) /\ dict = [q \in AllTrees |-> dict[q]]
      /\ entries = 0 /\ released = {} /\ exporting = FALSE /\ T["got"] = {}
      /\ dict["got"] = EmptyF /\ Kept(mem.key, mem.data, T["spt"], dict["spt"])
  BY DEF Splays, Sound, OfSplay
<1>2. /\ entries' = 0 /\ released' = {} /\ exporting' = FALSE /\ user' = "splay"
  BY <1>1 DEF Splays
<1>3. /\ N \in Nat /\ mem \in Memory(N, V) /\ T \in [AllTrees -> SUBSET (1..N)]
      /\ T["spt"] \in SUBSET (1..N) /\ Holds(mem, "spt", T["spt"])
      /\ Keyed(mem.key, T["spt"])
  BY <1>1, Two DEF Whole, Holds, Tree
<1>4. ASSUME NEW N2, NEW V2, NEW S, Whole(N2, V2, mem', With(T, "spt", S)),
             Kept(mem'.key, mem'.data, S, dict'["spt"]), dict'["got"] = dict["got"],
             dict' = [q \in AllTrees |-> dict'[q]]
      PROVE  TreesInv'
  <2> DEFINE T2 == With(T, "spt", S)
  <2>1. T2["spt"] = S /\ T2["got"] = {}
    BY <1>1, <1>3, Two DEF With
  <2> HIDE DEF T2
  <2>2. OfSplay(T2, mem', entries', exporting', released', dict')
    BY <1>1, <1>2, <1>4, <2>1 DEF OfSplay
  <2>3. Sound(N2, V2, T2, user', mem', entries', exporting', released', dict')
    BY <1>2, <1>4, <2>2 DEF Sound, T2
  <2> QED
    BY <2>3 DEF TreesInv
<1>5. With(T, "spt", T["spt"]) = T
  BY <1>3 DEF With
<1>6. ASSUME NEW k \in Keys, Install(k) PROVE TreesInv'
  <2>1. k \in Nat
    BY TreesAssumption
  <2>2. mem' = WithData(sp_install(mem, "spt", k), k) /\ D!Put("spt", k, k)
    BY <1>6 DEF Install
  <2>3. PICK N2, V2, n : PutIn(N, mem, N2, V2, mem', T, n, k, k)
    BY <1>1, <2>1, <2>2, PutWhole
  <2>4. Changes(mem.key, mem.data, T["spt"], mem'.key, mem'.data, n, k, k)
    BY <1>1, <2>1, <2>3, PutChanges
  <2>5. Kept(mem'.key, mem'.data, T["spt"] \cup {n}, PutF(dict["spt"], k, k))
    BY <1>1, <2>4, KeptPut
  <2>6. /\ dict'["spt"] = PutF(dict["spt"], k, k) /\ dict'["got"] = dict["got"]
        /\ dict' = [q \in AllTrees |-> dict'[q]]
    BY <1>1, <2>2, DictPut
  <2>7. Whole(N2, V2, mem', With(T, "spt", T["spt"] \cup {n}))
    BY <2>3 DEF PutIn
  <2> QED
    BY <1>4, <2>5, <2>6, <2>7
<1>7. ASSUME NEW k \in Keys, Lookup(k) PROVE TreesInv'
  <2>1. k \in Nat
    BY TreesAssumption
  <2>2. mem' = sp_lookup(mem, "spt", k) /\ dict' = dict
    BY <1>7 DEF Lookup, D!Same
  <2>3. LookedUp(N, V, mem, mem', T, "spt", Find(mem, "spt", k))
    BY <1>1, <2>1, <2>2, Two, LookupWhole
  <2>4. Whole(N, V, mem', T) /\ mem'.key = mem.key /\ mem'.data = mem.data
    BY <2>3 DEF LookedUp
  <2>5. Kept(mem'.key, mem'.data, T["spt"], dict'["spt"])
    BY <1>1, <2>2, <2>4
  <2> QED
    BY <1>1, <1>4, <1>5, <2>2, <2>4, <2>5
<1>8. ASSUME NEW n \in 1..Len(mem.key), Find(mem, "spt", mem.key[n]) = n, Delete(n)
      PROVE  TreesInv'
  <2>1. n \in T["spt"]
    <3>1. mem.key \in [1..N -> Nat]
      BY <1>3 DEF Memory
    <3>2. Len(mem.key) = N
      BY <1>3, <3>1, Length
    <3>3. mem.key[n] \in Nat
      BY <3>1, <3>2
    <3>4. n # NULL
      BY DEF NULL
    <3> QED
      BY <1>3, <1>8, <3>3, <3>4, Two, Finds
  <2>2. mem' = sp_delete(mem, "spt", n) /\ D!Delete("spt", mem.key[n])
    BY <1>8 DEF Delete
  <2>3. Deleted(N, V, mem, mem', T, "spt", n)
    BY <1>1, <2>1, <2>2, Two, DeleteWhole
  <2>4. /\ Whole(N, V, mem', With(T, "spt", T["spt"] \ {n}))
        /\ \A x \in (1..N) \ {n} : mem'.key[x] = mem.key[x] /\ mem'.data[x] = mem.data[x]
    BY <2>3 DEF Deleted
  <2>5. Stay(mem.key, mem.data, T["spt"] \ {n}, mem'.key, mem'.data)
    BY <1>3, <2>4 DEF Stay
  <2>6. Kept(mem'.key, mem'.data, T["spt"] \ {n}, DeleteF(dict["spt"], mem.key[n]))
    BY <1>1, <1>3, <2>1, <2>5, KeptDelete
  <2>7. /\ dict'["spt"] = DeleteF(dict["spt"], mem.key[n]) /\ dict'["got"] = dict["got"]
        /\ dict' = [q \in AllTrees |-> dict'[q]]
    BY <1>1, <2>2, DictDelete
  <2> QED
    BY <1>4, <2>4, <2>6, <2>7
<1>9. ASSUME Null PROVE TreesInv'
  <2>1. mem' = sp_null(mem, "spt") /\ D!Clear("spt")
    BY <1>9 DEF Null
  <2>2. Nulled(N, V, mem, mem', T, "spt")
    BY <1>1, <2>1, Two, NullWhole
  <2>3. Whole(N, V, mem', With(T, "spt", {}))
    BY <2>2 DEF Nulled
  <2>4. /\ dict'["spt"] = EmptyF /\ dict'["got"] = dict["got"]
        /\ dict' = [q \in AllTrees |-> dict'[q]]
    BY <1>1, <2>1, Two, DictClear
  <2>5. Kept(mem'.key, mem'.data, {}, dict'["spt"])
    BY <2>4, KeptNone
  <2> QED
    BY <1>4, <2>3, <2>4, <2>5
<1> QED
  BY <1>6, <1>7, <1>8, <1>9 DEF Splays

\* The chain of a name, and its symbol in it.
ChainIs(T, m, f, s, n, c, found) ==
    /\ IF n = NULL THEN c = <<>>
       ELSE n \in T["spt"] /\ m.key[n] = Crc(s) /\ c = m.data[n] /\ c # <<>>
    /\ s \notin DOMAIN f => found = {}
    /\ s \in DOMAIN f => /\ n # NULL
                         /\ \E i \in 1..Len(c) : found = {i} /\ Min({i}) = i /\ c[i].name = s

\* A name has a symbol exactly when its dictionary has it, and then one.
LEMMA ChainFacts ==
  ASSUME NEW N, NEW V, NEW T, Whole(N, V, mem, T), NEW f,
         SymbolsKept(mem.key, mem.data, T["spt"], f), NEW s \in Names
  PROVE  ChainIs(T, mem, f, s, Find(mem, "spt", Crc(s)), Chain(s), Found(s))
<1> DEFINE n == Find(mem, "spt", Crc(s))
<1>1. /\ N \in Nat /\ mem \in Memory(N, V) /\ T["spt"] \in SUBSET (1..N)
      /\ Holds(mem, "spt", T["spt"]) /\ Crc(s) \in Nat
  BY Two, TreesAssumption DEF Whole
<1>2. \/ n \in T["spt"] /\ mem.key[n] = Crc(s)
      \/ n = NULL /\ \A x \in T["spt"] : mem.key[x] # Crc(s)
  BY <1>1, Two, Finds
<1>3. Chain(s) = IF n = NULL THEN <<>> ELSE mem.data[n]
  BY DEF Chain
<1>4. \A x \in T["spt"] : x # NULL
  BY <1>1 DEF NULL
<1>5. /\ \A x \in T["spt"] : Listed(mem.key[x], mem.data[x], f)
      /\ \A t \in DOMAIN f : \E x \in T["spt"] : \E i \in 1..Len(mem.data[x]) :
            mem.data[x][i].name = t
  BY DEF SymbolsKept
<1> DEFINE c == Chain(s)
           F == Found(s)
<1>6. F = {i \in DOMAIN c : c[i].name = s}
  BY DEF Found
<1> HIDE DEF n, c, F
<1>7. IF n = NULL THEN c = <<>>
      ELSE n \in T["spt"] /\ mem.key[n] = Crc(s) /\ c = mem.data[n] /\ Listed(Crc(s), c, f)
  BY <1>2, <1>3, <1>5 DEF c
<1>8. DOMAIN c = 1..Len(c)
  <2>1. CASE n = NULL
    BY <1>7, <2>1
  <2>2. CASE n # NULL
    <3>1. PICK E : c \in Seq(E)
      BY <1>7, <2>2 DEF Listed
    <3> QED
      BY <3>1
  <2> QED
    BY <2>1, <2>2
<1>9. ASSUME s \notin DOMAIN f PROVE F = {}
  <2>1. \A i \in 1..Len(c) : c[i].name # s
    <3>1. CASE n = NULL
      <4>1. Len(c) = 0
        BY <1>7, <3>1
      <4> QED
        BY <4>1
    <3>2. CASE n # NULL
      BY <1>7, <1>9, <3>2 DEF Listed
    <3> QED
      BY <3>1, <3>2
  <2> QED
    BY <1>6, <1>8, <2>1
<1>10. ASSUME s \in DOMAIN f
       PROVE  n # NULL /\ \E i \in 1..Len(c) : F = {i} /\ Min({i}) = i /\ c[i].name = s
  <2>1. PICK x \in T["spt"] : \E i \in 1..Len(mem.data[x]) : mem.data[x][i].name = s
    BY <1>5, <1>10
  <2>2. PICK i \in 1..Len(mem.data[x]) : mem.data[x][i].name = s
    BY <2>1
  <2>3. Crc(s) = mem.key[x]
    BY <1>5, <2>2 DEF Listed
  <2>4. n # NULL
    BY <1>2, <1>4, <2>3
  <2>5. n = x
    <3>1. Keyed(mem.key, T["spt"])
      BY <1>1 DEF Holds, Tree
    <3> QED
      BY <1>7, <2>3, <2>4, <3>1 DEF Keyed
  <2>6. c = mem.data[x] /\ i \in 1..Len(c) /\ c[i].name = s
    BY <1>7, <2>2, <2>4, <2>5
  <2>7. \A j \in 1..Len(c) : c[j].name = s => j = i
    BY <1>7, <2>4, <2>6 DEF Listed
  <2>8. F = {i}
    BY <1>6, <1>8, <2>6, <2>7
  <2>9. Min({i}) = i
    <3>1. i \in Nat
      BY <2>2
    <3> QED
      BY <3>1 DEF Min
  <2> QED
    BY <2>4, <2>6, <2>8, <2>9
<1>11. n # NULL => c # <<>>
  BY <1>7 DEF Listed
<1>12. ChainIs(T, mem, f, s, n, c, F)
  BY <1>7, <1>9, <1>10, <1>11 DEF ChainIs
<1> QED
  BY <1>12 DEF n, c, F

\* The calls of spsymbol.c keep the invariant.
LEMMA SymbolsSound ==
  ASSUME NEW N, NEW V, NEW T, Sound(N, V, T, user, mem, entries, exporting, released, dict),
         SymbolTable, user' = user
  PROVE  TreesInv'
<1> DEFINE S == T["spt"]
           f == dict["spt"]
<1>1. /\ user = "symbols" /\ Whole(N, V, mem, T) /\ dict = [q \in AllTrees |-> dict[q]]
      /\ entries = Cardinality(DOMAIN f) /\ released = {} /\ exporting = FALSE
      /\ T["got"] = {} /\ dict["got"] = EmptyF /\ SymbolsKept(mem.key, mem.data, S, f)
  BY DEF SymbolTable, Sound, OfSymbols
<1>2. released' = {} /\ exporting' = FALSE /\ user' = "symbols"
  BY <1>1 DEF SymbolTable
<1>3. /\ N \in Nat /\ mem \in Memory(N, V) /\ T \in [AllTrees -> SUBSET (1..N)]
      /\ S \in SUBSET (1..N) /\ Holds(mem, "spt", S) /\ Keyed(mem.key, S)
  BY <1>1, Two DEF Whole, Holds, Tree
<1>4. IsFiniteSet(DOMAIN f) /\ Cardinality(DOMAIN f) \in Nat /\ f = [t \in DOMAIN f |-> f[t]]
  BY <1>1, FS_CardinalityType DEF SymbolsKept
<1> HIDE DEF S, f
<1>5. ASSUME NEW N2, NEW V2, NEW S2, Whole(N2, V2, mem', With(T, "spt", S2)),
             SymbolsKept(mem'.key, mem'.data, S2, dict'["spt"]), dict'["got"] = dict["got"],
             dict' = [q \in AllTrees |-> dict'[q]], entries' = Cardinality(DOMAIN dict'["spt"])
      PROVE  TreesInv'
  <2> DEFINE T2 == With(T, "spt", S2)
  <2>1. T2["spt"] = S2 /\ T2["got"] = {}
    BY <1>1, <1>3, Two DEF With
  <2> HIDE DEF T2
  <2>2. OfSymbols(T2, mem', entries', exporting', released', dict')
    BY <1>1, <1>2, <1>5, <2>1 DEF OfSymbols
  <2>3. Sound(N2, V2, T2, user', mem', entries', exporting', released', dict')
    BY <1>2, <1>5, <2>2 DEF Sound, T2
  <2> QED
    BY <2>3 DEF TreesInv
<1>6. With(T, "spt", S) = T
  BY <1>3 DEF With, S
<1>7. ASSUME NEW V2, Whole(N, V2, mem', T), Stay(mem.key, mem.data, S, mem'.key, mem'.data),
             dict' = dict, entries' = entries
      PROVE  TreesInv'
  <2>1. SymbolsKept(mem'.key, mem'.data, S, dict'["spt"])
    BY <1>1, <1>7, SymbolsSame DEF f
  <2> QED
    BY <1>1, <1>5, <1>6, <1>7, <2>1 DEF f
<1>8. \A s \in Names : Crc(s) \in Nat
  BY TreesAssumption
<1>9. ASSUME NEW s \in Names
      PROVE  LookedUp(N, V, mem, sp_lookup(mem, "spt", Crc(s)), T, "spt", Find(mem, "spt", Crc(s)))
  BY <1>1, <1>8, Two, LookupWhole
<1>10. ASSUME NEW s \in Names, symbol_lookup_db_mem(s) PROVE TreesInv'
  <2>1. mem' = sp_lookup(mem, "spt", Crc(s)) /\ dict' = dict /\ entries' = entries
    BY <1>10 DEF symbol_lookup_db_mem, D!Same
  <2>2. Whole(N, V, mem', T) /\ mem'.key = mem.key /\ mem'.data = mem.data
    BY <1>9, <2>1 DEF LookedUp
  <2>3. Stay(mem.key, mem.data, S, mem'.key, mem'.data)
    BY <2>2 DEF Stay
  <2> QED
    BY <1>7, <2>1, <2>2, <2>3
<1>11. ASSUME NEW s \in Names
       PROVE  ChainIs(T, mem, f, s, Find(mem, "spt", Crc(s)), Chain(s), Found(s))
  BY <1>1, ChainFacts DEF S
<1>12. ASSUME NEW s \in Names, symbol_db_mem(s) PROVE TreesInv'
  <2> DEFINE n == Find(mem, "spt", Crc(s))
             c == Chain(s)
             id == Unused
             a == Append(c, [id |-> id, name |-> s])
  <2>1. CASE Found(s) # {} /\ symbol_lookup_db_mem(s)
    BY <1>10, <2>1
  <2>2. CASE /\ Found(s) = {} /\ entries' = entries + 1
             /\ mem' = WithData(sp_install(mem, "spt", Crc(s)), a)
             /\ D!Put("spt", s, id)
    <3> HIDE DEF n, c, id
    <3>1. s \notin DOMAIN f
      BY <1>11, <2>2 DEF ChainIs
    <3>2. PICK N2, V2, x : PutIn(N, mem, N2, V2, mem', T, x, Crc(s), a)
      BY <1>1, <1>8, <2>2, PutWhole
    <3>3. Changes(mem.key, mem.data, S, mem'.key, mem'.data, x, Crc(s), a)
      BY <1>1, <1>8, <3>2, PutChanges DEF S
    <3>4. /\ Whole(N2, V2, mem', With(T, "spt", S \cup {x}))
          /\ IF n # NULL THEN x = n /\ x \in S ELSE x \notin S
      BY <3>2 DEF PutIn, S, n
    <3>5. IF n = NULL THEN c = <<>> ELSE c = mem.data[n]
      BY <1>11 DEF ChainIs, n, c
    <3>6. ChainOf(mem.data, S, x, c)
      BY <3>4, <3>5 DEF ChainOf
    <3> HIDE DEF a
    <3>7. /\ SymbolsKept(mem'.key, mem'.data, S \cup {x}, PutF(f, s, id))
          /\ Cardinality(DOMAIN PutF(f, s, id)) = Cardinality(DOMAIN f) + 1
      <4>1. Changes(mem.key, mem.data, S, mem'.key, mem'.data, x, Crc(s),
                    Append(c, [id |-> id, name |-> s]))
        BY <3>3 DEF a
      <4> QED
        BY <1>1, <3>1, <3>6, <4>1, SymbolsPut
    <3>8. /\ dict'["spt"] = PutF(f, s, id) /\ dict'["got"] = dict["got"]
          /\ dict' = [q \in AllTrees |-> dict'[q]]
      BY <1>1, <2>2, DictPut DEF f
    <3> QED
      BY <1>1, <1>5, <2>2, <3>4, <3>7, <3>8
  <2> QED
    BY <1>12, <2>1, <2>2 DEF symbol_db_mem
<1>13. ASSUME NEW s \in Names, symbol_free_db_mem(s) PROVE TreesInv'
  <2> DEFINE n == Find(mem, "spt", Crc(s))
             c == Chain(s)
             left == IF Found(s) = {} THEN c ELSE Without(c, Min(Found(s)))
             found == sp_lookup(mem, "spt", Crc(s))
  <2>1. /\ mem' = IF c = <<>> THEN found
                  ELSE IF left = <<>> THEN sp_delete(found, "spt", found.root["spt"])
                  ELSE WithData(found, left)
        /\ entries' = entries - Cardinality(Found(s))
        /\ D!Delete("spt", s)
    BY <1>13 DEF symbol_free_db_mem
  <2>2. /\ dict'["spt"] = DeleteF(f, s) /\ dict'["got"] = dict["got"]
        /\ dict' = [q \in AllTrees |-> dict'[q]]
    BY <1>1, <2>1, DictDelete DEF f
  <2>3. /\ IF n = NULL THEN c = <<>> ELSE n \in S /\ c = mem.data[n] /\ c # <<>>
        /\ s \notin DOMAIN f => Found(s) = {}
        /\ s \in DOMAIN f =>
              /\ n # NULL
              /\ \E i \in 1..Len(c) : Found(s) = {i} /\ Min({i}) = i /\ c[i].name = s
    BY <1>11 DEF ChainIs, S
  <2>4. LookedUp(N, V, mem, found, T, "spt", n)
    BY <1>9
  <2> HIDE DEF n, c, left, found
  <2>5. /\ Whole(N, V, found, T) /\ found.key = mem.key /\ found.data = mem.data
        /\ n # NULL => n \in S /\ found.root["spt"] = n
    BY <2>4 DEF LookedUp, S
  <2>6. n # NULL => DataSet(N, V \cup {left}, found, WithData(found, left), T, n, left)
    BY <1>3, <2>5, DataWhole
  <2>7. CASE s \notin DOMAIN f
    <3>1. left = c /\ entries' = entries
      <4>1. Cardinality({}) = 0
        BY FS_EmptySet
      <4>2. Found(s) = {}
        BY <2>3, <2>7
      <4>3. left = c
        BY <4>2 DEF left
      <4>4. entries' = entries - 0
        BY <2>1, <4>1, <4>2
      <4> QED
        BY <1>1, <1>4, <4>3, <4>4
    <3>2. dict' = dict
      <4>1. DeleteF(f, s) = f
        BY <1>4, <2>7 DEF DeleteF
      <4>2. \A q \in AllTrees : dict'[q] = dict[q]
        BY <2>2, <4>1, Two DEF f
      <4> QED
        BY <1>1, <2>2, <4>2
    <3>3. CASE n = NULL
      <4>1. mem' = found
        BY <2>1, <2>3, <3>3
      <4> QED
        BY <1>7, <2>5, <3>1, <3>2, <4>1 DEF Stay
    <3>4. CASE n # NULL
      <4>1. mem' = WithData(found, left)
        BY <2>1, <2>3, <3>1, <3>4
      <4>2. /\ Whole(N, V \cup {left}, mem', T) /\ mem'.key = mem.key
            /\ \A x \in 1..N : mem'.data[x] = IF x = n THEN left ELSE mem.data[x]
        BY <2>5, <2>6, <3>4, <4>1 DEF DataSet
      <4>3. Stay(mem.key, mem.data, S, mem'.key, mem'.data)
        BY <1>3, <2>3, <3>1, <3>4, <4>2 DEF Stay, S
      <4> QED
        BY <1>7, <3>1, <3>2, <4>2, <4>3
    <3> QED
      BY <3>3, <3>4
  <2>8. CASE s \in DOMAIN f
    <3>1. PICK i \in 1..Len(c) : Found(s) = {i} /\ Min({i}) = i /\ c[i].name = s
      BY <2>3, <2>8
    <3>2. n # NULL /\ n \in S /\ c = mem.data[n] /\ c # <<>>
      BY <2>3, <2>8
    <3>3. left = Without(c, i) /\ entries' = entries - 1
      <4>1. Cardinality({i}) = 1 /\ {i} # {}
        BY FS_Singleton
      <4> QED
        BY <2>1, <3>1, <4>1 DEF left
    <3>4. ASSUME NEW S2, LessSymbol(mem.key, mem.data, S, mem'.key, mem'.data, S2, n, i)
          PROVE  /\ SymbolsKept(mem'.key, mem'.data, S2, dict'["spt"])
                 /\ entries' = Cardinality(DOMAIN dict'["spt"])
      <4>1. i \in 1..Len(mem.data[n]) /\ s = mem.data[n][i].name
        BY <3>1, <3>2
      <4>2. /\ SymbolsKept(mem'.key, mem'.data, S2, DeleteF(f, s))
            /\ Cardinality(DOMAIN DeleteF(f, s)) = Cardinality(DOMAIN f) - 1
        BY <1>1, <1>3, <3>2, <3>4, <4>1, SymbolsDelete
      <4> QED
        BY <1>1, <2>2, <3>3, <4>2
    <3>5. CASE left = <<>>
      <4>1. mem' = sp_delete(found, "spt", n)
        BY <2>1, <2>5, <3>2, <3>5
      <4>2. Deleted(N, V, found, mem', T, "spt", n)
        BY <2>5, <3>2, <4>1, Two, DeleteWhole DEF S
      <4>3. /\ Whole(N, V, mem', With(T, "spt", S \ {n}))
            /\ \A x \in (1..N) \ {n} : mem'.key[x] = mem.key[x] /\ mem'.data[x] = mem.data[x]
        BY <2>5, <4>2 DEF Deleted, S
      <4>4. LessSymbol(mem.key, mem.data, S, mem'.key, mem'.data, S \ {n}, n, i)
        BY <1>3, <3>2, <3>3, <3>5, <4>3 DEF LessSymbol, S
      <4> QED
        BY <1>5, <2>2, <3>4, <4>3, <4>4
    <3>6. CASE left # <<>>
      <4>1. mem' = WithData(found, left)
        BY <2>1, <3>2, <3>6
      <4>2. /\ Whole(N, V \cup {left}, mem', T) /\ mem'.key = mem.key
            /\ \A x \in 1..N : mem'.data[x] = IF x = n THEN left ELSE mem.data[x]
        BY <2>5, <2>6, <3>2, <4>1 DEF DataSet
      <4>3. LessSymbol(mem.key, mem.data, S, mem'.key, mem'.data, S, n, i)
        BY <1>3, <3>2, <3>3, <3>6, <4>2 DEF LessSymbol, S
      <4> QED
        BY <1>5, <1>6, <2>2, <3>4, <4>2, <4>3
    <3> QED
      BY <3>5, <3>6
  <2> QED
    BY <2>7, <2>8
<1>14. ASSUME symbol_null_db PROVE TreesInv'
  <2>1. /\ entries' = entries - Symbols(sp_scan(mem, "spt")) /\ mem' = sp_null(mem, "spt")
        /\ D!Clear("spt")
    BY <1>14 DEF symbol_null_db
  <2>2. Scanned(S, sp_scan(mem, "spt"))
    BY <1>3, Two, ScanGoes
  <2>3. Symbols(sp_scan(mem, "spt")) = Cardinality(DOMAIN f)
    BY <1>1, <1>3, <2>2, SymbolsCounted DEF Symbols
  <2>4. entries' = 0
    BY <1>1, <1>4, <2>1, <2>3
  <2>5. Nulled(N, V, mem, mem', T, "spt")
    BY <1>1, <2>1, Two, NullWhole
  <2>6. Whole(N, V, mem', With(T, "spt", {}))
    BY <2>5 DEF Nulled
  <2>7. /\ dict'["spt"] = EmptyF /\ dict'["got"] = dict["got"]
        /\ dict' = [q \in AllTrees |-> dict'[q]]
    BY <1>1, <2>1, Two, DictClear
  <2>8. SymbolsKept(mem'.key, mem'.data, {}, dict'["spt"])
        /\ entries' = Cardinality(DOMAIN dict'["spt"])
    BY <2>4, <2>7, SymbolsNone
  <2> QED
    BY <1>5, <2>6, <2>7, <2>8
<1> QED
  BY <1>10, <1>12, <1>13, <1>14 DEF SymbolTable

\* The state of the cache after a step.
CacheNext == \E N, V, T : /\ Whole(N, V, mem', T)
                          /\ OfCache(T, mem', entries', exporting', dict')

\* A report is merged into what is known of the ship.
LEMMA ReportNext ==
  ASSUME NEW N, NEW V, NEW T, Whole(N, V, mem, T), OfCache(T, mem, entries, exporting, dict),
         dict = [q \in AllTrees |-> dict[q]], NEW mmsi \in Mmsis, NEW new, Report(mmsi, new)
  PROVE  CacheNext /\ exporting' = exporting /\ dict' = [q \in AllTrees |-> dict'[q]]
<1> DEFINE S == T["spt"]
           G == T["got"]
           f == dict["spt"]
           n == Find(mem, "spt", mmsi)
           v == Overwritten(cache_get(mmsi), new)
<1>1. /\ N \in Nat /\ mem \in Memory(N, V) /\ T \in [AllTrees -> SUBSET (1..N)]
      /\ S \in SUBSET (1..N) /\ Holds(mem, "spt", S) /\ mmsi \in Nat
      /\ IsFiniteSet(S) /\ Cardinality(S) \in Nat /\ Cardinality(G) \in Nat
  <2>1. /\ N \in Nat /\ mem \in Memory(N, V) /\ T \in [AllTrees -> SUBSET (1..N)]
        /\ Holds(mem, "spt", S) /\ S \in SUBSET (1..N) /\ G \in SUBSET (1..N)
    BY Two DEF Whole
  <2> HIDE DEF S, G
  <2> QED
    BY <2>1, AtMost, TreesAssumption
<1>2. /\ exporting = FALSE => G = {}
      /\ entries = Cardinality(S) + Cardinality(G)
      /\ Kept(mem.key, mem.data, S, f) /\ Kept(mem.key, mem.data, G, dict["got"])
  BY DEF OfCache
<1>3. \/ n \in S /\ mem.key[n] = mmsi
      \/ n = NULL /\ \A x \in S : mem.key[x] # mmsi
  BY <1>1, Two, Finds
<1>4. n \in S => n # NULL
  BY <1>1 DEF NULL
<1>5. cache_get(mmsi) = IF mmsi \in DOMAIN f THEN f[mmsi] ELSE NewEntry
  <2>1. cache_get(mmsi) = IF n = NULL THEN NewEntry ELSE mem.data[n]
    BY DEF cache_get
  <2>2. DOMAIN f = {mem.key[x] : x \in S} /\ \A x \in S : f[mem.key[x]] = mem.data[x]
    BY <1>2 DEF Kept
  <2> HIDE DEF n, S, f
  <2>3. CASE n \in S
    <3>1. mmsi \in DOMAIN f /\ f[mmsi] = mem.data[n]
      BY <1>3, <1>4, <2>2, <2>3
    <3> QED
      BY <1>4, <2>1, <2>3, <3>1
  <2>4. CASE n = NULL
    <3>1. mmsi \notin DOMAIN f
      BY <1>3, <1>4, <2>2, <2>4
    <3> QED
      BY <2>1, <2>4, <3>1
  <2> QED
    BY <1>3, <2>3, <2>4
<1>6. /\ mem' = WithData(sp_install(mem, "spt", mmsi), v)
      /\ entries' = entries + (IF n = NULL THEN 1 ELSE 0)
      /\ D!Put("spt", mmsi, v) /\ exporting' = exporting
  BY <1>5 DEF Report
<1> HIDE DEF v, S, G, f, n
<1>7. PICK N2, V2, x : PutIn(N, mem, N2, V2, mem', T, x, mmsi, v)
  BY <1>1, <1>6, PutWhole
<1>8. /\ Changes(mem.key, mem.data, S, mem'.key, mem'.data, x, mmsi, v)
      /\ Stay(mem.key, mem.data, G, mem'.key, mem'.data)
  BY <1>1, <1>7, PutChanges DEF S, G
<1>9. /\ Whole(N2, V2, mem', With(T, "spt", S \cup {x}))
      /\ IF n # NULL THEN x = n /\ x \in S ELSE x \notin S
  BY <1>7 DEF PutIn, S, n
<1>10. Kept(mem'.key, mem'.data, S \cup {x}, PutF(f, mmsi, v))
  BY <1>2, <1>8, KeptPut
<1>11. Kept(mem'.key, mem'.data, G, dict["got"])
  BY <1>2, <1>8, KeptSame
<1>12. /\ dict'["spt"] = PutF(f, mmsi, v) /\ dict'["got"] = dict["got"]
       /\ dict' = [q \in AllTrees |-> dict'[q]]
  BY <1>6, DictPut DEF f
<1>13. entries' = Cardinality(S \cup {x}) + Cardinality(G)
  <2>1. CASE n # NULL
    <3>1. S \cup {x} = S
      BY <1>9, <2>1
    <3>2. entries' = entries + 0 /\ entries \in Int
      BY <1>1, <1>2, <1>6, <2>1
    <3>3. entries' = entries
      BY <3>2
    <3> QED
      BY <1>2, <3>1, <3>3
  <2>2. CASE n = NULL
    <3>1. Cardinality(S \cup {x}) = Cardinality(S) + 1
      BY <1>1, <1>9, <2>2, FS_AddElement
    <3> QED
      BY <1>1, <1>2, <1>6, <2>2, <3>1
  <2> QED
    BY <2>1, <2>2
<1> DEFINE T2 == With(T, "spt", S \cup {x})
<1>14. T2["spt"] = S \cup {x} /\ T2["got"] = G
  BY <1>1, Two DEF With, G
<1> HIDE DEF T2
<1>15. OfCache(T2, mem', entries', exporting', dict')
  BY <1>2, <1>6, <1>10, <1>11, <1>12, <1>13, <1>14 DEF OfCache
<1> QED
  BY <1>6, <1>9, <1>12, <1>15 DEF CacheNext, T2

\* The tree q of a cache has been emptied.
LEMMA EmptiedNext ==
  ASSUME NEW N, NEW V, NEW T, Whole(N, V, mem, T), OfCache(T, mem, entries, exporting, dict),
         dict = [q \in AllTrees |-> dict[q]], NEW p \in AllTrees,
         mem' = cache_free(p).m, entries' = entries - cache_free(p).freed, D!Clear(p),
         exporting' = FALSE => p = "got" \/ T["got"] = {}
  PROVE  /\ Whole(N, V, mem', With(T, p, {}))
         /\ OfCache(With(T, p, {}), mem', entries', exporting', dict')
         /\ dict' = [q \in AllTrees |-> dict'[q]]
<1> DEFINE r == cache_free(p)
           T2 == With(T, p, {})
<1>1. AllFreed(N, V, mem, r, T, p)
  <2>1. r = FreeLoop(mem, p)
    BY DEF cache_free, FreeLoop
  <2> QED
    BY <2>1, FreeAll
<1>2. /\ T \in [AllTrees -> SUBSET (1..N)] /\ N \in Nat
      /\ \A q \in AllTrees : Cardinality(T[q]) \in Nat
  <2>1. T \in [AllTrees -> SUBSET (1..N)] /\ N \in Nat
    BY DEF Whole
  <2>2. \A q \in AllTrees : T[q] \in SUBSET (1..N)
    BY <2>1
  <2> QED
    BY <2>1, <2>2, AtMost
<1>3. T2[p] = {} /\ \A t \in AllTrees \ {p} : T2[t] = T[t]
  BY <1>2 DEF With
<1> HIDE DEF r, T2
<1>4. /\ Whole(N, V, mem', T2) /\ r.freed = Cardinality(T[p])
      /\ \A t \in AllTrees \ {p} : Stay(mem.key, mem.data, T[t], mem'.key, mem'.data)
  BY <1>1 DEF AllFreed, Stay, r, T2
<1>5. /\ exporting = FALSE => T["got"] = {}
      /\ entries = Cardinality(T["spt"]) + Cardinality(T["got"])
      /\ \A q \in AllTrees : Kept(mem.key, mem.data, T[q], dict[q])
  BY Two DEF OfCache
<1>6. /\ dict'[p] = EmptyF /\ \A q \in AllTrees \ {p} : dict'[q] = dict[q]
      /\ dict' = [q \in AllTrees |-> dict'[q]]
  BY DictClear
<1>7. \A q \in AllTrees : Kept(mem'.key, mem'.data, T2[q], dict'[q])
  <2> SUFFICES ASSUME NEW q \in AllTrees PROVE Kept(mem'.key, mem'.data, T2[q], dict'[q])
    OBVIOUS
  <2>1. CASE q = p
    BY <1>3, <1>6, <2>1, KeptNone
  <2>2. CASE q # p
    <3>1. /\ T2[q] = T[q] /\ dict'[q] = dict[q] /\ Kept(mem.key, mem.data, T[q], dict[q])
          /\ Stay(mem.key, mem.data, T[q], mem'.key, mem'.data)
      BY <1>3, <1>4, <1>5, <1>6, <2>2
    <3>2. Kept(mem'.key, mem'.data, T[q], dict[q])
      BY <3>1, KeptSame
    <3> QED
      BY <3>1, <3>2
  <2> QED
    BY <2>1, <2>2
<1>8. entries' = Cardinality(T2["spt"]) + Cardinality(T2["got"])
  <2>1. Cardinality({}) = 0
    BY FS_EmptySet
  <2>2. entries' = Cardinality(T["spt"]) + Cardinality(T["got"]) - Cardinality(T[p])
    <3>1. entries' = entries - r.freed
      BY DEF r
    <3>2. r.freed = Cardinality(T[p])
      BY <1>4
    <3>3. entries = Cardinality(T["spt"]) + Cardinality(T["got"])
      BY <1>5
    <3> QED
      BY <1>2, <3>1, <3>2, <3>3, Two
  <2>3. CASE p = "spt"
    <3>1. T2["spt"] = {} /\ T2["got"] = T["got"]
      BY <1>3, <2>3, Two
    <3> QED
      BY <1>2, <2>1, <2>2, <2>3, <3>1, Two
  <2>4. CASE p = "got"
    <3>1. T2["got"] = {} /\ T2["spt"] = T["spt"]
      BY <1>3, <2>4, Two
    <3> QED
      BY <1>2, <2>1, <2>2, <2>4, <3>1, Two
  <2> QED
    BY <2>3, <2>4, Two
<1>9. exporting' = FALSE => T2["got"] = {}
  BY <1>3, Two
<1>10. OfCache(T2, mem', entries', exporting', dict')
  BY <1>7, <1>8, <1>9, Two DEF OfCache
<1> QED
  BY <1>4, <1>6, <1>10 DEF T2

\* The calls of cache.c keep the invariant.
LEMMA CacheSound ==
  ASSUME NEW N, NEW V, NEW T, Sound(N, V, T, user, mem, entries, exporting, released, dict),
         Cache
  PROVE  TreesInv'
<1>1. /\ Whole(N, V, mem, T) /\ dict = [q \in AllTrees |-> dict[q]] /\ exporting \in BOOLEAN
      /\ \/ user = "cache" /\ released = {}
         \/ user = "ended" /\ T["spt"] = {} /\ released \cap T["got"] = {}
      /\ OfCache(T, mem, entries, exporting, dict)
  BY DEF Cache, Sound
<1>2. /\ N \in Nat /\ mem \in Memory(N, V) /\ T \in [AllTrees -> SUBSET (1..N)]
  BY <1>1 DEF Whole
<1>3. ASSUME CacheNext, user = "cache", user' = user, released' = released,
             exporting' \in BOOLEAN, dict' = [q \in AllTrees |-> dict'[q]]
      PROVE  TreesInv'
  <2>1. PICK N2, V2, T2 : /\ Whole(N2, V2, mem', T2)
                          /\ OfCache(T2, mem', entries', exporting', dict')
    BY <1>3 DEF CacheNext
  <2>2. user' = "cache" /\ released' = {}
    BY <1>1, <1>3
  <2>3. Sound(N2, V2, T2, user', mem', entries', exporting', released', dict')
    BY <1>3, <2>1, <2>2 DEF Sound
  <2> QED
    BY <2>3 DEF TreesInv
<1>4. ASSUME user = "cache", user' = user, released' = released,
             NEW mmsi \in Mmsis, NEW new, Report(mmsi, new)
      PROVE  TreesInv'
  <2>1. CacheNext /\ exporting' = exporting /\ dict' = [q \in AllTrees |-> dict'[q]]
    BY <1>1, <1>4, ReportNext
  <2> QED
    BY <1>1, <1>3, <1>4, <2>1
<1>5. ASSUME user = "cache", user' = user, released' = released, cache_rotate
      PROVE  TreesInv'
  <2>1. /\ exporting = FALSE /\ exporting' = TRUE /\ entries' = entries
        /\ mem' = Rotation(mem) /\ D!Move("spt", "got")
    BY <1>1, <1>5 DEF cache_rotate, Rotation
  <2>2. /\ T["got"] = {} /\ entries = Cardinality(T["spt"]) + Cardinality(T["got"])
        /\ Kept(mem.key, mem.data, T["spt"], dict["spt"])
    BY <1>1, <2>1 DEF OfCache
  <2>3. RotatedAs(N, V, mem, mem', T)
    BY <1>1, <2>1, <2>2, RotationWhole
  <2> DEFINE T2 == InGot(T)
  <2>4. T2["spt"] = {} /\ T2["got"] = T["spt"]
    BY Two DEF InGot
  <2> HIDE DEF T2
  <2>5. Whole(N, V, mem', T2) /\ mem'.key = mem.key /\ mem'.data = mem.data
    BY <2>3 DEF RotatedAs, T2
  <2>6. /\ dict'["spt"] = EmptyF /\ dict'["got"] = dict["spt"]
        /\ dict' = [q \in AllTrees |-> dict'[q]]
    BY <1>1, <2>1, DictMove
  <2>7. entries' = Cardinality(T2["spt"]) + Cardinality(T2["got"])
    <3>1. Cardinality({}) = 0
      BY FS_EmptySet
    <3>2. Cardinality(T["spt"]) \in Nat
      <4>1. T["spt"] \in SUBSET (1..N)
        BY <1>2, Two
      <4> QED
        BY <1>2, <4>1, AtMost
    <3> QED
      BY <2>1, <2>2, <2>4, <3>1, <3>2
  <2>8. /\ Kept(mem'.key, mem'.data, T2["spt"], dict'["spt"])
        /\ Kept(mem'.key, mem'.data, T2["got"], dict'["got"])
    BY <2>2, <2>4, <2>5, <2>6, KeptNone
  <2>9. OfCache(T2, mem', entries', exporting', dict')
    BY <2>1, <2>7, <2>8 DEF OfCache
  <2>10. CacheNext
    BY <2>5, <2>9 DEF CacheNext
  <2> QED
    BY <1>3, <1>5, <2>1, <2>6, <2>10
<1>6. ASSUME user' = user, cache_export PROVE TreesInv'
  <2>1. /\ mem' = cache_free("got").m /\ entries' = entries - cache_free("got").freed
        /\ exporting' = FALSE /\ D!Clear("got") /\ released' = released
    BY <1>6 DEF cache_export
  <2> DEFINE T2 == With(T, "got", {})
  <2>2. /\ Whole(N, V, mem', T2) /\ OfCache(T2, mem', entries', exporting', dict')
        /\ dict' = [q \in AllTrees |-> dict'[q]]
    BY <1>1, <2>1, Two, EmptiedNext
  <2>3. T2["got"] = {} /\ T2["spt"] = T["spt"]
    BY <1>2, Two DEF With
  <2> HIDE DEF T2
  <2>4. Sound(N, V, T2, user', mem', entries', exporting', released', dict')
    BY <1>1, <1>6, <2>1, <2>2, <2>3 DEF Sound
  <2> QED
    BY <2>4 DEF TreesInv
<1>7. ASSUME user = "cache", cache_deinit PROVE TreesInv'
  <2>1. /\ mem' = cache_free("spt").m /\ entries' = entries - cache_free("spt").freed
        /\ exporting' = exporting /\ D!Clear("spt") /\ released' = FreeBlocks(mem')
        /\ user' = "ended"
    BY <1>7 DEF cache_deinit
  <2>2. exporting = FALSE => T["got"] = {}
    BY <1>1 DEF OfCache
  <2> DEFINE T2 == With(T, "spt", {})
  <2>3. /\ Whole(N, V, mem', T2) /\ OfCache(T2, mem', entries', exporting', dict')
        /\ dict' = [q \in AllTrees |-> dict'[q]]
    BY <1>1, <2>1, <2>2, Two, EmptiedNext
  <2>4. T2["spt"] = {} /\ T2["got"] = T["got"]
    BY <1>2, Two DEF With
  <2> HIDE DEF T2
  <2>5. released' = Free(N, T2)
    <3>1. mem' \in Memory(N, V) /\ FreeList(mem', Free(N, T2)) /\ Free(N, T2) \in SUBSET (1..N)
      BY <2>3 DEF Whole, Free
    <3> QED
      BY <1>2, <2>1, <3>1, FreeBlocksAll
  <2>6. released' \cap T2["got"] = {}
    BY <2>5 DEF Free
  <2>7. Sound(N, V, T2, user', mem', entries', exporting', released', dict')
    BY <1>1, <2>1, <2>3, <2>4, <2>6 DEF Sound
  <2> QED
    BY <2>7 DEF TreesInv
<1>8. ASSUME user = "cache", user' = user, released' = released, NEW mmsi \in Mmsis,
             NEW v \in Reports,
             \/ cache_position(mmsi, v) \/ cache_vesseldata(mmsi, v)
             \/ cache_vesseldatab(mmsi, v) \/ cache_vesseldatabb(mmsi, v)
             \/ cache_vesselname(mmsi, v) \/ cache_vessel_persons(mmsi, v)
      PROVE  TreesInv'
  <2>1. \E new : Report(mmsi, new)
    BY <1>8 DEF cache_position, cache_vesseldata, cache_vesseldatab, cache_vesseldatabb,
                cache_vesselname, cache_vessel_persons
  <2> QED
    BY <1>4, <1>8, <2>1
<1> QED
  BY <1>5, <1>6, <1>7, <1>8 DEF Cache

\* So does a step that does nothing.
LEMMA StutterSound ==
  ASSUME TreesInv, UNCHANGED vars
  PROVE  TreesInv'
<1>1. PICK N, V, T : Sound(N, V, T, user, mem, entries, exporting, released, dict)
  BY DEF TreesInv
<1>2. /\ user' = user /\ mem' = mem /\ entries' = entries /\ exporting' = exporting
      /\ released' = released /\ dict' = dict
  BY DEF vars
<1>3. Sound(N, V, T, user', mem', entries', exporting', released', dict')
  BY <1>1, <1>2
<1> QED
  BY <1>3 DEF TreesInv

\* In every state both trees are trees, all other blocks are in the free list, and
\* the trees hold what the dictionaries say (splay.c, spsymbol.c and cache.c).
THEOREM TreesInductive == Spec => []TreesInv
<1>1. TreesInv /\ [Next]_vars => TreesInv'
  <2> SUFFICES ASSUME TreesInv, [Next]_vars PROVE TreesInv'
    OBVIOUS
  <2>1. PICK N, V, T : Sound(N, V, T, user, mem, entries, exporting, released, dict)
    BY DEF TreesInv
  <2>2. CASE Splays /\ UNCHANGED user
    BY <2>1, <2>2, SplaysSound
  <2>3. CASE SymbolTable /\ UNCHANGED user
    BY <2>1, <2>3, SymbolsSound
  <2>4. CASE Cache
    BY <2>1, <2>4, CacheSound
  <2>5. CASE UNCHANGED vars
    BY <2>5, StutterSound
  <2> QED
    BY <2>2, <2>3, <2>4, <2>5 DEF Next
<1> QED
  BY InitSound, <1>1, PTL DEF Spec

\* The blocks that are found by their keys are those of the trees.
LEMMA BlocksAre ==
  ASSUME NEW N, NEW V, NEW T, Whole(N, V, mem, T)
  PROVE  /\ Blocks("spt") = T["spt"] /\ Blocks("got") = T["got"]
         /\ Len(mem.key) = N /\ FreeBlocks(mem) = Free(N, T)
<1>1. /\ N \in Nat /\ mem \in Memory(N, V) /\ T \in [AllTrees -> SUBSET (1..N)]
      /\ \A q \in AllTrees : Holds(mem, q, T[q])
      /\ FreeList(mem, Free(N, T)) /\ Free(N, T) \in SUBSET (1..N)
  BY DEF Whole, Free
<1>2. mem.key \in [1..N -> Nat]
  BY <1>1 DEF Memory
<1>3. Len(mem.key) = N
  BY <1>1, <1>2, Length
<1>4. FreeBlocks(mem) = Free(N, T)
  BY <1>1, FreeBlocksAll
<1>5. \A n \in 1..N : n # NULL
  BY DEF NULL
<1>6. ASSUME NEW q \in AllTrees PROVE Blocks(q) = T[q]
  <2> DEFINE S == T[q]
  <2>1. S \in SUBSET (1..N) /\ Holds(mem, q, S)
    BY <1>1
  <2>2. Blocks(q) = {n \in 1..N : Find(mem, q, mem.key[n]) = n}
    BY <1>3 DEF Blocks
  <2> HIDE DEF S
  <2>3. Keyed(mem.key, S)
    BY <2>1 DEF Holds, Tree
  <2>4. \A n \in 1..N : Find(mem, q, mem.key[n]) = n <=> n \in S
    <3> SUFFICES ASSUME NEW n \in 1..N PROVE Find(mem, q, mem.key[n]) = n <=> n \in S
      OBVIOUS
    <3> DEFINE x == Find(mem, q, mem.key[n])
    <3>1. mem.key[n] \in Nat
      BY <1>2
    <3>2. \/ x \in S /\ mem.key[x] = mem.key[n]
          \/ x = NULL /\ \A y \in S : mem.key[y] # mem.key[n]
      BY <1>1, <2>1, <3>1, Finds
    <3> HIDE DEF x
    <3>3. x = n <=> n \in S
      BY <1>5, <2>3, <3>2 DEF Keyed
    <3> QED
      BY <3>3 DEF x
  <2>5. Blocks(q) = S
    BY <2>1, <2>2, <2>4
  <2> QED
    BY <2>5 DEF S
<1> QED
  BY <1>3, <1>4, <1>6, Two

\* The links of a tree.
LEMMA LinksRight ==
  ASSUME NEW m, NEW q, NEW S, Holds(m, q, S)
  PROVE  /\ m.root[q] # NULL => m.u[m.root[q]] = NULL
         /\ \A n \in S :
               /\ m.u[n] # NULL => m.u[n] \in S
               /\ \A d \in Sides :
                     m.kid[d][n] # NULL => /\ m.kid[d][n] \in S /\ m.u[m.kid[d][n]] = n
                                           /\ On(m.key, d, n, m.kid[d][n])
<1>1. PICK b : Tree(m.kid, m.u, m.key, S, b, m.root[q])
  BY DEF Holds
<1>2. m.root[q] # NULL => m.u[m.root[q]] = NULL
  BY <1>1 DEF Tree
<1>3. \A n \in S : m.u[n] # NULL => m.u[n] \in S
  BY <1>1, Parents
<1>4. ASSUME NEW n \in S, NEW d \in Sides, m.kid[d][n] # NULL
      PROVE  m.kid[d][n] \in S /\ m.u[m.kid[d][n]] = n /\ On(m.key, d, n, m.kid[d][n])
  <2>1. KidOf(m.kid, m.u, m.key, S, b, n, d)
    BY <1>1 DEF Tree
  <2>2. m.kid[d][n] \in S /\ m.u[m.kid[d][n]] = n
    BY <1>4, <2>1 DEF KidOf
  <2>3. On(m.key, d, n, m.kid[d][n])
    BY <1>1, <1>4, KidBelow
  <2> QED
    BY <2>2, <2>3
<1> QED
  BY <1>2, <1>3, <1>4

\* The invariant says that the trees are well-formed.
LEMMA WellFormedFollows == TreesInv => TreesWellFormed
<1> SUFFICES ASSUME NEW N, NEW V, NEW T,
                    Sound(N, V, T, user, mem, entries, exporting, released, dict)
             PROVE  TreesWellFormed
  BY DEF TreesInv
<1>1. Whole(N, V, mem, T)
  BY DEF Sound
<1>2. /\ Blocks("spt") = T["spt"] /\ Blocks("got") = T["got"]
      /\ Len(mem.key) = N /\ FreeBlocks(mem) = Free(N, T)
  BY <1>1, BlocksAre
<1>3. /\ T \in [AllTrees -> SUBSET (1..N)] /\ T["spt"] \cap T["got"] = {}
      /\ \A q \in AllTrees : Holds(mem, q, T[q]) /\ mem.eltscnt[q] = Cardinality(T[q])
  BY <1>1 DEF Whole
<1>4. \A q \in AllTrees : Blocks(q) = T[q]
  BY <1>2, Two
<1>5. InTrees = T["spt"] \cup T["got"]
  BY <1>2 DEF InTrees
<1>6. InTrees \cap released = {}
  BY <1>5 DEF Sound, OfSplay, OfSymbols
<1>7. InTrees \cup FreeBlocks(mem) = 1..Len(mem.key) /\ InTrees \cap FreeBlocks(mem) = {}
  <2>1. T["spt"] \in SUBSET (1..N) /\ T["got"] \in SUBSET (1..N)
    BY <1>3, Two
  <2> QED
    BY <1>2, <1>5, <2>1 DEF Free
<1>8. ASSUME NEW q \in AllTrees
      PROVE  /\ Cardinality(Blocks(q)) = mem.eltscnt[q]
             /\ mem.root[q] # NULL => mem.u[mem.root[q]] = NULL
             /\ \A n \in Blocks(q) :
                   /\ mem.u[n] # NULL => mem.u[n] \in Blocks(q)
                   /\ \A d \in Sides :
                         LET c == mem.kid[d][n]
                         IN  c # NULL => /\ c \in Blocks(q) /\ mem.u[c] = n
                                         /\ IF d = "l" THEN mem.key[c] < mem.key[n]
                                                      ELSE mem.key[n] < mem.key[c]
  <2> DEFINE S == Blocks(q)
  <2>1. Cardinality(S) = mem.eltscnt[q] /\ Holds(mem, q, S)
    BY <1>3, <1>4
  <2> HIDE DEF S
  <2>2. /\ mem.root[q] # NULL => mem.u[mem.root[q]] = NULL
        /\ \A n \in S :
              /\ mem.u[n] # NULL => mem.u[n] \in S
              /\ \A d \in Sides :
                    mem.kid[d][n] # NULL => /\ mem.kid[d][n] \in S /\ mem.u[mem.kid[d][n]] = n
                                            /\ On(mem.key, d, n, mem.kid[d][n])
    BY <2>1, LinksRight
  <2>3. \A n \in S, d \in Sides : mem.kid[d][n] # NULL =>
           IF d = "l" THEN mem.key[mem.kid[d][n]] < mem.key[n]
                      ELSE mem.key[n] < mem.key[mem.kid[d][n]]
    BY <2>2 DEF On
  <2> QED
    BY <2>1, <2>2, <2>3 DEF S
<1>9. Blocks("spt") \cap Blocks("got") = {}
  BY <1>2, <1>3
<1>10. InTrees \cap (FreeBlocks(mem) \cup released) = {}
  BY <1>6, <1>7
<1> QED
  BY <1>7, <1>8, <1>9, <1>10 DEF TreesWellFormed

\* What a tree of blocks or entries holds.
LEMMA KeptContents ==
  ASSUME NEW N, NEW V, NEW T, Whole(N, V, mem, T), NEW q \in AllTrees, user # "symbols",
         NEW f, Kept(mem.key, mem.data, T[q], f)
  PROVE  Contents(q) = f
<1> DEFINE S == T[q]
           K == {mem.key[n] : n \in S}
<1>1. N \in Nat /\ mem \in Memory(N, V) /\ S \in SUBSET (1..N) /\ Holds(mem, q, S)
  BY DEF Whole
<1>2. Keyed(mem.key, S) /\ mem.key \in [1..N -> Nat]
  BY <1>1 DEF Holds, Tree, Memory
<1>3. Blocks(q) = S
  BY BlocksAre, Two
<1>4. Contents(q) = [k \in K |-> mem.data[Find(mem, q, k)]]
  BY <1>3 DEF Contents
<1>5. f = [k \in K |-> f[k]] /\ \A n \in S : f[mem.key[n]] = mem.data[n]
  BY DEF Kept
<1>6. \A n \in S : n # NULL
  BY <1>2 DEF Keyed
<1>7. ASSUME NEW k \in K PROVE mem.data[Find(mem, q, k)] = f[k]
  <2>1. PICK n \in S : k = mem.key[n]
    OBVIOUS
  <2> HIDE DEF K, S
  <2>2. k \in Nat
    BY <1>1, <1>2, <2>1
  <2>3. Find(mem, q, k) = n
    BY <1>1, <1>2, <2>1, <2>2, Finds DEF Keyed
  <2> QED
    BY <1>5, <2>1, <2>3
<1> HIDE DEF K
<1> QED
  BY <1>4, <1>5, <1>7

\* What the symbol table holds.
LEMMA SymbolContents ==
  ASSUME NEW N, NEW V, NEW T, Whole(N, V, mem, T), user = "symbols", NEW f,
         SymbolsKept(mem.key, mem.data, T["spt"], f)
  PROVE  Contents("spt") = f /\ Contents("got") = EmptyF
<1> DEFINE K == {s \in Names : Found(s) # {}}
<1>1. Contents("spt") = [s \in K |-> Chain(s)[Min(Found(s))].id]
  BY DEF Contents
<1>2. Contents("got") = EmptyF
  BY DEF Contents, EmptyF
<1>3. f = [s \in DOMAIN f |-> f[s]] /\ DOMAIN f \in SUBSET Names
      /\ \A n \in T["spt"] : Listed(mem.key[n], mem.data[n], f)
  BY DEF SymbolsKept
<1>4. \A s \in Names :
         ChainIs(T, mem, f, s, Find(mem, "spt", Crc(s)), Chain(s), Found(s))
  BY ChainFacts
<1>5. ASSUME NEW s \in Names
      PROVE  /\ s \notin DOMAIN f => Found(s) = {}
             /\ s \in DOMAIN f => Found(s) # {} /\ Chain(s)[Min(Found(s))].id = f[s]
  <2> DEFINE n == Find(mem, "spt", Crc(s))
             c == Chain(s)
             F == Found(s)
  <2>1. ChainIs(T, mem, f, s, n, c, F)
    BY <1>4
  <2> HIDE DEF n, c, F
  <2>2. ASSUME s \in DOMAIN f PROVE F # {} /\ c[Min(F)].id = f[s]
    <3>1. PICK i \in 1..Len(c) : F = {i} /\ Min({i}) = i /\ c[i].name = s
      BY <2>1, <2>2 DEF ChainIs
    <3>2. n \in T["spt"] /\ c = mem.data[n]
      BY <2>1, <2>2 DEF ChainIs
    <3>3. Listed(mem.key[n], c, f)
      BY <1>3, <3>2
    <3>4. f[s] = c[i].id
      BY <3>1, <3>3 DEF Listed
    <3> QED
      BY <3>1, <3>4
  <2>3. s \notin DOMAIN f => F = {}
    BY <2>1 DEF ChainIs
  <2> QED
    BY <2>2, <2>3 DEF c, F
<1>6. K = DOMAIN f
  BY <1>3, <1>5
<1> HIDE DEF K
<1> QED
  BY <1>1, <1>2, <1>3, <1>5, <1>6

\* The invariant says that the contents are right.
LEMMA ContentsFollow == TreesInv => ContentsAreRight
<1> SUFFICES ASSUME NEW N, NEW V, NEW T,
                    Sound(N, V, T, user, mem, entries, exporting, released, dict)
             PROVE  ContentsAreRight
  BY DEF TreesInv
<1>1. Whole(N, V, mem, T)
  BY DEF Sound
<1>2. CASE user = "symbols"
  <2>1. dict["got"] = EmptyF /\ SymbolsKept(mem.key, mem.data, T["spt"], dict["spt"])
    BY <1>2 DEF Sound, OfSymbols
  <2>2. Contents("spt") = dict["spt"] /\ Contents("got") = dict["got"]
    BY <1>1, <1>2, <2>1, SymbolContents
  <2> QED
    BY <2>2, Two DEF ContentsAreRight
<1>3. CASE user # "symbols"
  <2>1. /\ Kept(mem.key, mem.data, T["spt"], dict["spt"])
        /\ Kept(mem.key, mem.data, T["got"], dict["got"])
    BY <1>3, KeptNone DEF Sound, OfSplay, OfCache
  <2>2. Contents("spt") = dict["spt"] /\ Contents("got") = dict["got"]
    BY <1>1, <1>3, <2>1, Two, KeptContents
  <2> QED
    BY <2>2, Two DEF ContentsAreRight
<1> QED
  BY <1>2, <1>3

\* The invariant says that nothing leaks.
LEMMA NothingLeaksFollows == TreesInv => NothingLeaks
<1> SUFFICES ASSUME NEW N, NEW V, NEW T,
                    Sound(N, V, T, user, mem, entries, exporting, released, dict)
             PROVE  NothingLeaks
  BY DEF TreesInv
<1>1. Whole(N, V, mem, T)
  BY DEF Sound
<1>2. /\ N \in Nat /\ mem \in Memory(N, V) /\ T["spt"] \in SUBSET (1..N)
      /\ T["got"] \in SUBSET (1..N) /\ Holds(mem, "spt", T["spt"])
      /\ T["spt"] \cap T["got"] = {}
  BY <1>1, Two DEF Whole
<1>3. CASE user = "splay"
  <2>1. entries = 0
    BY <1>3 DEF Sound, OfSplay
  <2> QED
    BY <1>3, <2>1 DEF NothingLeaks
<1>4. CASE user = "symbols"
  <2>1. /\ SymbolsKept(mem.key, mem.data, T["spt"], dict["spt"])
        /\ entries = Cardinality(DOMAIN dict["spt"])
    BY <1>4 DEF Sound, OfSymbols
  <2>2. Keyed(mem.key, T["spt"])
    BY <1>2 DEF Holds, Tree
  <2>3. Scanned(T["spt"], sp_scan(mem, "spt"))
    BY <1>2, Two, ScanGoes
  <2>4. Symbols(sp_scan(mem, "spt")) = Cardinality(DOMAIN dict["spt"])
    BY <2>1, <2>2, <2>3, SymbolsCounted DEF Symbols
  <2> QED
    BY <1>4, <2>1, <2>4 DEF NothingLeaks
<1>5. CASE user \in {"cache", "ended"}
  <2>1. entries = Cardinality(T["spt"]) + Cardinality(T["got"])
    BY <1>5 DEF Sound, OfCache
  <2>2. InTrees = T["spt"] \cup T["got"]
    BY <1>1, BlocksAre DEF InTrees
  <2>3. Cardinality(InTrees) = Cardinality(T["spt"]) + Cardinality(T["got"])
    <3> DEFINE A == T["spt"]
               B == T["got"]
    <3>1. A \in SUBSET (1..N) /\ B \in SUBSET (1..N) /\ A \cap B = {}
      BY <1>2
    <3> HIDE DEF A, B
    <3>2. /\ IsFiniteSet(A) /\ IsFiniteSet(B)
          /\ Cardinality(A) \in Nat /\ Cardinality(B) \in Nat
      BY <1>2, <3>1, AtMost
    <3>3. Cardinality(A \cup B) = Cardinality(A) + Cardinality(B) - Cardinality(A \cap B)
      BY <3>2, FS_Union
    <3>4. Cardinality(A \cap B) = 0
      BY <3>1, FS_EmptySet
    <3>5. Cardinality(A \cup B) = Cardinality(A) + Cardinality(B)
      BY <3>2, <3>3, <3>4
    <3> QED
      BY <2>2, <3>5 DEF A, B
  <2> QED
    BY <1>5, <2>1, <2>3 DEF NothingLeaks
<1> QED
  BY <1>3, <1>4, <1>5 DEF Sound

\* Whatever is installed, looked up and deleted, in whatever order, the links of the
\* trees mirror each other, keys are in order, counts are right and no block is lost,
\* in two trees, or in a tree after it was given back (splay.c).
THEOREM WellFormed == Spec => []TreesWellFormed
  BY TreesInductive, WellFormedFollows, PTL

\* A key is found exactly if it was put in and not deleted since, with what was put
\* there last: splaying never loses or mixes up an entry (spsymbol.c, cache.c).
THEOREM ContentsRight == Spec => []ContentsAreRight
  BY TreesInductive, ContentsFollow, PTL

\* Every symbol and every entry that is allocated can still be reached, by sp_scan and
\* by cache_free (spsymbol.c:109, cache.c:99).
THEOREM NoLeaks == Spec => []NothingLeaks
  BY TreesInductive, NothingLeaksFollows, PTL
============================================================================
