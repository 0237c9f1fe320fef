------------------------ MODULE MarketContractProofs ------------------------
(***************************************************************************)
(* What the contract promises of the tokens and balances it holds, for any *)
(* users, tokens, prices and bounds.                                       *)
(***************************************************************************)
EXTENDS MarketContract, FiniteSetTheorems, WellFoundedInduction, TLAPS

-----------------------------------------------------------------------------
(* Numbers.                                                                *)

Below == {ss \in Nat \X Nat : ss[1] < ss[2]}

LEMMA BelowWellFounded == IsWellFoundedOn(Below, Nat)
  BY NatLessThanWellFounded DEF OpToRel, Below

\* A set of natural numbers has a least element, and Min is one of its elements.
LEMMA LeastExists ==
  ASSUME NEW S \in SUBSET Nat, S # {}
  PROVE  \E x \in S : \A y \in S : x <= y
<1>1. PICK x \in S : \A y \in S : <<y, x>> \notin Below
  BY WFMin, BelowWellFounded
<1>2. ASSUME NEW y \in S PROVE x <= y
  <2>1. x \in Nat /\ y \in Nat
    OBVIOUS
  <2>2. ~ (y < x)
    BY <1>1, <2>1 DEF Below
  <2>3. QED
    BY <2>1, <2>2
<1>3. QED
  BY <1>2

-----------------------------------------------------------------------------
(* Sums over finite sets, as MapThenSumSet computes them.                  *)

Sum(D, w) == MapThenSumSet(LAMBDA x : w[x], D)

\* The function that the fold computes: it takes some element out at a time.
Folding(D, w, g) ==
  g = [S \in SUBSET D |-> IF S = {} THEN 0
                          ELSE w[CHOOSE x \in S : TRUE] + g[S \ {CHOOSE x \in S : TRUE}]]

LEMMA SumIsFold ==
  ASSUME NEW D, NEW w
  PROVE  Sum(D, w) = (CHOOSE g : Folding(D, w, g))[D]
  BY DEF Sum, MapThenSumSet, MapThenFoldSet, Folding

\* f gives every subset of D the sum of w over it, whichever element is taken out.
Adds(D, w, f) ==
  /\ f \in [SUBSET D -> Int] /\ f[{}] = 0
  /\ \A S \in SUBSET D : \A x \in S : f[S] = w[x] + f[S \ {x}]

\* What holds of a finite set if it holds of a set with one element less: the
\* subsets in B have no smallest one.
LEMMA NoSmallest ==
  ASSUME NEW D, IsFiniteSet(D), NEW B \in SUBSET SUBSET D,
         \A S \in B : S # {} /\ \E x \in S : S \ {x} \in B
  PROVE  B = {}
<1> SUFFICES ASSUME B # {} PROVE FALSE
  OBVIOUS
<1>1. ASSUME NEW S \in SUBSET D PROVE IsFiniteSet(S) /\ Cardinality(S) \in Nat
  BY FS_Subset, FS_CardinalityType
<1> DEFINE N == {Cardinality(S) : S \in B}
<1>2. N \in SUBSET Nat /\ N # {}
  BY <1>1
<1>3. PICK n \in N : \A m \in N : n <= m
  BY <1>2, LeastExists
<1>4. PICK S \in B : Cardinality(S) = n
  OBVIOUS
<1>5. PICK x \in S : S \ {x} \in B
  OBVIOUS
<1>6. Cardinality(S \ {x}) = Cardinality(S) - 1
  BY <1>1, FS_RemoveElement
<1>7. n <= n - 1 /\ n \in Nat
  BY <1>2, <1>3, <1>4, <1>5, <1>6
<1> QED BY <1>7

LEMMA OneMoreAdds ==
  ASSUME NEW D, NEW w, \A y \in D : w[y] \in Int, NEW x \in D, NEW f, Adds(D \ {x}, w, f)
  PROVE  \E g : Adds(D, w, g)
<1> DEFINE g == [S \in SUBSET D |-> IF x \in S THEN w[x] + f[S \ {x}] ELSE f[S]]
<1>1. ASSUME NEW S \in SUBSET D
      PROVE  /\ S \ {x} \in SUBSET (D \ {x}) /\ f[S \ {x}] \in Int
             /\ x \notin S => S \ {x} = S /\ S \in SUBSET (D \ {x}) /\ f[S] \in Int
             /\ g[S] = w[x] + f[S \ {x}] \/ x \notin S
             /\ g[S] = f[S] \/ x \in S
  <2>1. S \ {x} \in SUBSET (D \ {x}) /\ (x \notin S => S \ {x} = S)
    OBVIOUS
  <2> QED BY <2>1 DEF Adds
<1>2. g \in [SUBSET D -> Int]
  <2>1. ASSUME NEW S \in SUBSET D PROVE (IF x \in S THEN w[x] + f[S \ {x}] ELSE f[S]) \in Int
    <3>1. w[x] \in Int
      OBVIOUS
    <3>2. f[S \ {x}] \in Int /\ (x \notin S => f[S] \in Int)
      BY <1>1
    <3> QED BY <3>1, <3>2
  <2> QED BY <2>1
<1>3. g[{}] = 0
  BY <1>1 DEF Adds
<1> HIDE DEF g
<1>4. ASSUME NEW S \in SUBSET D, NEW y \in S PROVE g[S] = w[y] + g[S \ {y}]
  <2>1. CASE y = x
    <3>1. x \notin S \ {x} /\ S \ {x} \in SUBSET D
      OBVIOUS
    <3>2. g[S \ {x}] = f[S \ {x}] /\ g[S] = w[x] + f[S \ {x}]
      BY <1>1, <2>1, <3>1
    <3> QED BY <2>1, <3>2
  <2>2. CASE y # x /\ x \in S
    <3>1. /\ S \ {y} \in SUBSET D /\ x \in S \ {y} /\ y \in S \ {x}
          /\ (S \ {y}) \ {x} = (S \ {x}) \ {y}
      BY <2>2
    <3> DEFINE T == S \ {x}
    <3>2. T \in SUBSET (D \ {x}) /\ y \in T
      BY <3>1
    <3>3. f[T] = w[y] + f[T \ {y}] /\ f[T \ {y}] \in Int /\ f[T] \in Int
      <4>1. T \ {y} \in SUBSET (D \ {x})
        BY <3>2
      <4> QED BY <3>2, <4>1 DEF Adds
    <3>4. g[S] = w[x] + f[T] /\ g[S \ {y}] = w[x] + f[T \ {y}]
      BY <1>1, <2>2, <3>1
    <3> HIDE DEF T
    <3>5. w[y] \in Int /\ w[x] \in Int
      OBVIOUS
    <3> QED BY <3>3, <3>4, <3>5
  <2>3. CASE x \notin S
    <3>1. S \in SUBSET (D \ {x}) /\ S \ {y} \in SUBSET D /\ x \notin S \ {y}
      BY <2>3
    <3>2. g[S] = f[S] /\ g[S \ {y}] = f[S \ {y}]
      BY <1>1, <2>3, <3>1
    <3> QED BY <3>1, <3>2 DEF Adds
  <2> QED BY <2>1, <2>2, <2>3
<1> QED BY <1>2, <1>3, <1>4 DEF Adds

LEMMA AddsExists ==
  ASSUME NEW D, IsFiniteSet(D), NEW w, \A x \in D : w[x] \in Int
  PROVE  \E f : Adds(D, w, f)
<1> DEFINE B == {S \in SUBSET D : ~ \E f : Adds(S, w, f)}
<1>1. {} \notin B
  <2> DEFINE f == [S \in SUBSET {} |-> 0]
  <2>1. Adds({}, w, f)
    BY DEF Adds
  <2> QED BY <2>1
<1>2. ASSUME NEW S \in B, NEW x \in S PROVE S \ {x} \in B
  <2>1. S \in SUBSET D /\ S \ {x} \in SUBSET D /\ \A y \in S : w[y] \in Int
    OBVIOUS
  <2>2. ~ \E f : Adds(S \ {x}, w, f)
    BY <2>1, OneMoreAdds
  <2> QED BY <2>1, <2>2
<1>3. \A S \in B : S # {} /\ \E x \in S : S \ {x} \in B
  <2>1. ASSUME NEW S \in B PROVE S # {} /\ \E x \in S : S \ {x} \in B
    <3>1. S # {}
      BY <1>1
    <3>2. PICK x : x \in S
      BY <3>1
    <3> QED BY <1>2, <3>1, <3>2
  <2> QED BY <2>1
<1>4. B \in SUBSET SUBSET D
  OBVIOUS
<1> HIDE DEF B
<1>5. B = {}
  BY <1>3, <1>4, NoSmallest
<1> QED BY <1>5 DEF B

LEMMA SumFolds ==
  ASSUME NEW D, NEW w, NEW f, Adds(D, w, f)
  PROVE  Folding(D, w, f)
<1>1. f = [S \in SUBSET D |-> f[S]]
  BY DEF Adds
<1>2. ASSUME NEW S \in SUBSET D
      PROVE  f[S] = IF S = {} THEN 0
                    ELSE w[CHOOSE x \in S : TRUE] + f[S \ {CHOOSE x \in S : TRUE}]
  <2>1. CASE S = {}
    BY <2>1 DEF Adds
  <2>2. CASE S # {}
    <3>1. (CHOOSE x \in S : TRUE) \in S
      BY <2>2
    <3> QED BY <2>2, <3>1 DEF Adds
  <2> QED BY <2>1, <2>2
<1> QED BY <1>1, <1>2 DEF Folding

LEMMA OneSum ==
  ASSUME NEW D, IsFiniteSet(D), NEW w, NEW f, Adds(D, w, f), NEW g, Folding(D, w, g)
  PROVE  g[D] = f[D]
<1> DEFINE B == {S \in SUBSET D : g[S] # f[S]}
<1>1. ASSUME NEW S \in B PROVE S # {} /\ \E x \in S : S \ {x} \in B
  <2>1. S \in SUBSET D /\ g[S] # f[S]
    OBVIOUS
  <2>2. g[{}] = 0 /\ f[{}] = 0
    BY DEF Folding, Adds
  <2>3. S # {}
    BY <2>1, <2>2
  <2> DEFINE x == CHOOSE x \in S : TRUE
  <2>4. x \in S
    BY <2>3
  <2>5. g[S] = w[x] + g[S \ {x}]
    BY <2>1, <2>3 DEF Folding
  <2> HIDE DEF x
  <2>6. f[S] = w[x] + f[S \ {x}] /\ S \ {x} \in SUBSET D
    BY <2>1, <2>4 DEF Adds
  <2>7. g[S \ {x}] # f[S \ {x}]
    BY <2>1, <2>5, <2>6
  <2> QED BY <2>3, <2>4, <2>6, <2>7
<1>2. B \in SUBSET SUBSET D
  OBVIOUS
<1> HIDE DEF B
<1>3. B = {}
  BY <1>1, <1>2, NoSmallest
<1> QED BY <1>3 DEF B

LEMMA SumIs ==
  ASSUME NEW D, IsFiniteSet(D), NEW w, NEW f, Adds(D, w, f)
  PROVE  Sum(D, w) = f[D]
<1> DEFINE g == CHOOSE h : Folding(D, w, h)
<1>1. Folding(D, w, g)
  BY SumFolds
<1>2. Sum(D, w) = g[D]
  BY SumIsFold
<1> HIDE DEF g
<1> QED BY <1>1, <1>2, OneSum

-----------------------------------------------------------------------------
(* What the proofs need of sums.                                           *)

LEMMA SumRest ==
  ASSUME NEW D, IsFiniteSet(D), NEW w, \A x \in D : w[x] \in Int
  PROVE  /\ Sum(D, w) \in Int
         /\ D = {} => Sum(D, w) = 0
         /\ \A x \in D : Sum(D, w) = w[x] + Sum(D \ {x}, w)
<1>1. PICK f : Adds(D, w, f)
  BY AddsExists
<1>2. Sum(D, w) = f[D] /\ f[D] \in Int /\ f[{}] = 0
  <2>1. f[D] \in Int /\ f[{}] = 0
    BY <1>1 DEF Adds
  <2> QED BY <1>1, <2>1, SumIs
<1>3. ASSUME NEW x \in D PROVE Sum(D, w) = w[x] + Sum(D \ {x}, w)
  <2> DEFINE T == D \ {x}
             g == [S \in SUBSET T |-> f[S]]
  <2>1. f[D] = w[x] + f[T] /\ SUBSET T \subseteq SUBSET D /\ T \in SUBSET T
    BY <1>1 DEF Adds
  <2>2. \A S \in SUBSET T : g[S] = f[S] /\ \A y \in S : S \ {y} \in SUBSET T
    OBVIOUS
  <2>3. Adds(T, w, g)
    <3>1. g \in [SUBSET T -> Int] /\ g[{}] = 0
      BY <1>1, <2>1 DEF Adds
    <3>2. ASSUME NEW S \in SUBSET T, NEW y \in S PROVE g[S] = w[y] + g[S \ {y}]
      <4>1. f[S] = w[y] + f[S \ {y}]
        BY <1>1, <2>1 DEF Adds
      <4> HIDE DEF g
      <4> QED BY <2>2, <4>1
    <3> QED BY <3>1, <3>2 DEF Adds
  <2>4. Sum(T, w) = g[T]
    <3>1. IsFiniteSet(T)
      BY FS_Subset
    <3> HIDE DEF g, T
    <3> QED BY <2>3, <3>1, SumIs
  <2> QED BY <1>2, <2>1, <2>2, <2>4
<1> QED BY <1>2, <1>3

LEMMA SumStays ==
  ASSUME NEW D, IsFiniteSet(D), NEW w, \A x \in D : w[x] \in Int,
         NEW v, \A x \in D : v[x] = w[x]
  PROVE  Sum(D, v) = Sum(D, w)
<1>1. PICK f : Adds(D, w, f)
  BY AddsExists
<1>2. Adds(D, v, f)
  <2>1. ASSUME NEW S \in SUBSET D, NEW x \in S PROVE f[S] = v[x] + f[S \ {x}]
    <3>1. v[x] = w[x]
      OBVIOUS
    <3> QED BY <1>1, <3>1 DEF Adds
  <2> QED BY <1>1, <2>1 DEF Adds
<1> QED BY <1>1, <1>2, SumIs

\* One term changes.
LEMMA SumMoves ==
  ASSUME NEW D, IsFiniteSet(D), NEW w, \A y \in D : w[y] \in Int, NEW x \in D,
         NEW v, v[x] \in Int, \A y \in D \ {x} : v[y] = w[y]
  PROVE  Sum(D, v) = Sum(D, w) + (v[x] - w[x])
<1> DEFINE T == D \ {x}
<1>1. IsFiniteSet(T) /\ (\A y \in T : w[y] \in Int) /\ \A y \in D : v[y] \in Int
  BY FS_Subset
<1>2. Sum(T, v) = Sum(T, w) /\ Sum(T, w) \in Int
  BY <1>1, SumStays, SumRest
<1>3. Sum(D, v) = v[x] + Sum(T, v) /\ Sum(D, w) = w[x] + Sum(T, w)
  BY <1>1, SumRest
<1> QED BY <1>2, <1>3

\* There is one term more.
LEMMA SumGrows ==
  ASSUME NEW D, IsFiniteSet(D), NEW w, \A y \in D : w[y] \in Int, NEW x, x \notin D,
         NEW v, v[x] \in Int, \A y \in D : v[y] = w[y], NEW E, E = D \cup {x}
  PROVE  Sum(E, v) = Sum(D, w) + v[x]
<1>1. IsFiniteSet(E) /\ x \in E /\ E \ {x} = D /\ \A y \in E : v[y] \in Int
  BY FS_AddElement
<1>2. Sum(D, v) = Sum(D, w) /\ Sum(D, w) \in Int
  BY SumStays, SumRest
<1>3. Sum(E, v) = v[x] + Sum(D, v)
  BY <1>1, SumRest
<1> QED BY <1>2, <1>3

\* Terms are added up in pairs.
LEMMA SumAdds ==
  ASSUME NEW D, IsFiniteSet(D), NEW w, NEW v, \A x \in D : w[x] \in Int /\ v[x] \in Int,
         NEW z, \A x \in D : z[x] = w[x] + v[x]
  PROVE  Sum(D, z) = Sum(D, w) + Sum(D, v)
<1>1. PICK f : Adds(D, w, f)
  BY AddsExists
<1>2. PICK g : Adds(D, v, g)
  BY AddsExists
<1> DEFINE h == [S \in SUBSET D |-> f[S] + g[S]]
<1>3. \A S \in SUBSET D : f[S] \in Int /\ g[S] \in Int /\ h[S] = f[S] + g[S]
  BY <1>1, <1>2 DEF Adds
<1>4. h \in [SUBSET D -> Int] /\ h[{}] = 0
  BY <1>1, <1>2, <1>3 DEF Adds
<1> HIDE DEF h
<1>5. ASSUME NEW S \in SUBSET D, NEW x \in S PROVE h[S] = z[x] + h[S \ {x}]
  <2>1. f[S] = w[x] + f[S \ {x}] /\ g[S] = v[x] + g[S \ {x}]
    BY <1>1, <1>2 DEF Adds
  <2>2. S \ {x} \in SUBSET D /\ w[x] \in Int /\ v[x] \in Int /\ z[x] = w[x] + v[x]
    OBVIOUS
  <2> QED BY <1>3, <2>1, <2>2
<1>6. Adds(D, z, h)
  BY <1>4, <1>5 DEF Adds
<1>7. Sum(D, z) = h[D] /\ Sum(D, w) = f[D] /\ Sum(D, v) = g[D]
  BY <1>1, <1>2, <1>6, SumIs
<1> QED BY <1>3, <1>7

\* No term is negative.
LEMMA SumOfNats ==
  ASSUME NEW D, IsFiniteSet(D), NEW w, \A x \in D : w[x] \in Nat
  PROVE  Sum(D, w) \in Nat /\ \A x \in D : Sum(D, w) >= w[x]
<1> DEFINE B == {S \in SUBSET D : Sum(S, w) \notin Nat}
<1>1. ASSUME NEW S \in SUBSET D
      PROVE  /\ Sum(S, w) \in Int
             /\ S = {} => Sum(S, w) = 0
             /\ \A x \in S : Sum(S, w) = w[x] + Sum(S \ {x}, w)
  BY FS_Subset, SumRest
<1>2. ASSUME NEW S \in B PROVE S # {} /\ \E x \in S : S \ {x} \in B
  <2>1. S \in SUBSET D /\ Sum(S, w) \notin Nat
    OBVIOUS
  <2>2. S # {}
    BY <1>1, <2>1
  <2>3. PICK x \in S : TRUE
    BY <2>2
  <2>4. w[x] \in Nat /\ S \ {x} \in SUBSET D /\ Sum(S, w) = w[x] + Sum(S \ {x}, w)
    BY <1>1, <2>1
  <2>5. Sum(S \ {x}, w) \notin Nat
    BY <2>1, <2>4
  <2> QED BY <2>2, <2>4, <2>5
<1>3. B \in SUBSET SUBSET D
  OBVIOUS
<1> HIDE DEF B
<1>4. B = {}
  BY <1>2, <1>3, NoSmallest
<1>5. \A S \in SUBSET D : Sum(S, w) \in Nat
  BY <1>4 DEF B
<1>6. ASSUME NEW x \in D PROVE Sum(D, w) >= w[x]
  <2>1. Sum(D, w) = w[x] + Sum(D \ {x}, w) /\ Sum(D \ {x}, w) \in Nat /\ w[x] \in Nat
    BY <1>1, <1>5
  <2> QED BY <2>1
<1> QED BY <1>5, <1>6

LEMMA SumOfZeroes ==
  ASSUME NEW D, IsFiniteSet(D), NEW w, \A x \in D : w[x] = 0
  PROVE  Sum(D, w) = 0
<1> DEFINE f == [S \in SUBSET D |-> 0]
<1>1. Adds(D, w, f)
  <2>1. ASSUME NEW S \in SUBSET D, NEW x \in S PROVE f[S] = w[x] + f[S \ {x}]
    <3>1. w[x] = 0 /\ f[S] = 0 /\ f[S \ {x}] = 0
      OBVIOUS
    <3> QED BY <3>1
  <2> QED BY <2>1 DEF Adds
<1>2. f[D] = 0
  OBVIOUS
<1> HIDE DEF f
<1> QED BY <1>1, <1>2, SumIs

\* The terms that are left out are zero.
LEMMA SumOfPart ==
  ASSUME NEW D, IsFiniteSet(D), NEW w, \A x \in D : w[x] \in Int,
         NEW P \in SUBSET D, \A x \in D \ P : w[x] = 0
  PROVE  Sum(P, w) = Sum(D, w)
<1>1. IsFiniteSet(P) /\ \A x \in P : w[x] \in Int
  BY FS_Subset
<1>2. PICK f : Adds(P, w, f)
  BY <1>1, AddsExists
<1> DEFINE g == [S \in SUBSET D |-> f[S \cap P]]
<1>3. \A S \in SUBSET D : S \cap P \in SUBSET P /\ f[S \cap P] \in Int
  <2>1. \A S \in SUBSET D : S \cap P \in SUBSET P
    OBVIOUS
  <2> QED BY <1>2, <2>1 DEF Adds
<1>4. g \in [SUBSET D -> Int] /\ \A S \in SUBSET D : g[S] = f[S \cap P]
  BY <1>3
<1> HIDE DEF g
<1>5. ASSUME NEW S \in SUBSET D, NEW x \in S PROVE g[S] = w[x] + g[S \ {x}]
  <2>1. S \ {x} \in SUBSET D /\ S \cap P \in SUBSET P
    OBVIOUS
  <2>2. CASE x \in P
    <3>1. (S \ {x}) \cap P = (S \cap P) \ {x} /\ x \in S \cap P
      BY <2>2
    <3>2. f[S \cap P] = w[x] + f[(S \cap P) \ {x}]
      BY <1>2, <2>1, <3>1 DEF Adds
    <3> QED BY <1>4, <2>1, <3>1, <3>2
  <2>3. CASE x \notin P
    <3>1. (S \ {x}) \cap P = S \cap P /\ w[x] = 0
      BY <2>3
    <3>2. g[S] = g[S \ {x}] /\ g[S \ {x}] \in Int
      BY <1>4, <2>1, <3>1
    <3> QED BY <3>1, <3>2
  <2> QED BY <2>2, <2>3
<1>6. g[{}] = 0
  <2>1. {} \in SUBSET D /\ {} \cap P = {}
    OBVIOUS
  <2> QED BY <1>2, <1>4, <2>1 DEF Adds
<1>7. Adds(D, w, g)
  BY <1>4, <1>5, <1>6 DEF Adds
<1>8. Sum(D, w) = g[D] /\ Sum(P, w) = f[P]
  BY <1>1, <1>2, <1>7, SumIs
<1>9. D \cap P = P
  OBVIOUS
<1> QED BY <1>4, <1>8, <1>9

-----------------------------------------------------------------------------
(* The tokens and the balances.                                            *)

\* Order 0 is closed and costs nothing, and every other order has a seller.
SellersAreUsers ==
  \A t \in Tokens : order[t].owner \notin Users => order[t].price = 0 /\ ~order[t].active

Custody == ContractTypeOK /\ OfferedIsHeld /\ SellersAreUsers

LEMMA InitCustody == ContractInit => Custody
  BY ContractAssumption
  DEF ContractInit, Custody, ContractTypeOK, OrderType, NoOrder, OfferedIsHeld, SellersAreUsers

LEMMA AddAskKeeps ==
  ASSUME Custody, NEW u \in Users, NEW t \in Tokens, NEW p \in Prices, AddAsk(u, t, p)
  PROVE  Custody'
  BY ContractAssumption
  DEF Custody, ContractTypeOK, OrderType, OfferedIsHeld, SellersAreUsers, AddAsk, TransferFrom

LEMMA EditAskKeeps ==
  ASSUME Custody, NEW u \in Users, NEW t \in Tokens, NEW p \in Nat, NEW a \in BOOLEAN,
         EditAsk(u, t, p, a)
  PROVE  Custody'
<1> DEFINE price == IF p > 0 THEN p ELSE order[t].price
           priced == [order EXCEPT ![t].price = price]
<1>1. order \in [Tokens -> OrderType] /\ order[t].active /\ price \in Nat
  BY DEF Custody, ContractTypeOK, OrderType, EditAsk
<1>2. /\ priced \in [Tokens -> OrderType]
      /\ \A s \in Tokens : priced[s].owner = order[s].owner
  BY <1>1 DEF OrderType
<1>3. order' = [priced EXCEPT ![t].active = a]
  BY <1>1 DEF EditAsk
<1>4. /\ order' \in [Tokens -> OrderType]
      /\ \A s \in Tokens : order'[s].owner = order[s].owner
      /\ \A s \in Tokens : order'[s].active => order[s].active
      /\ order'[t].owner = u /\ \A s \in Tokens : s # t => order'[s] = order[s]
  <2> HIDE DEF priced
  <2>1. order' \in [Tokens -> OrderType]
    BY <1>2, <1>3 DEF OrderType
  <2>2. \A s \in Tokens : order'[s].owner = order[s].owner
    BY <1>2, <1>3 DEF OrderType
  <2>3. \A s \in Tokens : s # t => order'[s] = order[s]
    BY <1>1, <1>2, <1>3 DEF priced
  <2>4. order[t].owner = u
    BY DEF EditAsk
  <2>5. QED
    BY <1>1, <2>1, <2>2, <2>3, <2>4
<1>5. nft' = nft /\ balanceKSM' = balanceKSM /\ coin' = coin
  BY DEF EditAsk
<1>6. QED
  BY <1>4, <1>5 DEF Custody, ContractTypeOK, OfferedIsHeld, SellersAreUsers

\* The order is closed and its token goes, to the contract itself maybe.
LEMMA LeavingKeeps ==
  ASSUME Custody, NEW t \in Tokens, NEW v \in Users \cup {Contract}, CloseOrder(t),
         TransferFrom(Contract, v, t), balanceKSM' \in [Users -> Nat], coin' \in [Users -> Nat]
  PROVE  Custody'
<1>1. /\ order' \in [Tokens -> OrderType]
      /\ ~order'[t].active
      /\ \A s \in Tokens : s # t => order'[s] = order[s]
      /\ \A s \in Tokens : order'[s].owner = order[s].owner /\ order'[s].price = order[s].price
  BY DEF Custody, ContractTypeOK, OrderType, CloseOrder
<1>2. /\ nft' \in [Tokens -> Users \cup {Contract}]
      /\ \A s \in Tokens : s # t => nft'[s] = nft[s]
  BY DEF Custody, ContractTypeOK, TransferFrom
<1>3. OfferedIsHeld' /\ SellersAreUsers'
  BY <1>1, <1>2 DEF Custody, OfferedIsHeld, SellersAreUsers
<1>4. QED
  BY <1>1, <1>2, <1>3 DEF Custody, ContractTypeOK

LEMMA MoveType ==
  ASSUME NEW b \in [Users -> Nat], NEW u \in Users, NEW v, NEW a \in Nat, b[u] >= a
  PROVE  Move(b, u, v, a) \in [Users -> Nat]
<1> DEFINE debited == [b EXCEPT ![u] = @ + (-a)]
<1>1. debited \in [Users -> Nat]
  <2>1. b[u] \in Nat /\ b[u] + (-a) \in Nat
    OBVIOUS
  <2> QED BY <2>1
<1>2. Move(b, u, v, a) = IF v \in Users THEN [debited EXCEPT ![v] = @ + a] ELSE debited
  BY DEF Move, Credit
<1> HIDE DEF debited
<1>3. QED
  BY <1>1, <1>2

LEMMA BuyKSMKeeps ==
  ASSUME Custody, NEW u \in Users, NEW t \in Tokens, NEW v \in Users \cup {Contract},
         BuyKSM(u, t, v)
  PROVE  Custody'
<1>1. order[t].price \in Nat
  BY DEF Custody, ContractTypeOK, OrderType
<1>2. balanceKSM' \in [Users -> Nat] /\ coin' \in [Users -> Nat]
  BY <1>1, MoveType DEF BuyKSM, Custody, ContractTypeOK
<1>3. QED
  BY <1>2, LeavingKeeps DEF BuyKSM

LEMMA CancelAskKeeps ==
  ASSUME Custody, NEW u \in Users, NEW t \in Tokens, CancelAsk(u, t)
  PROVE  Custody'
  BY LeavingKeeps DEF CancelAsk, Custody, ContractTypeOK

LEMMA BuyKeeps ==
  ASSUME Custody, NEW u \in Users, NEW t \in Tokens, Buy(u, t)
  PROVE  Custody'
<1>1. order[t].price \in Nat
  BY DEF Custody, ContractTypeOK, OrderType
<1>2. balanceKSM' \in [Users -> Nat] /\ coin' \in [Users -> Nat]
  BY <1>1, MoveType DEF Buy, Custody, ContractTypeOK
<1>3. QED
  BY <1>2, LeavingKeeps DEF Buy

LEMMA TransferKeeps ==
  ASSUME Custody, NEW u \in Users, NEW t \in Tokens, NEW v \in Users \cup {Contract},
         Transfer(u, t, v)
  PROVE  Custody'
  BY ContractAssumption
  DEF Custody, ContractTypeOK, OfferedIsHeld, SellersAreUsers, Transfer, TransferFrom

\* A call of the escrow changes a balance and nothing else.
LEMMA EscrowCallKeeps ==
  ASSUME Custody, NEW u \in Users,
         \/ \E a \in Nat : DepositKSM(u, a) \/ WithdrawKSM(u, a)
         \/ WithdrawAllKSM(u)
  PROVE  Custody'
<1>1. balanceKSM' \in [Users -> Nat]
  <2>1. balanceKSM \in [Users -> Nat] /\ balanceKSM[u] \in Nat
    BY DEF Custody, ContractTypeOK
  <2>2. ASSUME NEW a \in Nat, DepositKSM(u, a) PROVE balanceKSM' \in [Users -> Nat]
    BY <2>1, <2>2 DEF DepositKSM, Credit
  <2>3. ASSUME NEW a \in Nat, WithdrawKSM(u, a) PROVE balanceKSM' \in [Users -> Nat]
    <3>1. balanceKSM[u] + (-a) \in Nat
      BY <2>1, <2>3 DEF WithdrawKSM
    <3>2. QED
      BY <2>1, <2>3, <3>1 DEF WithdrawKSM, Credit
  <2>4. CASE WithdrawAllKSM(u)
    BY <2>1, <2>4 DEF WithdrawAllKSM
  <2>5. QED
    BY <2>2, <2>3, <2>4
<1>2. UNCHANGED <<order, nft, coin>>
  BY DEF DepositKSM, WithdrawKSM, WithdrawAllKSM
<1>3. QED
  BY <1>1, <1>2 DEF Custody, ContractTypeOK, OfferedIsHeld, SellersAreUsers

LEMMA NextKeepsCustody == Custody /\ [ContractNext]_contractVars => Custody'
<1> SUFFICES ASSUME Custody, [ContractNext]_contractVars
             PROVE  Custody'
  OBVIOUS
<1>1. ASSUME NEW u \in Users, NEW t \in Tokens, UserCall(u, t)
      PROVE  Custody'
  <2>1. CASE \E p \in Prices : AddAsk(u, t, p)
    BY <2>1, AddAskKeeps
  <2>2. CASE \E p \in Prices \cup {0}, active \in BOOLEAN : EditAsk(u, t, p, active)
    BY <2>2, EditAskKeeps, ContractAssumption
  <2>3. CASE CancelAsk(u, t)
    BY <2>3, CancelAskKeeps
  <2>4. CASE Buy(u, t)
    BY <2>4, BuyKeeps
  <2>5. CASE \E v \in Users \cup {Contract} : BuyKSM(u, t, v)
    BY <2>5, BuyKSMKeeps
  <2>6. CASE \E v \in Users \cup {Contract} : Transfer(u, t, v)
    BY <2>6, TransferKeeps
  <2>7. QED
    BY <1>1, <2>1, <2>2, <2>3, <2>4, <2>5, <2>6 DEF UserCall
<1>2. ASSUME NEW u \in Users, EscrowCall(u)
      PROVE  Custody'
  BY <1>2, EscrowCallKeeps, ContractAssumption DEF EscrowCall
<1>3. CASE UNCHANGED contractVars
  BY <1>3 DEF contractVars, Custody, ContractTypeOK, OfferedIsHeld, SellersAreUsers
<1>4. QED
  BY <1>1, <1>2, <1>3 DEF ContractNext

(* A token on offer is in the contract, what has a price has a seller, and *)
(* no balance is negative, for every sequence of calls.                    *)
THEOREM ContractKeepsCustody == ContractSpec => []Custody
<1>1. ContractInit => Custody
  BY InitCustody
<1>2. Custody /\ [ContractNext]_contractVars => Custody'
  BY NextKeepsCustody
<1>3. QED
  BY <1>1, <1>2, PTL DEF ContractSpec

(* A token on offer is in the contract.                                    *)
THEOREM OfferedTokensAreHeld == ContractSpec => []OfferedIsHeld
<1>1. Custody => OfferedIsHeld
  BY DEF Custody
<1>2. QED
  BY <1>1, ContractKeepsCustody, PTL

(* Only the owner of a token reopens its offer, by addAsk: neither editAsk *)
(* nor a second sale reaches a closed order.                               *)
THEOREM OwnersReopen == ContractSpec => OnlyOwnerReopens
<1> DEFINE Reopens == \A t \in Tokens : ~order[t].active /\ order'[t].active =>
                                          order'[t].owner = nft[t]
<1>1. ASSUME Custody, [ContractNext]_contractVars
      PROVE  Reopens
  <2>1. ASSUME NEW u \in Users, NEW t \in Tokens, UserCall(u, t)
        PROVE  Reopens
    <3> USE DEF Custody, ContractTypeOK, OrderType
    <3>1. CASE \E p \in Prices : AddAsk(u, t, p)
      BY <1>1, <3>1 DEF AddAsk, TransferFrom
    <3>2. CASE \E p \in Prices \cup {0}, active \in BOOLEAN : EditAsk(u, t, p, active)
      BY <1>1, <3>2 DEF EditAsk
    <3>3. CASE CloseOrder(t)
      BY <1>1, <3>3 DEF CloseOrder
    <3>4. CASE UNCHANGED order
      BY <3>4
    <3>5. QED
      BY <2>1, <3>1, <3>2, <3>3, <3>4 DEF UserCall, CancelAsk, Buy, BuyKSM, Transfer
  <2>2. ASSUME NEW u \in Users, EscrowCall(u)
        PROVE  Reopens
    BY <2>2 DEF EscrowCall, DepositKSM, WithdrawKSM, WithdrawAllKSM
  <2>3. CASE UNCHANGED contractVars
    BY <2>3 DEF contractVars
  <2>4. QED
    BY <1>1, <2>1, <2>2, <2>3 DEF ContractNext
<1>2. QED
  BY <1>1, ContractKeepsCustody, PTL DEF ContractSpec, OnlyOwnerReopens

(* Every variable keeps its type and no balance is negative.               *)
THEOREM ContractTypesHold == ContractSpec => []ContractTypeOK
<1>1. Custody => ContractTypeOK
  BY DEF Custody
<1>2. QED
  BY <1>1, ContractKeepsCustody, PTL

-----------------------------------------------------------------------------
(* The refinement: what each call is to the exchange.                      *)

\* Only the order of one token changes.
LEMMA OneOrder ==
  ASSUME Custody, ContractTypeOK', NEW t \in Tokens, \A s \in Tokens \ {t} : order'[s] = order[s]
  PROVE  Promise!OnlyChanges(t)
  BY DEF ContractTypeOK, Promise!OnlyChanges

LEMMA AddAskIsOffer ==
  ASSUME Custody, NEW u \in Users, NEW t \in Tokens, NEW p \in Prices, AddAsk(u, t, p)
  PROVE  Promise!Offer(u, t)
<1>1. /\ order'[t] = [owner |-> u, price |-> p, active |-> TRUE]
      /\ \A s \in Tokens \ {t} : order'[s] = order[s]
  BY DEF Custody, ContractTypeOK, AddAsk
<1>2. Promise!OnlyChanges(t)
  BY <1>1, OneOrder, AddAskKeeps DEF Custody
<1>3. QED
  BY <1>1, <1>2 DEF AddAsk, TransferFrom, Promise!Offer, Promise!Goes

LEMMA EditAskIsChange ==
  ASSUME Custody, NEW u \in Users, NEW t \in Tokens, NEW p \in Nat, NEW a \in BOOLEAN,
         EditAsk(u, t, p, a)
  PROVE  Promise!Change(t)
<1> DEFINE price == IF p > 0 THEN p ELSE order[t].price
           priced == [order EXCEPT ![t].price = price]
<1>1. order \in [Tokens -> OrderType] /\ order[t].active /\ order[t].owner = u
  BY DEF Custody, ContractTypeOK, EditAsk
<1>2. /\ priced[t].owner = u
      /\ \A s \in Tokens \ {t} : priced[s] = order[s]
      /\ DOMAIN priced = Tokens /\ DOMAIN priced[t] = {"owner", "price", "active"}
  BY <1>1 DEF OrderType
<1>3. order' = [priced EXCEPT ![t].active = a]
  BY <1>1 DEF EditAsk
<1>4. order'[t].owner = u /\ \A s \in Tokens \ {t} : order'[s] = order[s]
  <2> HIDE DEF priced
  <2>1. QED
    BY <1>2, <1>3
<1>5. Promise!OnlyChanges(t)
  BY <1>4, OneOrder, EditAskKeeps DEF Custody
<1>6. QED
  BY <1>1, <1>4, <1>5 DEF EditAsk, Promise!Change

LEMMA CancelAskIsTakeOut ==
  ASSUME Custody, NEW u \in Users, NEW t \in Tokens, CancelAsk(u, t)
  PROVE  Promise!TakeOut(t)
  BY DEF CancelAsk, CloseOrder, TransferFrom, Promise!TakeOut, Promise!Close, Promise!Goes

\* Debit, then credit: what the two writes come to.
LEMMA MovePays ==
  ASSUME NEW b \in [Users -> Nat], NEW buyer \in Users, NEW seller, NEW a \in Nat,
         seller \in Users \/ a = 0
  PROVE  Move(b, buyer, seller, a) = Promise!Paid(b, buyer, seller, a)
<1> DEFINE debited == [b EXCEPT ![buyer] = @ + (-a)]
<1>1. Move(b, buyer, seller, a)
        = IF seller \in Users THEN [debited EXCEPT ![seller] = @ + a] ELSE debited
  BY DEF Move, Credit
<1>2. /\ DOMAIN debited = Users /\ debited[buyer] = b[buyer] - a
      /\ \A u \in Users \ {buyer} : debited[u] = b[u]
      /\ debited = [u \in Users |-> debited[u]]
  OBVIOUS
<1>3. \A u \in Users : b[u] \in Nat
  OBVIOUS
<1> HIDE DEF debited
<1>4. CASE seller \in Users
  <2>1. Move(b, buyer, seller, a)
          = [u \in Users |-> IF u = seller THEN debited[u] + a ELSE debited[u]]
    BY <1>1, <1>2, <1>4
  <2>2. \A u \in Users : (IF u = seller THEN debited[u] + a ELSE debited[u])
                           = IF buyer = seller THEN b[u]
                             ELSE IF u = buyer THEN b[u] - a
                             ELSE IF u = seller THEN b[u] + a
                             ELSE b[u]
    BY <1>2, <1>3
  <2>3. QED
    BY <2>1, <2>2 DEF Promise!Paid
<1>5. CASE seller \notin Users
  <2>1. \A u \in Users : debited[u] = IF buyer = seller THEN b[u]
                                      ELSE IF u = buyer THEN b[u] - a
                                      ELSE IF u = seller THEN b[u] + a
                                      ELSE b[u]
    BY <1>2, <1>3, <1>5
  <2>2. QED
    BY <1>1, <1>2, <1>5, <2>1 DEF Promise!Paid
<1>6. QED
  BY <1>4, <1>5

LEMMA BuyKSMIsSale ==
  ASSUME Custody, NEW u \in Users, NEW t \in Tokens, NEW v \in Users \cup {Contract},
         BuyKSM(u, t, v)
  PROVE  Promise!Sale(u, t, v)
<1>1. /\ balanceKSM \in [Users -> Nat] /\ order[t].price \in Nat
      /\ order[t].owner \in Users \/ order[t].price = 0
  BY DEF Custody, ContractTypeOK, OrderType, SellersAreUsers
<1>2. balanceKSM' = Promise!Paid(balanceKSM, u, order[t].owner, order[t].price)
  BY <1>1, MovePays DEF BuyKSM
<1>3. QED
  BY <1>1, <1>2
  DEF BuyKSM, CloseOrder, TransferFrom, Promise!Sale, Promise!Close, Promise!Goes

LEMMA BuyIsSale ==
  ASSUME Custody, NEW u \in Users, NEW t \in Tokens, Buy(u, t)
  PROVE  Promise!Sale(u, t, u)
<1>1. /\ coin \in [Users -> Nat] /\ order[t].price \in Nat
      /\ order[t].owner \in Users \/ order[t].price = 0
  BY DEF Custody, ContractTypeOK, OrderType, SellersAreUsers
<1>2. coin' = Promise!Paid(coin, u, order[t].owner, order[t].price)
  BY <1>1, MovePays DEF Buy
<1>3. QED
  BY <1>1, <1>2
  DEF Buy, CloseOrder, TransferFrom, Promise!Sale, Promise!Close, Promise!Goes

LEMMA EscrowCallIsAccount ==
  ASSUME Custody, NEW u \in Users,
         \/ \E a \in Nat : DepositKSM(u, a) \/ WithdrawKSM(u, a)
         \/ WithdrawAllKSM(u)
  PROVE  Promise!Account(u)
<1>1. /\ DOMAIN balanceKSM' = Users
      /\ balanceKSM'[u] \in Nat
      /\ \A v \in Users \ {u} : balanceKSM'[v] = balanceKSM[v]
  BY DEF Custody, ContractTypeOK, DepositKSM, WithdrawKSM, WithdrawAllKSM, Credit
<1>2. UNCHANGED <<order, nft, coin>>
  BY DEF DepositKSM, WithdrawKSM, WithdrawAllKSM
<1>3. QED
  BY <1>1, <1>2 DEF Promise!Account

\* Who transfers a token has it, so it is not on offer.
LEMMA TransferIsGive ==
  ASSUME Custody, NEW u \in Users, NEW t \in Tokens, NEW v \in Users \cup {Contract},
         Transfer(u, t, v)
  PROVE  Promise!Give(u, t, v)
<1>1. nft[t] = u /\ ~order[t].active
  BY ContractAssumption DEF Custody, OfferedIsHeld, Transfer, TransferFrom
<1>2. QED
  BY <1>1 DEF Transfer, TransferFrom, Promise!Give, Promise!Goes

LEMMA EveryCallIsOfTheExchange ==
  ASSUME Custody, [ContractNext]_contractVars
  PROVE  [Promise!ExchangeNext]_(Promise!exchangeVars)
<1>1. ASSUME NEW u \in Users, NEW t \in Tokens, UserCall(u, t)
      PROVE  [Promise!ExchangeNext]_(Promise!exchangeVars)
  <2>1. CASE \E p \in Prices : AddAsk(u, t, p)
    BY <2>1, AddAskIsOffer DEF Promise!ExchangeNext
  <2>2. CASE \E p \in Prices \cup {0}, active \in BOOLEAN : EditAsk(u, t, p, active)
    BY <2>2, EditAskIsChange, ContractAssumption DEF Promise!ExchangeNext
  <2>3. CASE CancelAsk(u, t)
    BY <2>3, CancelAskIsTakeOut DEF Promise!ExchangeNext
  <2>4. CASE Buy(u, t)
    BY <2>4, BuyIsSale DEF Promise!ExchangeNext
  <2>5. CASE \E v \in Users \cup {Contract} : BuyKSM(u, t, v)
    BY <2>5, BuyKSMIsSale DEF Promise!ExchangeNext
  <2>6. CASE \E v \in Users \cup {Contract} : Transfer(u, t, v)
    BY <2>6, TransferIsGive DEF Promise!ExchangeNext
  <2>7. QED
    BY <1>1, <2>1, <2>2, <2>3, <2>4, <2>5, <2>6 DEF UserCall
<1>2. ASSUME NEW u \in Users, EscrowCall(u)
      PROVE  [Promise!ExchangeNext]_(Promise!exchangeVars)
  BY <1>2, EscrowCallIsAccount, ContractAssumption DEF EscrowCall, Promise!ExchangeNext
<1>3. CASE UNCHANGED contractVars
  BY <1>3 DEF contractVars, Promise!exchangeVars
<1>4. QED
  BY <1>1, <1>2, <1>3 DEF ContractNext

(* The contract implements the exchange: whatever users and escrow call, a *)
(* token leaves to the one who offered it last or to a buyer who pays this *)
(* one the price of the offer, and no sale makes or destroys money.        *)
THEOREM ContractIsAnExchange == ContractSpec => ImplementsExchange
<1>1. ContractInit => Promise!ExchangeInit
  BY ContractAssumption DEF ContractInit, Promise!ExchangeInit
<1>2. Custody /\ [ContractNext]_contractVars => [Promise!ExchangeNext]_(Promise!exchangeVars)
  BY EveryCallIsOfTheExchange
<1>3. QED
  BY <1>1, <1>2, ContractKeepsCustody, PTL
  DEF ContractSpec, ImplementsExchange, Promise!ExchangeSpec
=============================================================================
