-------------------------------- MODULE SetLemmas --------------------------------
(***************************************************************************)
(* What several proofs need of sets: a least number, a smallest set, and   *)
(* the sums that MapThenFoldSet computes over a finite set, whatever the   *)
(* order in which it takes the items.                                      *)
(***************************************************************************)
EXTENDS Integers, FiniteSetTheorems, WellFoundedInduction, TLAPS

\* A nonempty set of numbers has a least one.
LEMMA LeastNumber ==
  ASSUME NEW A, A \subseteq Nat, A # {}
  PROVE  \E a \in A : \A c \in A : a <= c
<1> DEFINE R == OpToRel(<, Nat)
<1>1. \A x, y \in Nat : x < y => <<x, y>> \in R
  BY Zenon DEF OpToRel
<1>2. IsWellFoundedOn(R, Nat)
  BY NatLessThanWellFounded
<1> HIDE DEF R
<1>3. PICK a \in A : \A c \in A : ~ (<<c, a>> \in R)
  BY <1>2, WFMin
<1>4. \A c \in A : ~ (c < a)
  BY <1>1, <1>3
<1>5. QED
  BY <1>4

\* A nonempty set of finite sets has one of which no proper part is in it.
LEMMA SmallestSet ==
  ASSUME NEW A, A # {}, \A s \in A : IsFiniteSet(s)
  PROVE  \E s \in A : \A t \in A : t \subseteq s => t = s
<1> DEFINE Sizes == {Cardinality(s) : s \in A}
<1>1. Sizes \subseteq Nat /\ Sizes # {}
  BY FS_CardinalityType
<1> HIDE DEF Sizes
<1>2. PICK n \in Sizes : \A k \in Sizes : n <= k
  BY <1>1, LeastNumber
<1>3. PICK s \in A : n = Cardinality(s)
  BY DEF Sizes
<1>4. ASSUME NEW t \in A, t \subseteq s, t # s
      PROVE  FALSE
  <2>1. IsFiniteSet(s) /\ t \in SUBSET s /\ Cardinality(s) \in Nat
    BY <1>4, FS_CardinalityType
  <2>2. Cardinality(t) <= Cardinality(s) /\ Cardinality(t) # Cardinality(s)
    BY <1>4, <2>1, FS_Subset
  <2>3. Cardinality(t) \in Sizes /\ Cardinality(t) \in Nat
    BY FS_CardinalityType DEF Sizes
  <2>4. QED
    BY <1>1, <1>2, <1>3, <2>1, <2>2, <2>3
<1>5. QED
  BY <1>4

\* The item that a sum over s begins with.
First(s) == CHOOSE x \in s : TRUE

\* Function g gives the sum of the weights w of each part of S.
Weighs(g, w, S) ==
    g = [s \in SUBSET S |-> IF s = {} THEN 0 ELSE w[First(s)] + g[s \ {First(s)}]]

LEMMA FirstOf == ASSUME NEW s, s # {} PROVE First(s) \in s
BY DEF First

\* The same weights have the same sum, whichever set it is taken for a part of.
LEMMA SumsAgree ==
  ASSUME NEW S, NEW T, NEW g, NEW h, NEW w, NEW v, Weighs(g, w, S), Weighs(h, v, T),
         NEW r, IsFiniteSet(r), r \subseteq S, r \subseteq T, \A x \in r : w[x] = v[x]
  PROVE  g[r] = h[r]
<1> DEFINE Bad == {s \in SUBSET r : g[s] # h[s]}
<1> SUFFICES ASSUME Bad # {} PROVE FALSE
  OBVIOUS
<1>1. \A s \in Bad : IsFiniteSet(s)
  BY FS_Subset
<1>2. PICK s \in Bad : \A t \in Bad : t \subseteq s => t = s
  <2> HIDE DEF Bad
  <2>1. QED
    BY <1>1, SmallestSet
<1>3. /\ g[s] = IF s = {} THEN 0 ELSE w[First(s)] + g[s \ {First(s)}]
      /\ h[s] = IF s = {} THEN 0 ELSE v[First(s)] + h[s \ {First(s)}]
  BY DEF Weighs
<1>4. s # {} /\ First(s) \in s
  BY <1>3, FirstOf
<1>5. g[s \ {First(s)}] = h[s \ {First(s)}]
  BY <1>2, <1>4
<1>6. w[First(s)] = v[First(s)]
  BY <1>4
<1>7. QED
  BY <1>3, <1>4, <1>5, <1>6

\* Every finite set has its sums.
LEMMA SumsExist ==
  ASSUME NEW S, IsFiniteSet(S), NEW w
  PROVE  \E g : Weighs(g, w, S)
<1> DEFINE Bad == {s \in SUBSET S : ~ \E g : Weighs(g, w, s)}
<1> SUFFICES ASSUME Bad # {} PROVE FALSE
  OBVIOUS
<1>1. \A s \in Bad : IsFiniteSet(s)
  BY FS_Subset
<1>2. PICK r \in Bad : \A t \in Bad : t \subseteq r => t = r
  <2> HIDE DEF Bad
  <2>1. QED
    BY <1>1, SmallestSet
<1>3. r \subseteq S /\ IsFiniteSet(r)
  BY <1>1
<1> DEFINE G(t) == CHOOSE g : Weighs(g, w, t)
           h == [s \in SUBSET r |-> IF s = {} THEN 0
                                    ELSE w[First(s)] + G(s \ {First(s)})[s \ {First(s)}]]
<1>4. ASSUME NEW t \in SUBSET r, t # r
      PROVE  Weighs(G(t), w, t)
  BY <1>2, <1>4, <1>3
<1>5. ASSUME NEW t \in SUBSET r, t # r
      PROVE  h[t] = G(t)[t]
  <2>1. Weighs(G(t), w, t)
    BY <1>4, <1>5
  <2> HIDE DEF G
  <2>2. G(t)[t] = IF t = {} THEN 0 ELSE w[First(t)] + G(t)[t \ {First(t)}]
    BY <2>1 DEF Weighs
  <2>3. CASE t = {}
    BY <2>2, <2>3
  <2>4. CASE t # {}
    <3> DEFINE u == t \ {First(t)}
    <3>1. u \subseteq r /\ u # r /\ u \subseteq t /\ IsFiniteSet(u)
      BY <1>3, <1>5, FS_Subset
    <3> HIDE DEF u
    <3>2. Weighs(G(u), w, u)
      BY <1>4, <3>1
    <3>3. G(t)[u] = G(u)[u]
      BY <2>1, <3>1, <3>2, SumsAgree
    <3>4. QED
      BY <2>2, <2>4, <3>3 DEF u
  <2>5. QED
    BY <2>3, <2>4
<1>6. Weighs(h, w, r)
  <2>1. ASSUME NEW s \in SUBSET r
        PROVE  h[s] = IF s = {} THEN 0 ELSE w[First(s)] + h[s \ {First(s)}]
    <3>1. CASE s = {}
      BY <3>1
    <3>2. CASE s # {}
      <4>1. First(s) \in s /\ s \ {First(s)} \in SUBSET r /\ s \ {First(s)} # r
        BY <3>2, FirstOf
      <4>2. h[s \ {First(s)}] = G(s \ {First(s)})[s \ {First(s)}]
        <5> HIDE DEF h, G
        <5>1. QED
          BY <1>5, <4>1
      <4> HIDE DEF G
      <4>3. h[s] = w[First(s)] + G(s \ {First(s)})[s \ {First(s)}]
        BY <3>2
      <4> HIDE DEF h
      <4>4. QED
        BY <3>2, <4>2, <4>3
    <3>3. QED
      BY <3>1, <3>2
  <2>2. h = [s \in SUBSET r |-> h[s]]
    OBVIOUS
  <2> HIDE DEF h
  <2>3. QED
    BY <2>1, <2>2 DEF Weighs
<1>7. QED
  BY <1>2, <1>6

\* Any item of any part of S may be the one that is added last.
Pulls(g, w, S) ==
    \A r \in SUBSET S : g[r] \in Int /\ \A y \in r : g[r] = w[y] + g[r \ {y}]

LEMMA SumsPull ==
  ASSUME NEW S, IsFiniteSet(S), NEW g, NEW w, Weighs(g, w, S), \A x \in S : w[x] \in Int
  PROVE  Pulls(g, w, S)
<1> DEFINE Good(r) == g[r] \in Int /\ \A y \in r : g[r] = w[y] + g[r \ {y}]
           Bad == {r \in SUBSET S : ~ Good(r)}
<1> SUFFICES ASSUME Bad # {} PROVE FALSE
  BY DEF Pulls
<1>1. \A s \in Bad : IsFiniteSet(s)
  BY FS_Subset
<1>2. PICK r \in Bad : \A t \in Bad : t \subseteq r => t = r
  <2> HIDE DEF Bad
  <2>1. QED
    BY <1>1, SmallestSet
<1> DEFINE x == First(r)
<1>3. r \subseteq S /\ g[r] = IF r = {} THEN 0 ELSE w[x] + g[r \ {x}]
  BY DEF Weighs
<1>4. CASE r = {}
  BY <1>3, <1>4
<1>5. CASE r # {}
  <2>1. x \in r
    BY <1>5, FirstOf
  <2> HIDE DEF x
  <2>2. \A y \in r : r \ {y} \in SUBSET S /\ Good(r \ {y})
    BY <1>2, <1>3
  <2>3. g[r] = w[x] + g[r \ {x}] /\ g[r \ {x}] \in Int /\ w[x] \in Int
    BY <1>3, <1>5, <2>1, <2>2
  <2>4. ASSUME NEW y \in r, y # x
        PROVE  g[r] = w[y] + g[r \ {y}]
    <3> DEFINE both == r \ {x, y}
    <3>1. (r \ {x}) \ {y} = both /\ (r \ {y}) \ {x} = both /\ y \in r \ {x} /\ x \in r \ {y}
      BY <2>1, <2>4
    <3>2. Good(r \ {x}) /\ Good(r \ {y})
      BY <2>1, <2>2
    <3>3. g[r \ {x}] = w[y] + g[both] /\ g[r \ {y}] = w[x] + g[both]
      BY <3>1, <3>2
    <3> HIDE DEF both
    <3>4. g[both] \in Int
      <4>1. both \in SUBSET S /\ both # r /\ both \subseteq r
        BY <1>3, <2>1 DEF both
      <4>2. both \notin Bad
        BY <1>2, <4>1
      <4>3. QED
        BY <4>1, <4>2
    <3>5. w[y] \in Int /\ w[x] \in Int
      BY <1>3, <2>1
    <3>6. QED
      BY <2>3, <3>3, <3>4, <3>5
  <2>5. g[r] \in Int /\ \A y \in r : g[r] = w[y] + g[r \ {y}]
    <3>1. ASSUME NEW y \in r PROVE g[r] = w[y] + g[r \ {y}]
      <4>1. CASE y = x
        BY <2>3, <4>1
      <4>2. QED
        BY <2>4, <4>1
    <3>2. w[x] + g[r \ {x}] \in Int
      BY <2>3
    <3>3. QED
      BY <2>3, <3>1, <3>2
  <2>6. QED
    BY <2>5
<1>6. QED
  BY <1>4, <1>5

\* What one more item adds to a sum.
LEMMA SumAdds ==
  ASSUME NEW S, IsFiniteSet(S), NEW y, y \notin S,
         NEW g, NEW w, Weighs(g, w, S \cup {y}), NEW h, NEW v, Weighs(h, v, S),
         \A x \in S \cup {y} : w[x] \in Int, \A x \in S : v[x] = w[x]
  PROVE  g[S \cup {y}] = w[y] + h[S] /\ h[S] \in Int
<1> DEFINE T == S \cup {y}
<1>1. IsFiniteSet(T) /\ y \in T /\ T \ {y} = S /\ T \in SUBSET T /\ S \in SUBSET T
  BY FS_AddElement
<1> HIDE DEF T
<1>2. Weighs(g, w, T) /\ \A x \in T : w[x] \in Int
  BY DEF T
<1>3. g[T] = w[y] + g[S] /\ g[S] \in Int
  <2>1. Pulls(g, w, T)
    BY <1>1, <1>2, SumsPull
  <2>2. QED
    BY <1>1, <2>1 DEF Pulls
<1>4. g[S] = h[S]
  BY <1>1, <1>2, SumsAgree
<1>5. QED
  BY <1>3, <1>4 DEF T
================================================================================
