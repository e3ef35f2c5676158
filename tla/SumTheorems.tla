---------------------------- MODULE SumTheorems -----------------------------
(***************************************************************************)
(* Facts about SumFunctionOnSet of the community modules: that the sum of a *)
(* function over a finite set is the sum of its values, in any order.       *)
(*                                                                         *)
(* It is defined by recursion over subsets, with a CHOOSE for the element   *)
(* that comes next.  The library's induction and recursion theorems take an *)
(* operator, which the provers cannot instantiate; WFMin takes sets, and so *)
(* induction is done here with sets of what is right.                       *)
(***************************************************************************)
EXTENDS FiniteSetsExt, FiniteSetTheorems, WellFoundedInduction, TLAPS

-----------------------------------------------------------------------------
(* Induction. *)

LEMMA LeastNat ==
    ASSUME NEW T \in SUBSET Nat, T # {}
    PROVE  \E x \in T : \A y \in T : x <= y
<1> DEFINE R == OpToRel(<, Nat)
<1>1. PICK x \in T : \A y \in T : <<y, x>> \notin R
  <2> HIDE DEF R
  <2>1. IsWellFoundedOn(R, Nat)
    BY NatLessThanWellFounded DEF R
  <2> QED
    BY <2>1, WFMin
<1>2. \A y \in T : ~(y < x)
  BY <1>1 DEF OpToRel
<1> HIDE DEF R
<1> QED
  BY <1>1, <1>2

(* If a subset is good whenever all its proper subsets are, all are good.   *)
LEMMA SubsetInduction ==
    ASSUME NEW S, IsFiniteSet(S), NEW Good,
           \A s \in SUBSET S : (\A r \in SUBSET s : r # s => r \in Good) => s \in Good
    PROVE  \A s \in SUBSET S : s \in Good
<1> DEFINE Bad == {s \in SUBSET S : s \notin Good}
<1> SUFFICES ASSUME Bad # {} PROVE FALSE
  OBVIOUS
<1> DEFINE Sizes == {Cardinality(s) : s \in Bad}
<1>1. ASSUME NEW s \in SUBSET S PROVE IsFiniteSet(s) /\ Cardinality(s) \in Nat
  BY FS_Subset, FS_CardinalityType
<1>2. Sizes \in SUBSET Nat /\ Sizes # {}
  BY <1>1
<1>3. PICK n \in Sizes : \A m \in Sizes : n <= m
  <2> HIDE DEF Sizes
  <2> QED
    BY <1>2, LeastNat
<1>4. PICK s \in Bad : n = Cardinality(s)
  BY <1>3
<1>5. ASSUME NEW r \in SUBSET s, r # s PROVE r \in Good
  <2>1. s \in SUBSET S /\ r \in SUBSET S
    BY <1>4
  <2>2. IsFiniteSet(s) /\ Cardinality(r) \in Nat /\ Cardinality(s) \in Nat
    BY <1>1, <2>1
  <2>3. Cardinality(r) < Cardinality(s)
    BY <1>5, <2>2, FS_Subset
  <2>4. SUFFICES ASSUME r \in Bad PROVE FALSE
    BY <2>1
  <2>5. Cardinality(s) <= Cardinality(r)
    BY <1>3, <1>4, <2>4
  <2> QED
    BY <2>2, <2>3, <2>5
<1> QED
  BY <1>4, <1>5

-----------------------------------------------------------------------------
(* The recursion that SumFunctionOnSet is defined by has a solution, and    *)
(* its solutions agree.                                                     *)

Some(s) == CHOOSE x \in s : TRUE

IsSum(g, f, S) ==
    g = [s \in SUBSET S |-> IF s = {} THEN 0 ELSE f[Some(s)] + g[s \ {Some(s)}]]

LEMMA SomeIn == ASSUME NEW s, s # {} PROVE Some(s) \in s
BY DEF Some

LEMMA SumsAgree ==
    ASSUME NEW S, IsFiniteSet(S), NEW T, NEW f, NEW e, NEW g, NEW h,
           IsSum(g, f, S), IsSum(h, e, T), \A x \in S \cap T : f[x] = e[x]
    PROVE  \A s \in SUBSET (S \cap T) : g[s] = h[s]
<1> DEFINE Good == {s \in SUBSET (S \cap T) : g[s] = h[s]}
<1>1. IsFiniteSet(S \cap T)
  BY FS_Subset
<1>2. ASSUME NEW s \in SUBSET (S \cap T), \A r \in SUBSET s : r # s => r \in Good
      PROVE  s \in Good
  <2>1. CASE s = {}
    BY <2>1 DEF IsSum
  <2>2. CASE s # {}
    <3>1. Some(s) \in s
      BY <2>2, SomeIn
    <3>2. s \ {Some(s)} \in Good
      BY <1>2, <3>1
    <3>3. /\ g[s] = f[Some(s)] + g[s \ {Some(s)}]
          /\ h[s] = e[Some(s)] + h[s \ {Some(s)}]
      BY <2>2 DEF IsSum
    <3> QED
      BY <3>1, <3>2, <3>3
  <2> QED
    BY <2>1, <2>2
<1>3. \A s \in SUBSET (S \cap T) : s \in Good
  <2> HIDE DEF Good
  <2> QED
    BY <1>1, <1>2, SubsetInduction
<1> QED
  BY <1>3

LEMMA SumExists ==
    ASSUME NEW S, IsFiniteSet(S), NEW f
    PROVE  \E g : IsSum(g, f, S)
<1> DEFINE Good == {s \in SUBSET S : \E g : IsSum(g, f, s)}
           H(r) == CHOOSE g : IsSum(g, f, r)
<1>1. ASSUME NEW s \in SUBSET S, \A r \in SUBSET s : r # s => r \in Good
      PROVE  s \in Good
  <2> DEFINE g == [r \in SUBSET s |->
                      IF r # s THEN H(r)[r]
                      ELSE IF s = {} THEN 0
                      ELSE f[Some(s)] + H(s \ {Some(s)})[s \ {Some(s)}]]
  <2>1. ASSUME NEW r \in SUBSET s, r # s PROVE IsSum(H(r), f, r) /\ IsFiniteSet(r)
    BY <1>1, <2>1, FS_Subset
  <2> HIDE DEF H
  <2>2. ASSUME NEW r \in SUBSET s
        PROVE  g[r] = IF r = {} THEN 0 ELSE f[Some(r)] + g[r \ {Some(r)}]
    <3>1. CASE r = {} /\ r # s
      BY <2>1, <3>1 DEF IsSum
    <3>2. CASE r = {} /\ r = s
      BY <3>2
    <3>3. CASE r # {}
      <4> DEFINE q == r \ {Some(r)}
      <4>1. Some(r) \in r /\ q \in SUBSET r /\ q # s
        BY <3>3, SomeIn
      <4>2. g[q] = H(q)[q]
        BY <4>1
      <4>3. CASE r = s
        BY <3>3, <4>2, <4>3
      <4>4. CASE r # s
        <5>1. H(r)[r] = f[Some(r)] + H(r)[q]
          BY <2>1, <3>3, <4>4 DEF IsSum
        <5>2. H(r)[q] = H(q)[q]
          <6>1. IsSum(H(r), f, r) /\ IsSum(H(q), f, q) /\ IsFiniteSet(r)
            BY <2>1, <4>1, <4>4
          <6>2. q \in SUBSET (r \cap q)
            OBVIOUS
          <6> HIDE DEF q
          <6> QED
            BY <6>1, <6>2, SumsAgree
        <5> QED
          BY <3>3, <4>2, <4>4, <5>1, <5>2
      <4> QED
        BY <4>3, <4>4
    <3> QED
      BY <3>1, <3>2, <3>3
  <2>3. g = [r \in SUBSET s |-> g[r]]
    OBVIOUS
  <2> HIDE DEF g
  <2>4. IsSum(g, f, s)
    BY <2>2, <2>3 DEF IsSum
  <2> QED
    BY <2>4
<1>2. \A s \in SUBSET S : s \in Good
  <2> HIDE DEF Good
  <2> QED
    BY <1>1, SubsetInduction
<1> QED
  BY <1>2

LEMMA SumIs ==
    ASSUME NEW S, IsFiniteSet(S), NEW f
    PROVE  \E g : IsSum(g, f, S) /\ \A s \in SUBSET S : SumFunctionOnSet(f, s) = g[s]
<1> DEFINE G(s) == CHOOSE g : IsSum(g, f, s)
<1>1. ASSUME NEW s \in SUBSET S
      PROVE  IsFiniteSet(s) /\ IsSum(G(s), f, s)
  BY FS_Subset, SumExists
<1>2. ASSUME NEW s \in SUBSET S
      PROVE  SumFunctionOnSet(f, s) = G(s)[s]
  BY DEF SumFunctionOnSet, FoldFunctionOnSet, MapThenFoldSet, IsSum, Some
<1> HIDE DEF G
<1>3. ASSUME NEW s \in SUBSET S PROVE G(S)[s] = G(s)[s]
  <2>1. s \in SUBSET (S \cap s) /\ IsSum(G(S), f, S) /\ IsSum(G(s), f, s)
    BY <1>1
  <2> QED
    BY <2>1, SumsAgree
<1> QED
  BY <1>1, <1>2, <1>3

-----------------------------------------------------------------------------
(* What a sum is. *)

THEOREM SumEmpty ==
    ASSUME NEW f
    PROVE  SumFunctionOnSet(f, {}) = 0
<1>1. PICK g : IsSum(g, f, {}) /\ \A s \in SUBSET {} : SumFunctionOnSet(f, s) = g[s]
  BY SumIs, FS_EmptySet
<1> QED
  BY <1>1 DEF IsSum

LEMMA SumSome ==
    ASSUME NEW S, IsFiniteSet(S), S # {}, NEW f
    PROVE  /\ Some(S) \in S
           /\ SumFunctionOnSet(f, S) = f[Some(S)] + SumFunctionOnSet(f, S \ {Some(S)})
<1>1. PICK g : IsSum(g, f, S) /\ \A s \in SUBSET S : SumFunctionOnSet(f, s) = g[s]
  BY SumIs
<1> QED
  BY <1>1, SomeIn DEF IsSum

(* Only the values on the set count.                                        *)
THEOREM SumSame ==
    ASSUME NEW S, IsFiniteSet(S), NEW f, NEW e, \A x \in S : f[x] = e[x]
    PROVE  SumFunctionOnSet(f, S) = SumFunctionOnSet(e, S)
<1>1. PICK g : IsSum(g, f, S) /\ \A s \in SUBSET S : SumFunctionOnSet(f, s) = g[s]
  BY SumIs
<1>2. PICK h : IsSum(h, e, S) /\ \A s \in SUBSET S : SumFunctionOnSet(e, s) = h[s]
  BY SumIs
<1>3. S \in SUBSET (S \cap S) /\ \A x \in S \cap S : f[x] = e[x]
  OBVIOUS
<1>4. g[S] = h[S]
  BY <1>1, <1>2, <1>3, SumsAgree
<1> QED
  BY <1>1, <1>2, <1>4

THEOREM SumInt ==
    ASSUME NEW S, IsFiniteSet(S), NEW f, \A x \in S : f[x] \in Int
    PROVE  SumFunctionOnSet(f, S) \in Int
<1> DEFINE Good == {s \in SUBSET S : SumFunctionOnSet(f, s) \in Int}
<1>1. ASSUME NEW s \in SUBSET S, \A r \in SUBSET s : r # s => r \in Good
      PROVE  s \in Good
  <2>1. CASE s = {}
    BY <2>1, SumEmpty
  <2>2. CASE s # {}
    <3>1. /\ Some(s) \in s
          /\ SumFunctionOnSet(f, s) = f[Some(s)] + SumFunctionOnSet(f, s \ {Some(s)})
      BY <2>2, FS_Subset, SumSome
    <3>2. s \ {Some(s)} \in Good
      BY <1>1, <3>1
    <3> QED
      BY <3>1, <3>2
  <2> QED
    BY <2>1, <2>2
<1>2. \A s \in SUBSET S : s \in Good
  <2> HIDE DEF Good
  <2> QED
    BY <1>1, SubsetInduction
<1> QED
  BY <1>2

THEOREM SumNat ==
    ASSUME NEW S, IsFiniteSet(S), NEW f, \A x \in S : f[x] \in Nat
    PROVE  SumFunctionOnSet(f, S) \in Nat
<1> DEFINE Good == {s \in SUBSET S : SumFunctionOnSet(f, s) \in Nat}
<1>1. ASSUME NEW s \in SUBSET S, \A r \in SUBSET s : r # s => r \in Good
      PROVE  s \in Good
  <2>1. CASE s = {}
    BY <2>1, SumEmpty
  <2>2. CASE s # {}
    <3>1. /\ Some(s) \in s
          /\ SumFunctionOnSet(f, s) = f[Some(s)] + SumFunctionOnSet(f, s \ {Some(s)})
      BY <2>2, FS_Subset, SumSome
    <3>2. s \ {Some(s)} \in Good
      BY <1>1, <3>1
    <3> QED
      BY <3>1, <3>2
  <2> QED
    BY <2>1, <2>2
<1>2. \A s \in SUBSET S : s \in Good
  <2> HIDE DEF Good
  <2> QED
    BY <1>1, SubsetInduction
<1> QED
  BY <1>2

(* Any element may come first.                                              *)
THEOREM SumRemove ==
    ASSUME NEW S, IsFiniteSet(S), NEW f, \A y \in S : f[y] \in Int, NEW x \in S
    PROVE  SumFunctionOnSet(f, S) = f[x] + SumFunctionOnSet(f, S \ {x})
<1> DEFINE sum(s) == SumFunctionOnSet(f, s)
           Good == {s \in SUBSET S : \A y \in s : sum(s) = f[y] + sum(s \ {y})}
<1>0. ASSUME NEW s \in SUBSET S PROVE IsFiniteSet(s) /\ sum(s) \in Int
  BY FS_Subset, SumInt
<1>1. ASSUME NEW s \in SUBSET S, \A r \in SUBSET s : r # s => r \in Good, NEW y \in s
      PROVE  sum(s) = f[y] + sum(s \ {y})
  <2> DEFINE c == Some(s)
             q == (s \ {y}) \ {c}
  <2>1. c \in s /\ sum(s) = f[c] + sum(s \ {c})
    BY <1>0, SumSome
  <2>2. CASE c = y
    BY <2>1, <2>2
  <2>3. CASE c # y
    <3>1. s \ {c} \in Good /\ s \ {y} \in Good
      BY <1>1, <2>1
    <3>2. y \in s \ {c} /\ c \in s \ {y} /\ (s \ {c}) \ {y} = q
      BY <2>1, <2>3
    <3>3. sum(s \ {c}) = f[y] + sum(q) /\ sum(s \ {y}) = f[c] + sum(q)
      BY <3>1, <3>2
    <3>4. f[c] \in Int /\ f[y] \in Int /\ sum(q) \in Int
      BY <1>0, <2>1
    <3> HIDE DEF sum, q, c
    <3> QED
      BY <2>1, <3>3, <3>4
  <2> QED
    BY <2>2, <2>3
<1>2. \A s \in SUBSET S : s \in Good
  <2>1. ASSUME NEW s \in SUBSET S, \A r \in SUBSET s : r # s => r \in Good
        PROVE  s \in Good
    BY <1>1, <2>1
  <2> HIDE DEF Good
  <2> QED
    BY <2>1, SubsetInduction
<1>3. S \in Good
  <2> HIDE DEF Good
  <2> QED
    BY <1>2
<1> QED
  BY <1>3

THEOREM SumAdd ==
    ASSUME NEW S, IsFiniteSet(S), NEW x, x \notin S,
           NEW f, \A y \in S : f[y] \in Int, f[x] \in Int
    PROVE  SumFunctionOnSet(f, S \cup {x}) = SumFunctionOnSet(f, S) + f[x]
<1>1. IsFiniteSet(S \cup {x}) /\ (S \cup {x}) \ {x} = S
  BY FS_AddElement
<1>2. SumFunctionOnSet(f, S \cup {x}) = f[x] + SumFunctionOnSet(f, S)
  BY <1>1, SumRemove
<1> QED
  BY <1>2, SumInt

THEOREM SumOne ==
    ASSUME NEW x, NEW f, f[x] \in Int
    PROVE  SumFunctionOnSet(f, {x}) = f[x]
<1>1. IsFiniteSet({}) /\ {} \cup {x} = {x} /\ x \notin {}
  BY FS_EmptySet
<1>2. SumFunctionOnSet(f, {} \cup {x}) = SumFunctionOnSet(f, {}) + f[x]
  BY <1>1, SumAdd
<1> QED
  BY <1>1, <1>2, SumEmpty

(* When one value changes, the sum changes by as much.                      *)
ChangesAt(x, f, e, S) ==
    /\ IsFiniteSet(S) /\ x \in S /\ e[x] \in Int
    /\ \A y \in S : f[y] \in Int
    /\ \A y \in S \ {x} : e[y] = f[y]

THEOREM SumChange ==
    ASSUME NEW S, NEW f, NEW e, NEW x, ChangesAt(x, f, e, S)
    PROVE  SumFunctionOnSet(e, S) = SumFunctionOnSet(f, S) - f[x] + e[x]
<1>0. /\ IsFiniteSet(S) /\ x \in S /\ e[x] \in Int
      /\ \A y \in S : f[y] \in Int
      /\ \A y \in S \ {x} : e[y] = f[y]
  BY DEF ChangesAt
<1>1. IsFiniteSet(S \ {x})
  BY <1>0, FS_RemoveElement
<1>2. SumFunctionOnSet(e, S \ {x}) = SumFunctionOnSet(f, S \ {x})
  BY <1>0, <1>1, SumSame
<1>3. SumFunctionOnSet(f, S) = f[x] + SumFunctionOnSet(f, S \ {x})
  BY <1>0, SumRemove
<1>4. SumFunctionOnSet(e, S) = e[x] + SumFunctionOnSet(e, S \ {x})
  <2>1. \A y \in S : e[y] \in Int
    BY <1>0
  <2> QED
    BY <1>0, <2>1, SumRemove
<1>5. SumFunctionOnSet(f, S \ {x}) \in Int
  BY <1>0, <1>1, SumInt
<1> QED
  BY <1>0, <1>2, <1>3, <1>4, <1>5

(* No value is above the sum.                                               *)
THEOREM SumBounds ==
    ASSUME NEW S, IsFiniteSet(S), NEW f, \A y \in S : f[y] \in Nat, NEW x \in S
    PROVE  f[x] <= SumFunctionOnSet(f, S)
<1>1. SumFunctionOnSet(f, S) = f[x] + SumFunctionOnSet(f, S \ {x})
  BY SumRemove
<1>2. SumFunctionOnSet(f, S \ {x}) \in Nat
  BY FS_RemoveElement, SumNat
<1> QED
  BY <1>1, <1>2

(* A sum over a part is one over the whole with nothing elsewhere.          *)
THEOREM SumWhere ==
    ASSUME NEW S, IsFiniteSet(S), NEW T \in SUBSET S, NEW f, \A y \in S : f[y] \in Int
    PROVE  SumFunctionOnSet(f, T)
               = SumFunctionOnSet([y \in S |-> IF y \in T THEN f[y] ELSE 0], S)
<1> DEFINE e    == [y \in S |-> IF y \in T THEN f[y] ELSE 0]
           Good == {s \in SUBSET S :
                       SumFunctionOnSet(e, s) = SumFunctionOnSet(f, s \cap T)}
<1>1. ASSUME NEW s \in SUBSET S, \A r \in SUBSET s : r # s => r \in Good
      PROVE  s \in Good
  <2>1. CASE s = {}
    <3>1. s \cap T = {}
      BY <2>1
    <3> QED
      BY <2>1, <3>1, SumEmpty
  <2>2. CASE s # {}
    <3>1. /\ Some(s) \in s
          /\ SumFunctionOnSet(e, s) = e[Some(s)] + SumFunctionOnSet(e, s \ {Some(s)})
      BY <2>2, FS_Subset, SumSome
    <3> DEFINE x == Some(s)
               q == s \ {x}
    <3>2. q \in SUBSET S /\ q \in Good /\ x \in S /\ IsFiniteSet(s \cap T)
      BY <1>1, <3>1, FS_Subset
    <3>3. CASE x \in T
      <4>1. x \in s \cap T /\ (s \cap T) \ {x} = q \cap T /\ e[x] = f[x]
        BY <3>1, <3>2, <3>3
      <4>2. \A y \in s \cap T : f[y] \in Int
        OBVIOUS
      <4>3. SumFunctionOnSet(e, s) = e[x] + SumFunctionOnSet(e, q)
        BY <3>1
      <4>4. SumFunctionOnSet(e, q) = SumFunctionOnSet(f, q \cap T)
        BY <3>2
      <4> HIDE DEF x, q, e
      <4>5. SumFunctionOnSet(f, s \cap T) = f[x] + SumFunctionOnSet(f, q \cap T)
        BY <3>2, <4>1, <4>2, SumRemove
      <4>6. SumFunctionOnSet(e, s) = SumFunctionOnSet(f, s \cap T)
        BY <4>1, <4>3, <4>4, <4>5
      <4> QED
        BY <4>6
    <3>4. CASE x \notin T
      <4>1. s \cap T = q \cap T /\ e[x] = 0
        BY <3>2, <3>4
      <4>2. SumFunctionOnSet(f, q \cap T) \in Int
        <5>1. IsFiniteSet(q \cap T) /\ \A y \in q \cap T : f[y] \in Int
          BY <3>2, FS_Subset
        <5> QED
          BY <5>1, SumInt
      <4>3. SumFunctionOnSet(e, s) = e[x] + SumFunctionOnSet(e, q)
        BY <3>1
      <4>4. SumFunctionOnSet(e, q) = SumFunctionOnSet(f, q \cap T)
        BY <3>2
      <4> HIDE DEF x, q, e
      <4>5. SumFunctionOnSet(f, s \cap T) = SumFunctionOnSet(f, q \cap T)
        BY <4>1
      <4>6. SumFunctionOnSet(e, s) = SumFunctionOnSet(f, q \cap T)
        BY <4>1, <4>2, <4>3, <4>4
      <4> QED
        BY <4>5, <4>6
    <3> QED
      BY <3>3, <3>4
  <2> QED
    BY <2>1, <2>2
<1>2. \A s \in SUBSET S : s \in Good
  <2> HIDE DEF Good
  <2> QED
    BY <1>1, SubsetInduction
<1>3. S \in Good /\ S \cap T = T
  <2> HIDE DEF Good
  <2> QED
    BY <1>2
<1> QED
  BY <1>3

THEOREM SumZero ==
    ASSUME NEW S, IsFiniteSet(S), NEW f, \A y \in S : f[y] = 0
    PROVE  SumFunctionOnSet(f, S) = 0
<1> DEFINE none == {}
           e == [y \in S |-> IF y \in none THEN f[y] ELSE 0]
<1>1. SumFunctionOnSet(f, none) = SumFunctionOnSet(e, S)
  BY SumWhere
<1>2. \A y \in S : f[y] = e[y]
  OBVIOUS
<1> HIDE DEF e
<1>3. SumFunctionOnSet(f, S) = SumFunctionOnSet(e, S)
  BY <1>2, SumSame
<1> QED
  BY <1>1, <1>3, SumEmpty

(* Greater values, greater sum.                                             *)
THEOREM SumLeq ==
    ASSUME NEW S, IsFiniteSet(S), NEW f, NEW e,
           \A y \in S : f[y] \in Int /\ e[y] \in Int /\ f[y] <= e[y]
    PROVE  SumFunctionOnSet(f, S) <= SumFunctionOnSet(e, S)
<1> DEFINE a(s) == SumFunctionOnSet(f, s)
           b(s) == SumFunctionOnSet(e, s)
           Good == {s \in SUBSET S : a(s) <= b(s)}
<1>1. ASSUME NEW s \in SUBSET S, \A r \in SUBSET s : r # s => r \in Good
      PROVE  s \in Good
  <2>1. CASE s = {}
    <3>1. a(s) = 0 /\ b(s) = 0
      BY <2>1, SumEmpty
    <3> QED
      BY <3>1
  <2>2. CASE s # {}
    <3>1. PICK x \in s : TRUE
      BY <2>2
    <3> DEFINE r == s \ {x}
    <3>2. IsFiniteSet(s) /\ IsFiniteSet(r) /\ \A y \in s : f[y] \in Int /\ e[y] \in Int
      BY FS_Subset
    <3>3. a(s) = f[x] + a(r) /\ b(s) = e[x] + b(r)
      BY <3>2, SumRemove
    <3>4. a(r) \in Int /\ b(r) \in Int
      BY <3>2, SumInt
    <3>5. r \in Good
      BY <1>1
    <3>6. f[x] \in Int /\ e[x] \in Int /\ f[x] <= e[x]
      OBVIOUS
    <3> HIDE DEF r, a, b
    <3>7. a(r) <= b(r)
      BY <3>5
    <3>8. a(s) <= b(s)
      BY <3>3, <3>4, <3>6, <3>7
    <3> QED
      BY <3>8
  <2> QED
    BY <2>1, <2>2
<1>2. \A s \in SUBSET S : s \in Good
  <2> HIDE DEF Good
  <2> QED
    BY <1>1, SubsetInduction
<1> QED
  BY <1>2

(* A sum of products with one factor.                                       *)
THEOREM SumScale ==
    ASSUME NEW S, IsFiniteSet(S), NEW c \in Int, NEW f, NEW e,
           \A y \in S : f[y] \in Int /\ e[y] = c * f[y]
    PROVE  SumFunctionOnSet(e, S) = c * SumFunctionOnSet(f, S)
<1> DEFINE a(s) == SumFunctionOnSet(f, s)
           b(s) == SumFunctionOnSet(e, s)
           Good == {s \in SUBSET S : b(s) = c * a(s)}
<1>1. ASSUME NEW s \in SUBSET S, \A r \in SUBSET s : r # s => r \in Good
      PROVE  s \in Good
  <2>1. CASE s = {}
    <3>1. a(s) = 0 /\ b(s) = 0
      BY <2>1, SumEmpty
    <3> QED
      BY <3>1
  <2>2. CASE s # {}
    <3>1. PICK x \in s : TRUE
      BY <2>2
    <3> DEFINE r == s \ {x}
    <3>2. IsFiniteSet(s) /\ IsFiniteSet(r) /\ \A y \in s : f[y] \in Int /\ e[y] \in Int
      BY FS_Subset
    <3>3. a(s) = f[x] + a(r) /\ b(s) = e[x] + b(r)
      BY <3>2, SumRemove
    <3>4. a(r) \in Int /\ b(r) \in Int
      BY <3>2, SumInt
    <3>5. r \in Good
      BY <1>1
    <3>6. f[x] \in Int /\ e[x] = c * f[x]
      OBVIOUS
    <3> HIDE DEF r, a, b
    <3>7. b(r) = c * a(r)
      BY <3>5
    <3>8. b(s) = c * f[x] + c * a(r)
      BY <3>3, <3>6, <3>7
    <3>9. c * (f[x] + a(r)) = c * f[x] + c * a(r)
      BY <3>4, <3>6
    <3>10. b(s) = c * a(s)
      BY <3>3, <3>8, <3>9
    <3> QED
      BY <3>10
  <2> QED
    BY <2>1, <2>2
<1>2. \A s \in SUBSET S : s \in Good
  <2> HIDE DEF Good
  <2> QED
    BY <1>1, SubsetInduction
<1> QED
  BY <1>2

(* The sum of sums.                                                         *)
THEOREM SumPlus ==
    ASSUME NEW S, IsFiniteSet(S), NEW f, NEW e, NEW g,
           \A y \in S : f[y] \in Int /\ e[y] \in Int /\ g[y] = f[y] + e[y]
    PROVE  SumFunctionOnSet(g, S) = SumFunctionOnSet(f, S) + SumFunctionOnSet(e, S)
<1> DEFINE a(s) == SumFunctionOnSet(f, s)
           b(s) == SumFunctionOnSet(e, s)
           t(s) == SumFunctionOnSet(g, s)
           Good == {s \in SUBSET S : t(s) = a(s) + b(s)}
<1>1. ASSUME NEW s \in SUBSET S, \A r \in SUBSET s : r # s => r \in Good
      PROVE  s \in Good
  <2>1. CASE s = {}
    <3>1. a(s) = 0 /\ b(s) = 0 /\ t(s) = 0
      BY <2>1, SumEmpty
    <3> QED
      BY <3>1
  <2>2. CASE s # {}
    <3>1. PICK x \in s : TRUE
      BY <2>2
    <3> DEFINE r == s \ {x}
    <3>2. /\ IsFiniteSet(s) /\ IsFiniteSet(r)
          /\ \A y \in s : f[y] \in Int /\ e[y] \in Int /\ g[y] \in Int
      BY FS_Subset
    <3>3. a(s) = f[x] + a(r) /\ b(s) = e[x] + b(r) /\ t(s) = g[x] + t(r)
      BY <3>2, SumRemove
    <3>4. a(r) \in Int /\ b(r) \in Int
      BY <3>2, SumInt
    <3>5. r \in Good
      BY <1>1
    <3>6. f[x] \in Int /\ e[x] \in Int /\ g[x] = f[x] + e[x]
      OBVIOUS
    <3> HIDE DEF r, a, b, t
    <3>7. t(r) = a(r) + b(r)
      BY <3>5
    <3>8. t(s) = a(s) + b(s)
      BY <3>3, <3>4, <3>6, <3>7
    <3> QED
      BY <3>8
  <2> QED
    BY <2>1, <2>2
<1>2. \A s \in SUBSET S : s \in Good
  <2> HIDE DEF Good
  <2> QED
    BY <1>1, SubsetInduction
<1> QED
  BY <1>2
=============================================================================
