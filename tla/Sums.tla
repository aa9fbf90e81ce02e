-------------------------------- MODULE Sums --------------------------------
(***************************************************************************)
(* Facts about SumFunctionOnSet of the community modules, for a finite set *)
(* and a function with integer values on it: what the proofs about amounts *)
(* cite instead of an induction.  They rest on induction over a set of     *)
(* numbers, which follows from the pigeonhole principle: were m missing    *)
(* from a set P closed under successor, n |-> n + 1 would map the elements *)
(* of P up to m one-to-one to those that are not 0.                        *)
(***************************************************************************)
EXTENDS Integers, FiniteSets, Functions, FiniteSetTheorems, FunctionTheorems,
        TLAPS

LEMMA SetInduction ==
  ASSUME NEW P \in SUBSET Nat, 0 \in P, \A n \in P : n + 1 \in P
  PROVE  P = Nat
<1> SUFFICES ASSUME NEW m \in Nat, m \notin P PROVE FALSE
  OBVIOUS
<1> DEFINE T == P \cap 0..m
           shift == [n \in T |-> n + 1]
<1>1. \A n \in T : n + 1 \in T \ {0}
  <2> SUFFICES ASSUME NEW n \in T PROVE n + 1 \in T \ {0} OBVIOUS
  <2>1. n \in Nat /\ n \in P /\ n <= m /\ n # m OBVIOUS
  <2>2. n + 1 \in P /\ n + 1 \in 0..m /\ n + 1 # 0 BY <2>1
  <2> QED BY <2>2
<1>2. shift \in [T -> T \ {0}] BY <1>1
<1>3. IsFiniteSet(T) /\ 0 \in T
  <2>1. IsFiniteSet(0..m) BY FS_Interval
  <2>2. 0 \in 0..m OBVIOUS
  <2> QED BY <2>1, <2>2, FS_Subset
<1>4. IsFiniteSet(T \ {0}) /\ Cardinality(T \ {0}) < Cardinality(T)
  <2>1. Cardinality(T \ {0}) = Cardinality(T) - 1 /\ IsFiniteSet(T \ {0})
    BY <1>3, FS_RemoveElement
  <2>2. Cardinality(T) \in Nat BY <1>3, FS_CardinalityType
  <2> QED BY <2>1, <2>2
<1>5. PICK x, y \in T : x # y /\ shift[x] = shift[y]
  <2> HIDE DEF T, shift
  <2> QED BY <1>2, <1>3, <1>4, FS_PigeonHole
<1>6. x \in Nat /\ y \in Nat /\ x + 1 = y + 1 BY <1>5
<1> QED BY <1>5, <1>6

Chosen(s) == CHOOSE x \in s : TRUE

\* The equation SumFunctionOnSet solves, on the subsets of S.
Adds(g, f, S) ==
  g = [s \in SUBSET S |-> IF s = {} THEN 0 ELSE f[Chosen(s)] + g[s \ {Chosen(s)}]]

LEMMA SumByChoice ==
  ASSUME NEW f, NEW S
  PROVE  SumFunctionOnSet(f, S) = (CHOOSE g : Adds(g, f, S))[S]
BY Zenon DEF SumFunctionOnSet, FoldFunctionOnSet, MapThenFoldSet, Adds, Chosen

\* The subsets of S that have at most n elements.
Small(S, n) == {s \in SUBSET S : Cardinality(s) <= n}

Solves(g, f, S, n) ==
  \A s \in Small(S, n) :
    g[s] = IF s = {} THEN 0 ELSE f[Chosen(s)] + g[s \ {Chosen(s)}]

LEMMA SubsetFacts ==
  ASSUME NEW S, IsFiniteSet(S), NEW s \in SUBSET S
  PROVE  /\ IsFiniteSet(s) /\ Cardinality(s) \in Nat
         /\ Cardinality(s) <= Cardinality(S) /\ Cardinality(S) \in Nat
         /\ Cardinality(s) = 0 <=> s = {}
         /\ \A x \in s : /\ s \ {x} \in SUBSET S
                         /\ Cardinality(s \ {x}) = Cardinality(s) - 1
<1>1. IsFiniteSet(s) BY FS_Subset
<1>2. Cardinality(s) \in Nat /\ Cardinality(S) \in Nat BY <1>1, FS_CardinalityType
<1>3. Cardinality(s) <= Cardinality(S) BY FS_Subset
<1>4. Cardinality(s) = 0 <=> s = {} BY <1>1, FS_EmptySet
<1>5. ASSUME NEW x \in s PROVE Cardinality(s \ {x}) = Cardinality(s) - 1
  BY <1>1, FS_RemoveElement
<1> QED BY <1>1, <1>2, <1>3, <1>4, <1>5

LEMMA ChosenIn == ASSUME NEW s, s # {} PROVE Chosen(s) \in s
BY DEF Chosen

\* The equation has a solution on the subsets of any number of elements,
LEMMA SolutionUpTo ==
  ASSUME NEW S, IsFiniteSet(S), NEW f, \A x \in S : f[x] \in Int, NEW n \in Nat
  PROVE  \E g : g \in [Small(S, n) -> Int] /\ Solves(g, f, S, n)
<1> DEFINE P == {m \in Nat : \E g : g \in [Small(S, m) -> Int] /\ Solves(g, f, S, m)}
<1>1. 0 \in P
  <2> DEFINE g == [s \in Small(S, 0) |-> 0]
  <2>1. \A s \in Small(S, 0) : s = {}
    BY SubsetFacts DEF Small
  <2>2. g \in [Small(S, 0) -> Int] OBVIOUS
  <2>3. Solves(g, f, S, 0) BY <2>1 DEF Solves
  <2> QED BY <2>2, <2>3
<1>2. ASSUME NEW m \in P PROVE m + 1 \in P
  <2>1. PICK g : g \in [Small(S, m) -> Int] /\ Solves(g, f, S, m) OBVIOUS
  <2> DEFINE h == [s \in Small(S, m + 1) |->
                     IF s = {} THEN 0 ELSE f[Chosen(s)] + g[s \ {Chosen(s)}]]
  <2>2. m \in Nat OBVIOUS
  <2>3. ASSUME NEW s \in Small(S, m + 1), s # {}
        PROVE  Chosen(s) \in s /\ s \ {Chosen(s)} \in Small(S, m)
    <3>1. s \in SUBSET S /\ Cardinality(s) <= m + 1 BY DEF Small
    <3>2. Chosen(s) \in s BY <2>3, ChosenIn
    <3>3. s \ {Chosen(s)} \in SUBSET S
          /\ Cardinality(s \ {Chosen(s)}) = Cardinality(s) - 1 /\ Cardinality(s) \in Nat
      BY <3>1, <3>2, SubsetFacts
    <3> QED BY <2>2, <3>1, <3>2, <3>3 DEF Small
  <2>4. h \in [Small(S, m + 1) -> Int]
    <3> SUFFICES ASSUME NEW s \in Small(S, m + 1)
                 PROVE  (IF s = {} THEN 0 ELSE f[Chosen(s)] + g[s \ {Chosen(s)}]) \in Int
      OBVIOUS
    <3>1. CASE s = {} BY <3>1
    <3>2. CASE s # {}
      <4>1. Chosen(s) \in S /\ s \ {Chosen(s)} \in Small(S, m)
        BY <2>3, <3>2 DEF Small
      <4>2. f[Chosen(s)] \in Int /\ g[s \ {Chosen(s)}] \in Int BY <2>1, <4>1
      <4> QED BY <3>2, <4>2
    <3> QED BY <3>1, <3>2
  <2>5. ASSUME NEW s \in Small(S, m) PROVE s \in Small(S, m + 1) /\ h[s] = g[s]
    <3>1. s \in Small(S, m + 1)
      <4>1. s \in SUBSET S /\ Cardinality(s) <= m BY DEF Small
      <4>2. Cardinality(s) \in Nat BY <4>1, SubsetFacts
      <4> QED BY <2>2, <4>1, <4>2 DEF Small
    <3>2. g[s] = IF s = {} THEN 0 ELSE f[Chosen(s)] + g[s \ {Chosen(s)}]
      BY <2>1 DEF Solves
    <3> QED BY <3>1, <3>2
  <2>6. Solves(h, f, S, m + 1)
    <3> SUFFICES ASSUME NEW s \in Small(S, m + 1)
                 PROVE  h[s] = IF s = {} THEN 0 ELSE f[Chosen(s)] + h[s \ {Chosen(s)}]
      BY DEF Solves
    <3>1. CASE s = {} BY <3>1
    <3>2. CASE s # {}
      <4>1. h[s \ {Chosen(s)}] = g[s \ {Chosen(s)}] BY <2>3, <2>5, <3>2
      <4>2. h[s] = f[Chosen(s)] + g[s \ {Chosen(s)}] BY <3>2
      <4> HIDE DEF h
      <4> QED BY <3>2, <4>1, <4>2
    <3> QED BY <3>1, <3>2
  <2> HIDE DEF h
  <2> QED BY <2>2, <2>4, <2>6
<1>3. P = Nat
  <2>1. P \in SUBSET Nat OBVIOUS
  <2> HIDE DEF P
  <2> QED BY <1>1, <1>2, <2>1, SetInduction
<1> QED BY <1>3


\* and two solutions agree on the subsets they share.
LEMMA OneSolution ==
  ASSUME NEW S, IsFiniteSet(S), NEW T, NEW f, NEW e, NEW g, Adds(g, f, S), NEW h, Adds(h, e, T),
         NEW s \in SUBSET S, s \in SUBSET T, \A x \in s : f[x] = e[x]
  PROVE  g[s] = h[s]
<1> DEFINE Agree(n) == \A t \in SUBSET s : Cardinality(t) = n => g[t] = h[t]
           P == {n \in Nat : Agree(n)}
<1>1. \A t \in SUBSET s : /\ t \in SUBSET S
                          /\ Cardinality(t) \in Nat
                          /\ Cardinality(t) = 0 <=> t = {}
                          /\ \A x \in t : Cardinality(t \ {x}) = Cardinality(t) - 1
  BY SubsetFacts
<1>2. \A t \in SUBSET s :
        /\ g[t] = IF t = {} THEN 0 ELSE f[Chosen(t)] + g[t \ {Chosen(t)}]
        /\ h[t] = IF t = {} THEN 0 ELSE e[Chosen(t)] + h[t \ {Chosen(t)}]
  BY DEF Adds
<1>3. 0 \in P BY <1>1, <1>2
<1>4. ASSUME NEW n \in P PROVE n + 1 \in P
  <2> SUFFICES ASSUME NEW t \in SUBSET s, Cardinality(t) = n + 1 PROVE g[t] = h[t]
    OBVIOUS
  <2>1. t # {} BY <1>1
  <2>2. Chosen(t) \in t BY <2>1, ChosenIn
  <2>3. Cardinality(t \ {Chosen(t)}) = n /\ t \ {Chosen(t)} \in SUBSET s
    BY <1>1, <2>2
  <2>4. g[t \ {Chosen(t)}] = h[t \ {Chosen(t)}] BY <2>3
  <2>5. f[Chosen(t)] = e[Chosen(t)] BY <2>2
  <2> QED BY <1>2, <2>1, <2>4, <2>5
<1>5. P = Nat
  <2>1. P \in SUBSET Nat OBVIOUS
  <2> HIDE DEF P
  <2> QED BY <1>3, <1>4, <2>1, SetInduction
<1>6. Cardinality(s) \in P BY <1>1, <1>5
<1> QED BY <1>6

\* So the sums over the subsets of S are one solution of the equation.
LEMMA SumSolves ==
  ASSUME NEW S, IsFiniteSet(S), NEW f, \A x \in S : f[x] \in Int
  PROVE  \A s \in SUBSET S :
           /\ SumFunctionOnSet(f, s) \in Int
           /\ SumFunctionOnSet(f, s)
                = IF s = {} THEN 0
                  ELSE f[Chosen(s)] + SumFunctionOnSet(f, s \ {Chosen(s)})
<1> DEFINE n == Cardinality(S)
<1>1. n \in Nat /\ Small(S, n) = SUBSET S
  BY SubsetFacts DEF Small
<1>2. PICK g : g \in [Small(S, n) -> Int] /\ Solves(g, f, S, n)
  <2> HIDE DEF n
  <2> QED BY <1>1, SolutionUpTo
<1>3. g \in [SUBSET S -> Int] /\ Adds(g, f, S)
  BY <1>1, <1>2 DEF Adds, Solves
<1>4. ASSUME NEW s \in SUBSET S PROVE SumFunctionOnSet(f, s) = g[s]
  <2> DEFINE it == CHOOSE h : Adds(h, f, s)
             h == [t \in SUBSET s |-> g[t]]
  <2>1. Adds(h, f, s)
    <3>1. ASSUME NEW t \in SUBSET s
          PROVE  g[t] = IF t = {} THEN 0 ELSE f[Chosen(t)] + g[t \ {Chosen(t)}]
      BY <1>3 DEF Adds
    <3>2. ASSUME NEW t \in SUBSET s, t # {} PROVE g[t \ {Chosen(t)}] = h[t \ {Chosen(t)}]
      OBVIOUS
    <3> QED BY <3>1, <3>2 DEF Adds
  <2>2. Adds(it, f, s) BY <2>1
  <2>3. SumFunctionOnSet(f, s) = it[s] BY SumByChoice
  <2>4. it[s] = g[s]
    <3> HIDE DEF it, h
    <3>1. IsFiniteSet(s) BY SubsetFacts
    <3> QED BY <1>3, <2>2, <3>1, OneSolution
  <2> QED BY <2>3, <2>4
<1>5. \A s \in SUBSET S : g[s] \in Int
        /\ g[s] = IF s = {} THEN 0 ELSE f[Chosen(s)] + g[s \ {Chosen(s)}]
  BY <1>3 DEF Adds
<1>6. \A s \in SUBSET S : s \ {Chosen(s)} \in SUBSET S OBVIOUS
<1> QED BY <1>4, <1>5, <1>6

-----------------------------------------------------------------------------
(* What is cited elsewhere.                                                *)

LEMMA SumType ==
  ASSUME NEW S, IsFiniteSet(S), NEW f, \A x \in S : f[x] \in Int
  PROVE  SumFunctionOnSet(f, S) \in Int
BY SumSolves

LEMMA SumEmpty == ASSUME NEW f PROVE SumFunctionOnSet(f, {}) = 0
<1>1. IsFiniteSet({}) BY FS_EmptySet
<1>2. \A x \in {} : f[x] \in Int OBVIOUS
<1>3. \A s \in SUBSET {} :
        SumFunctionOnSet(f, s) = IF s = {} THEN 0
          ELSE f[Chosen(s)] + SumFunctionOnSet(f, s \ {Chosen(s)})
  BY <1>1, <1>2, SumSolves
<1>4. {} \in SUBSET {} OBVIOUS
<1> QED BY <1>3, <1>4

LEMMA SumTable ==
  ASSUME NEW S, IsFiniteSet(S), NEW f, \A x \in S : f[x] \in Int
  PROVE  Adds([s \in SUBSET S |-> SumFunctionOnSet(f, s)], f, S)
<1>1. \A s \in SUBSET S : s \ {Chosen(s)} \in SUBSET S
  OBVIOUS
<1>2. \A s \in SUBSET S :
        SumFunctionOnSet(f, s) = IF s = {} THEN 0
          ELSE f[Chosen(s)] + SumFunctionOnSet(f, s \ {Chosen(s)})
  BY SumSolves
<1> QED BY <1>1, <1>2 DEF Adds

LEMMA SumAgrees ==
  ASSUME NEW S, IsFiniteSet(S), NEW f, NEW e,
         \A x \in S : f[x] \in Int, \A x \in S : f[x] = e[x]
  PROVE  SumFunctionOnSet(f, S) = SumFunctionOnSet(e, S)
<1> DEFINE g == [s \in SUBSET S |-> SumFunctionOnSet(f, s)]
           h == [s \in SUBSET S |-> SumFunctionOnSet(e, s)]
<1>1. \A x \in S : e[x] \in Int
  OBVIOUS
<1>2. Adds(g, f, S)
  BY SumTable
<1>3. Adds(h, e, S)
  BY <1>1, SumTable
<1>4. g[S] = SumFunctionOnSet(f, S) /\ h[S] = SumFunctionOnSet(e, S)
  OBVIOUS
<1>5. g[S] = h[S]
  <2> HIDE DEF g, h
  <2> QED BY <1>2, <1>3, OneSolution
<1> QED BY <1>4, <1>5

\* Any element may be taken out.
LEMMA SumRemove ==
  ASSUME NEW S, IsFiniteSet(S), NEW f, \A x \in S : f[x] \in Int, NEW y \in S
  PROVE  SumFunctionOnSet(f, S) = f[y] + SumFunctionOnSet(f, S \ {y})
<1> DEFINE g == [s \in SUBSET S |-> SumFunctionOnSet(f, s)]
<1>1. /\ g \in [SUBSET S -> Int]
      /\ \A s \in SUBSET S : s # {} => g[s] = f[Chosen(s)] + g[s \ {Chosen(s)}]
      /\ \A s \in SUBSET S : g[s] = SumFunctionOnSet(f, s)
  <2>1. \A s \in SUBSET S :
          /\ SumFunctionOnSet(f, s) \in Int
          /\ SumFunctionOnSet(f, s)
               = IF s = {} THEN 0
                 ELSE f[Chosen(s)] + SumFunctionOnSet(f, s \ {Chosen(s)})
    BY SumSolves
  <2>2. \A s \in SUBSET S : s \ {Chosen(s)} \in SUBSET S OBVIOUS
  <2> QED BY <2>1, <2>2
<1> HIDE DEF g
<1> DEFINE Removes(n) ==
      \A s \in SUBSET S : Cardinality(s) = n => \A x \in s : g[s] = f[x] + g[s \ {x}]
           P == {n \in Nat : Removes(n)}
<1>2. \A s \in SUBSET S : /\ Cardinality(s) \in Nat
                          /\ Cardinality(s) = 0 <=> s = {}
                          /\ \A x \in s : /\ s \ {x} \in SUBSET S
                                          /\ Cardinality(s \ {x}) = Cardinality(s) - 1
  BY SubsetFacts
<1>3. 0 \in P BY <1>2
<1>4. ASSUME NEW n \in P PROVE n + 1 \in P
  <2> SUFFICES ASSUME NEW s \in SUBSET S, Cardinality(s) = n + 1, NEW x \in s
               PROVE  g[s] = f[x] + g[s \ {x}]
    OBVIOUS
  <2> DEFINE c == Chosen(s)
  <2>0. n \in Nat /\ Removes(n) OBVIOUS
  <2>1. c \in s BY ChosenIn
  <2>2. g[s] = f[c] + g[s \ {c}] BY <1>1, <2>1
  <2>3. CASE x = c BY <2>2, <2>3
  <2>4. CASE x # c
    <3> HIDE DEF c
    <3>1. Cardinality(s \ {c}) = n /\ s \ {c} \in SUBSET S /\ x \in s \ {c}
      BY <1>2, <2>0, <2>1, <2>4
    <3>2. Cardinality(s \ {x}) = n /\ s \ {x} \in SUBSET S /\ c \in s \ {x}
      BY <1>2, <2>0, <2>1, <2>4
    <3>3. g[s \ {c}] = f[x] + g[(s \ {c}) \ {x}] BY <2>0, <3>1
    <3>4. g[s \ {x}] = f[c] + g[(s \ {x}) \ {c}] BY <2>0, <3>2
    <3> DEFINE rest == g[(s \ {x}) \ {c}]
    <3>5. (s \ {c}) \ {x} = (s \ {x}) \ {c} OBVIOUS
    <3>6. f[x] \in Int /\ f[c] \in Int /\ rest \in Int
      BY <1>1, <2>1
    <3>7. g[s \ {c}] = f[x] + rest /\ g[s \ {x}] = f[c] + rest
      BY <3>3, <3>4, <3>5
    <3> HIDE DEF rest
    <3> QED BY <2>2, <3>6, <3>7
  <2> QED BY <2>3, <2>4
<1>5. P = Nat
  <2>1. P \in SUBSET Nat OBVIOUS
  <2> HIDE DEF P
  <2> QED BY <1>3, <1>4, <2>1, SetInduction
<1>6. Removes(Cardinality(S)) BY <1>2, <1>5
<1>7. g[S] = f[y] + g[S \ {y}] BY <1>6
<1> QED BY <1>1, <1>7

LEMMA SumAdd ==
  ASSUME NEW S, IsFiniteSet(S), NEW f, NEW y, y \notin S, f[y] \in Int,
         \A x \in S : f[x] \in Int
  PROVE  SumFunctionOnSet(f, S \union {y}) = SumFunctionOnSet(f, S) + f[y]
<1>1. IsFiniteSet(S \union {y}) BY FS_AddElement
<1>2. (S \union {y}) \ {y} = S OBVIOUS
<1>3. \A x \in S \union {y} : f[x] \in Int OBVIOUS
<1>4. SumFunctionOnSet(f, S \union {y})
        = f[y] + SumFunctionOnSet(f, (S \union {y}) \ {y})
  BY <1>1, <1>3, SumRemove
<1>5. SumFunctionOnSet(f, S) \in Int BY SumType
<1>6. SumFunctionOnSet(f, S \union {y}) = f[y] + SumFunctionOnSet(f, S)
  BY <1>2, <1>4
<1> QED BY <1>5, <1>6

\* Sums of disjoint sets.
LEMMA SumUnion ==
  ASSUME NEW S, IsFiniteSet(S), NEW T, IsFiniteSet(T), S \cap T = {},
         NEW f, \A x \in S \union T : f[x] \in Int
  PROVE  SumFunctionOnSet(f, S \union T)
           = SumFunctionOnSet(f, S) + SumFunctionOnSet(f, T)
<1> DEFINE Splits(n) ==
      \A t \in SUBSET T : Cardinality(t) = n =>
        SumFunctionOnSet(f, S \union t)
          = SumFunctionOnSet(f, S) + SumFunctionOnSet(f, t)
           P == {n \in Nat : Splits(n)}
<1>1. \A t \in SUBSET T : /\ IsFiniteSet(t) /\ Cardinality(t) \in Nat
                          /\ Cardinality(t) = 0 <=> t = {}
                          /\ \A x \in t : Cardinality(t \ {x}) = Cardinality(t) - 1
  BY SubsetFacts
<1>2. SumFunctionOnSet(f, S) \in Int BY SumType
<1>3. 0 \in P
  <2>1. S \union {} = S OBVIOUS
  <2> QED BY <1>1, <1>2, <2>1, SumEmpty
<1>4. ASSUME NEW n \in P PROVE n + 1 \in P
  <2> SUFFICES ASSUME NEW t \in SUBSET T, Cardinality(t) = n + 1
               PROVE  SumFunctionOnSet(f, S \union t)
                        = SumFunctionOnSet(f, S) + SumFunctionOnSet(f, t)
    OBVIOUS
  <2>0. n \in Nat /\ Splits(n) OBVIOUS
  <2>1. PICK y \in t : TRUE BY <1>1, <2>0
  <2> DEFINE r == t \ {y}
  <2>2. r \in SUBSET T /\ Cardinality(r) = n /\ IsFiniteSet(r) BY <1>1, <2>0
  <2>3. SumFunctionOnSet(f, S \union r)
          = SumFunctionOnSet(f, S) + SumFunctionOnSet(f, r)
    BY <2>0, <2>2
  <2>4. S \union t = (S \union r) \union {y} /\ y \notin S \union r /\ t = r \union {y}
    OBVIOUS
  <2>5. IsFiniteSet(S \union r) BY <2>2, FS_Union
  <2>6. f[y] \in Int /\ \A x \in S \union r : f[x] \in Int OBVIOUS
  <2> HIDE DEF r
  <2>7. SumFunctionOnSet(f, S \union t) = SumFunctionOnSet(f, S \union r) + f[y]
    BY <2>4, <2>5, <2>6, SumAdd
  <2>8. SumFunctionOnSet(f, t) = SumFunctionOnSet(f, r) + f[y]
    <3>1. y \notin r /\ \A x \in r : f[x] \in Int BY <2>4, <2>6
    <3>2. SumFunctionOnSet(f, r \union {y}) = SumFunctionOnSet(f, r) + f[y]
      BY <2>2, <2>6, <3>1, SumAdd
    <3> QED BY <2>4, <3>2
  <2>9. SumFunctionOnSet(f, r) \in Int BY <2>2, <2>6, SumType
  <2> QED BY <1>2, <2>3, <2>6, <2>7, <2>8, <2>9
<1>5. P = Nat
  <2>1. P \in SUBSET Nat OBVIOUS
  <2> HIDE DEF P
  <2> QED BY <1>3, <1>4, <2>1, SetInduction
<1>6. Splits(Cardinality(T)) BY <1>1, <1>5
<1> QED BY <1>6

LEMMA SumNat ==
  ASSUME NEW S, IsFiniteSet(S), NEW f, \A x \in S : f[x] \in Nat
  PROVE  SumFunctionOnSet(f, S) \in Nat
<1> DEFINE Natural(n) ==
      \A s \in SUBSET S : Cardinality(s) = n => SumFunctionOnSet(f, s) \in Nat
           P == {n \in Nat : Natural(n)}
<1>1. \A s \in SUBSET S : /\ IsFiniteSet(s) /\ Cardinality(s) \in Nat
                          /\ Cardinality(s) = 0 <=> s = {}
                          /\ \A x \in s : Cardinality(s \ {x}) = Cardinality(s) - 1
  BY SubsetFacts
<1>2. 0 \in P BY <1>1, SumEmpty
<1>3. ASSUME NEW n \in P PROVE n + 1 \in P
  <2> SUFFICES ASSUME NEW s \in SUBSET S, Cardinality(s) = n + 1
               PROVE  SumFunctionOnSet(f, s) \in Nat
    OBVIOUS
  <2>0. n \in Nat /\ Natural(n) OBVIOUS
  <2>1. PICK y \in s : TRUE BY <1>1, <2>0
  <2>2. SumFunctionOnSet(f, s \ {y}) \in Nat BY <1>1, <2>0
  <2>3. SumFunctionOnSet(f, s) = f[y] + SumFunctionOnSet(f, s \ {y})
    <3>1. IsFiniteSet(s) /\ \A x \in s : f[x] \in Int BY <1>1
    <3> QED BY <3>1, SumRemove
  <2>4. f[y] \in Nat OBVIOUS
  <2> QED BY <2>2, <2>3, <2>4
<1>4. P = Nat
  <2>1. P \in SUBSET Nat OBVIOUS
  <2> HIDE DEF P
  <2> QED BY <1>2, <1>3, <2>1, SetInduction
<1>5. Natural(Cardinality(S)) BY <1>1, <1>4
<1> QED BY <1>5

\* Fewer natural numbers make no larger sum.
LEMMA SumMonotone ==
  ASSUME NEW T, IsFiniteSet(T), NEW S \in SUBSET T, NEW f, \A x \in T : f[x] \in Nat
  PROVE  SumFunctionOnSet(f, S) <= SumFunctionOnSet(f, T)
<1>1. IsFiniteSet(S) /\ IsFiniteSet(T \ S) BY FS_Subset
<1>2. S \union (T \ S) = T /\ S \cap (T \ S) = {} OBVIOUS
<1>3. SumFunctionOnSet(f, T) = SumFunctionOnSet(f, S) + SumFunctionOnSet(f, T \ S)
  <2>1. \A x \in S \union (T \ S) : f[x] \in Int OBVIOUS
  <2>2. SumFunctionOnSet(f, S \union (T \ S))
          = SumFunctionOnSet(f, S) + SumFunctionOnSet(f, T \ S)
    BY <1>1, <1>2, <2>1, SumUnion
  <2> QED BY <1>2, <2>2
<1>4. SumFunctionOnSet(f, S) \in Nat /\ SumFunctionOnSet(f, T \ S) \in Nat
  BY <1>1, SumNat
<1> QED BY <1>3, <1>4

\* No summand is larger than a sum of natural numbers.
LEMMA SumAtLeast ==
  ASSUME NEW S, IsFiniteSet(S), NEW f, \A x \in S : f[x] \in Nat, NEW y \in S
  PROVE  f[y] <= SumFunctionOnSet(f, S)
<1>1. \A x \in S : f[x] \in Int
  OBVIOUS
<1>2. SumFunctionOnSet(f, S) = f[y] + SumFunctionOnSet(f, S \ {y})
  BY <1>1, SumRemove
<1>3. IsFiniteSet(S \ {y}) /\ \A x \in S \ {y} : f[x] \in Nat
  BY FS_Subset
<1>4. SumFunctionOnSet(f, S \ {y}) \in Nat
  BY <1>3, SumNat
<1>5. f[y] \in Nat
  OBVIOUS
<1> QED BY <1>2, <1>4, <1>5

\* Summands that cancel each other make sums that do.
LEMMA SumOpposite ==
  ASSUME NEW S, IsFiniteSet(S), NEW f, NEW e, \A x \in S : f[x] \in Int,
         \A x \in S : e[x] \in Int /\ e[x] + f[x] = 0
  PROVE  SumFunctionOnSet(e, S) + SumFunctionOnSet(f, S) = 0
<1> DEFINE Opposite(n) ==
      \A s \in SUBSET S :
        Cardinality(s) = n => SumFunctionOnSet(e, s) + SumFunctionOnSet(f, s) = 0
           P == {n \in Nat : Opposite(n)}
<1>1. \A s \in SUBSET S : /\ IsFiniteSet(s) /\ Cardinality(s) \in Nat
                          /\ Cardinality(s) = 0 <=> s = {}
                          /\ \A x \in s : Cardinality(s \ {x}) = Cardinality(s) - 1
  BY SubsetFacts
<1>2. 0 \in P
  <2>1. SumFunctionOnSet(f, {}) = 0 /\ SumFunctionOnSet(e, {}) = 0 BY SumEmpty
  <2>2. SumFunctionOnSet(e, {}) + SumFunctionOnSet(f, {}) = 0 BY <2>1
  <2>3. \A s \in SUBSET S : Cardinality(s) = 0 => s = {} BY <1>1
  <2> QED BY <2>2, <2>3
<1>3. ASSUME NEW n \in P PROVE n + 1 \in P
  <2> SUFFICES ASSUME NEW s \in SUBSET S, Cardinality(s) = n + 1
               PROVE  SumFunctionOnSet(e, s) + SumFunctionOnSet(f, s) = 0
    OBVIOUS
  <2>0. n \in Nat /\ Opposite(n) OBVIOUS
  <2>1. PICK y \in s : TRUE BY <1>1, <2>0
  <2> DEFINE r == s \ {y}
  <2>2. r \in SUBSET S /\ Cardinality(r) = n /\ IsFiniteSet(r) BY <1>1, <2>0
  <2>3. SumFunctionOnSet(e, r) + SumFunctionOnSet(f, r) = 0 BY <2>0, <2>2
  <2>4. IsFiniteSet(s) /\ \A x \in s : f[x] \in Int BY <1>1
  <2>5. \A x \in s : e[x] \in Int OBVIOUS
  <2>6. SumFunctionOnSet(f, s) = f[y] + SumFunctionOnSet(f, r) BY <2>4, SumRemove
  <2>7. SumFunctionOnSet(e, s) = e[y] + SumFunctionOnSet(e, r) BY <2>4, <2>5, SumRemove
  <2>8. SumFunctionOnSet(f, r) \in Int /\ SumFunctionOnSet(e, r) \in Int
    BY <2>2, <2>4, <2>5, SumType
  <2>9. f[y] \in Int /\ e[y] \in Int /\ e[y] + f[y] = 0 OBVIOUS
  <2> QED BY <2>3, <2>6, <2>7, <2>8, <2>9
<1>4. P = Nat
  <2>1. P \in SUBSET Nat OBVIOUS
  <2> HIDE DEF P
  <2> QED BY <1>2, <1>3, <2>1, SetInduction
<1>5. Opposite(Cardinality(S)) BY <1>1, <1>4
<1> QED BY <1>5

\* A sum over the values of a one-to-one function is a sum over its arguments.
LEMMA SumImage ==
  ASSUME NEW S, IsFiniteSet(S), NEW g, \A x, y \in S : g[x] = g[y] => x = y,
         NEW f, NEW e, \A x \in S : f[g[x]] \in Int, \A x \in S : e[x] = f[g[x]]
  PROVE  SumFunctionOnSet(f, {g[x] : x \in S}) = SumFunctionOnSet(e, S)
<1> DEFINE Image(s) == {g[x] : x \in s}
           Equal(n) ==
             \A s \in SUBSET S : Cardinality(s) = n =>
               /\ IsFiniteSet(Image(s))
               /\ SumFunctionOnSet(f, Image(s)) = SumFunctionOnSet(e, s)
           P == {n \in Nat : Equal(n)}
<1>1. \A s \in SUBSET S : /\ IsFiniteSet(s) /\ Cardinality(s) \in Nat
                          /\ Cardinality(s) = 0 <=> s = {}
                          /\ \A x \in s : Cardinality(s \ {x}) = Cardinality(s) - 1
  BY SubsetFacts
<1>2. 0 \in P
  <2>1. Image({}) = {} OBVIOUS
  <2>2. IsFiniteSet({}) BY FS_EmptySet
  <2>3. SumFunctionOnSet(f, {}) = 0 /\ SumFunctionOnSet(e, {}) = 0 BY SumEmpty
  <2> HIDE DEF Image
  <2> QED BY <1>1, <2>1, <2>2, <2>3
<1>3. ASSUME NEW n \in P PROVE n + 1 \in P
  <2> SUFFICES ASSUME NEW s \in SUBSET S, Cardinality(s) = n + 1
               PROVE  /\ IsFiniteSet(Image(s))
                      /\ SumFunctionOnSet(f, Image(s)) = SumFunctionOnSet(e, s)
    OBVIOUS
  <2>0. n \in Nat OBVIOUS
  <2>12. Equal(n) OBVIOUS
  <2> HIDE DEF P, Equal
  <2>1. PICK y \in s : TRUE BY <1>1, <2>0
  <2> DEFINE r == s \ {y}
  <2>2. r \in SUBSET S /\ Cardinality(r) = n /\ IsFiniteSet(r) BY <1>1, <2>0
  <2>3. IsFiniteSet(Image(r)) /\ SumFunctionOnSet(f, Image(r)) = SumFunctionOnSet(e, r)
    BY <2>12, <2>2 DEF Equal
  <2>4. Image(s) = Image(r) \union {g[y]} /\ g[y] \notin Image(r)
    <3>1. \A z : z \in Image(s) <=> z \in Image(r) \/ z = g[y] BY <2>1
    <3>2. \A x \in r : x \in S /\ x # y BY <2>1
    <3>3. y \in S /\ g[y] \notin Image(r) BY <2>1, <3>2
    <3> HIDE DEF Image
    <3>4. Image(s) = Image(r) \union {g[y]} BY <3>1
    <3> QED BY <3>3, <3>4
  <2>5. f[g[y]] \in Int /\ e[y] = f[g[y]] OBVIOUS
  <2>6. \A z \in Image(r) : f[z] \in Int BY <2>2
  <2>7. IsFiniteSet(s) /\ \A x \in s : e[x] \in Int BY <1>1
  <2> HIDE DEF Image
  <2>8. SumFunctionOnSet(f, Image(s)) = SumFunctionOnSet(f, Image(r)) + f[g[y]]
    <3> DEFINE z == g[y]
                others == Image(r)
    <3>1. f[z] \in Int /\ z \notin others BY <2>4, <2>5
    <3>2. IsFiniteSet(others) /\ \A x \in others : f[x] \in Int BY <2>3, <2>6
    <3> HIDE DEF z, others
    <3>3. SumFunctionOnSet(f, others \union {z}) = SumFunctionOnSet(f, others) + f[z]
      BY <3>1, <3>2, SumAdd
    <3> QED BY <2>4, <3>3 DEF z, others
  <2>9. SumFunctionOnSet(e, s) = e[y] + SumFunctionOnSet(e, r) BY <2>7, SumRemove
  <2>10. SumFunctionOnSet(e, r) \in Int BY <2>2, <2>7, SumType
  <2>11. IsFiniteSet(Image(s))
    <3>1. IsFiniteSet(Image(r) \union {g[y]}) BY <2>3, FS_AddElement
    <3> QED BY <2>4, <3>1
  <2> QED BY <2>3, <2>5, <2>8, <2>9, <2>10, <2>11
<1>4. P = Nat
  <2>1. P \in SUBSET Nat OBVIOUS
  <2> HIDE DEF P
  <2> QED BY <1>2, <1>3, <2>1, SetInduction
<1>5. Equal(Cardinality(S)) BY <1>1, <1>4
<1> QED BY <1>5
=============================================================================
