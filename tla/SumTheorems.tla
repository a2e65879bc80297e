----------------------------- MODULE SumTheorems -----------------------------
(***************************************************************************)
(* What SumFunctionOnSet computes, for every finite set: the properties of *)
(* sums that the proofs about fees, gas and lists need.  The fold behind   *)
(* it takes the elements in an order given by CHOOSE, so the first thing   *)
(* to show is that the recursion has a solution, the second that the order *)
(* does not matter.  Induction is by minimal counterexample (WFMin).       *)
(***************************************************************************)
EXTENDS FiniteSetTheorems, TLAPS

\* A nonempty collection of subsets of a finite set has a minimal element.
LEMMA MinimalSubset ==
    ASSUME NEW S, IsFiniteSet(S), NEW B \in SUBSET (SUBSET S), B # {}
    PROVE  \E T \in B : \A U \in B : U \subseteq T => U = T
<1>1. IsWellFoundedOn(StrictSubsetOrdering(S), SUBSET S)
  BY FS_StrictSubsetOrderingWellFounded, FS_FiniteSubsetsOfFinite, Zenon
<1>2. PICK T \in B : \A U \in B : ~(<<U, T>> \in StrictSubsetOrdering(S))
  BY <1>1, WFMin, Zenon
<1> QED BY <1>2 DEF StrictSubsetOrdering

------------------------------------------------------------------------------
(* The recursion                                                           *)

\* The element the fold takes first.
Taken(s) == CHOOSE x \in s : TRUE

\* g solves the recursion of the fold for the sum of f over subsets of S.
Adds(g, f, S) ==
    g = [s \in SUBSET S |-> IF s = {} THEN 0 ELSE f[Taken(s)] + g[s \ {Taken(s)}]]

\* It is an element.
LEMMA TakenIsMember ==
    ASSUME NEW s, s # {}
    PROVE  Taken(s) \in s
BY DEF Taken

\* The sum is the value at S of a chosen solution.
LEMMA SumIsChosen ==
    ASSUME NEW f, NEW S
    PROVE  SumFunctionOnSet(f, S) = (CHOOSE g : Adds(g, f, S))[S]
BY DEF SumFunctionOnSet, FoldFunctionOnSet, MapThenFoldSet, Adds, Taken

\* Two solutions are the same.
LEMMA AddsUnique ==
    ASSUME NEW f, NEW S, IsFiniteSet(S), NEW g, NEW h, Adds(g, f, S), Adds(h, f, S)
    PROVE  g = h
<1> DEFINE Bad == {s \in SUBSET S : g[s] # h[s]}
<1>1. Bad = {}
  <2> SUFFICES ASSUME Bad # {} PROVE FALSE
    OBVIOUS
  <2>0. Bad \in SUBSET (SUBSET S)
    OBVIOUS
  <2>1. PICK T \in Bad : \A U \in Bad : U \subseteq T => U = T
    <3> HIDE DEF Bad
    <3> QED BY <2>0, MinimalSubset
  <2>2. CASE T = {}
    BY <2>1, <2>2 DEF Adds
  <2>3. CASE T # {}
    <3>1. Taken(T) \in T
      BY <2>3, TakenIsMember
    <3>2. T \ {Taken(T)} \in SUBSET S /\ T \ {Taken(T)} \notin Bad
      BY <2>1, <3>1
    <3>3. g[T \ {Taken(T)}] = h[T \ {Taken(T)}]
      BY <3>2
    <3>4. /\ g[T] = f[Taken(T)] + g[T \ {Taken(T)}]
          /\ h[T] = f[Taken(T)] + h[T \ {Taken(T)}]
      BY <2>1, <2>3 DEF Adds
    <3> QED BY <2>1, <3>3, <3>4
  <2> QED BY <2>2, <2>3
<1>2. \A s \in SUBSET S : g[s] = h[s]
  BY <1>1
<1>3. g = [s \in SUBSET S |-> g[s]] /\ h = [s \in SUBSET S |-> h[s]]
  BY DEF Adds
<1> QED BY <1>2, <1>3

\* What the sum over S is by the recursion.
BySteps(f, S) ==
    IF S = {} THEN 0 ELSE f[Taken(S)] + SumFunctionOnSet(f, S \ {Taken(S)})

\* If the sums over all smaller sets follow the recursion, so does the sum over S:
\* together they make a solution.
LEMMA SumFollows ==
    ASSUME NEW f, NEW S, IsFiniteSet(S),
           \A U \in SUBSET S : U # S => SumFunctionOnSet(f, U) = BySteps(f, U)
    PROVE  SumFunctionOnSet(f, S) = BySteps(f, S)
<1> DEFINE g == [s \in SUBSET S |-> IF s = S THEN BySteps(f, S)
                                               ELSE SumFunctionOnSet(f, s)]
<1>1. ASSUME NEW s \in SUBSET S
      PROVE  g[s] = IF s = {} THEN 0 ELSE f[Taken(s)] + g[s \ {Taken(s)}]
  <2>1. g[s] = BySteps(f, s)
    OBVIOUS
  <2>2. CASE s = {}
    BY <2>1, <2>2 DEF BySteps
  <2>3. CASE s # {}
    <3>1. Taken(s) \in s
      BY <2>3, TakenIsMember
    <3>2. s \ {Taken(s)} \in SUBSET S /\ s \ {Taken(s)} # S
      BY <3>1
    <3>3. g[s \ {Taken(s)}] = SumFunctionOnSet(f, s \ {Taken(s)})
      BY <3>2
    <3> QED BY <2>1, <2>3, <3>3 DEF BySteps
  <2> QED BY <2>2, <2>3
<1>2. Adds(g, f, S)
  BY <1>1 DEF Adds
<1>3. g[S] = BySteps(f, S)
  OBVIOUS
<1> HIDE DEF g
<1>4. Adds(CHOOSE h : Adds(h, f, S), f, S)
  BY <1>2
<1>5. (CHOOSE h : Adds(h, f, S)) = g
  BY <1>2, <1>4, AddsUnique
<1> QED BY <1>3, <1>5, SumIsChosen

\* The sum over a finite set satisfies its recursion.
LEMMA SumRecursion ==
    ASSUME NEW f, NEW S, IsFiniteSet(S)
    PROVE  SumFunctionOnSet(f, S) = BySteps(f, S)
<1> DEFINE Bad == {s \in SUBSET S : SumFunctionOnSet(f, s) # BySteps(f, s)}
<1> SUFFICES ASSUME Bad # {} PROVE FALSE
  OBVIOUS
<1>0. Bad \in SUBSET (SUBSET S)
  OBVIOUS
<1>1. PICK T \in Bad : \A U \in Bad : U \subseteq T => U = T
  <2> HIDE DEF Bad
  <2> QED BY <1>0, MinimalSubset
<1>2. IsFiniteSet(T)
  BY <1>1, FS_Subset
<1>3. \A U \in SUBSET T : U # T => SumFunctionOnSet(f, U) = BySteps(f, U)
  BY <1>1
<1>4. SumFunctionOnSet(f, T) = BySteps(f, T)
  BY <1>2, <1>3, SumFollows
<1> QED BY <1>1, <1>4

------------------------------------------------------------------------------
(* Sums of integers                                                        *)

\* Nothing adds up to 0.
LEMMA SumEmpty ==
    ASSUME NEW f
    PROVE  SumFunctionOnSet(f, {}) = 0
BY SumRecursion, FS_EmptySet DEF BySteps

\* A sum of integers is an integer, one of natural numbers a natural number.
LEMMA SumType ==
    ASSUME NEW f, NEW S, IsFiniteSet(S), NEW N \in {Int, Nat}, \A x \in S : f[x] \in N
    PROVE  SumFunctionOnSet(f, S) \in N
<1> DEFINE Bad == {s \in SUBSET S : SumFunctionOnSet(f, s) \notin N}
<1> SUFFICES ASSUME Bad # {} PROVE FALSE
  OBVIOUS
<1>0. Bad \in SUBSET (SUBSET S)
  OBVIOUS
<1>1. PICK T \in Bad : \A U \in Bad : U \subseteq T => U = T
  <2> HIDE DEF Bad
  <2> QED BY <1>0, MinimalSubset
<1>2. SumFunctionOnSet(f, T) = BySteps(f, T)
  BY <1>1, FS_Subset, SumRecursion
<1>3. CASE T = {}
  BY <1>1, <1>2, <1>3 DEF BySteps
<1>4. CASE T # {}
  <2>1. Taken(T) \in T
    BY <1>4, TakenIsMember
  <2>2. T \ {Taken(T)} \in SUBSET S /\ T \ {Taken(T)} \notin Bad
    BY <1>1, <2>1
  <2>3. SumFunctionOnSet(f, T \ {Taken(T)}) \in N /\ f[Taken(T)] \in N
    BY <2>1, <2>2
  <2>4. f[Taken(T)] + SumFunctionOnSet(f, T \ {Taken(T)}) \in N
    BY <2>3
  <2> QED BY <1>1, <1>2, <1>4, <2>4 DEF BySteps
<1> QED BY <1>3, <1>4

\* The order does not matter: any element may be taken out first.
LEMMA SumRemove ==
    ASSUME NEW f, NEW S, IsFiniteSet(S), \A y \in S : f[y] \in Int, NEW x \in S
    PROVE  SumFunctionOnSet(f, S) = f[x] + SumFunctionOnSet(f, S \ {x})
<1> DEFINE Bad == {s \in SUBSET S : \E y \in s :
                     SumFunctionOnSet(f, s) # f[y] + SumFunctionOnSet(f, s \ {y})}
<1> SUFFICES ASSUME Bad # {} PROVE FALSE
  OBVIOUS
<1>0. Bad \in SUBSET (SUBSET S)
  OBVIOUS
<1>1. PICK T \in Bad : \A U \in Bad : U \subseteq T => U = T
  <2> HIDE DEF Bad
  <2> QED BY <1>0, MinimalSubset
<1>2. PICK y \in T : SumFunctionOnSet(f, T) # f[y] + SumFunctionOnSet(f, T \ {y})
  BY <1>1
<1> DEFINE p == Taken(T)
<1>3. p \in T
  BY <1>2, TakenIsMember
<1> HIDE DEF p
<1>4. SumFunctionOnSet(f, T) = f[p] + SumFunctionOnSet(f, T \ {p})
  BY <1>1, <1>2, FS_Subset, SumRecursion DEF BySteps, p
<1>5. y # p
  BY <1>2, <1>4
<1>6. /\ T \ {p} \notin Bad /\ T \ {y} \notin Bad
      /\ T \ {p} \in SUBSET S /\ T \ {y} \in SUBSET S
  BY <1>1, <1>2, <1>3
<1>7. SumFunctionOnSet(f, T \ {p}) = f[y] + SumFunctionOnSet(f, (T \ {p}) \ {y})
  BY <1>2, <1>5, <1>6
<1>8. (T \ {y}) \ {p} = (T \ {p}) \ {y}
  OBVIOUS
<1>9. SumFunctionOnSet(f, T \ {y}) = f[p] + SumFunctionOnSet(f, (T \ {p}) \ {y})
  BY <1>3, <1>5, <1>6, <1>8
<1>10. /\ f[y] \in Int /\ f[p] \in Int
       /\ SumFunctionOnSet(f, (T \ {p}) \ {y}) \in Int
  <2>1. (T \ {p}) \ {y} \in SUBSET S
    BY <1>1
  <2>2. IsFiniteSet((T \ {p}) \ {y})
    BY <2>1, FS_Subset
  <2> QED BY <1>1, <1>2, <1>3, <2>1, <2>2, SumType
<1> HIDE DEF Bad
<1> QED BY <1>2, <1>4, <1>7, <1>9, <1>10

\* The sum depends on the values on the set only.
LEMMA SumSame ==
    ASSUME NEW f, NEW g, NEW S, IsFiniteSet(S), \A x \in S : f[x] = g[x]
    PROVE  SumFunctionOnSet(f, S) = SumFunctionOnSet(g, S)
<1> DEFINE Bad == {s \in SUBSET S : SumFunctionOnSet(f, s) # SumFunctionOnSet(g, s)}
<1> SUFFICES ASSUME Bad # {} PROVE FALSE
  OBVIOUS
<1>0. Bad \in SUBSET (SUBSET S)
  OBVIOUS
<1>1. PICK T \in Bad : \A U \in Bad : U \subseteq T => U = T
  <2> HIDE DEF Bad
  <2> QED BY <1>0, MinimalSubset
<1>2. SumFunctionOnSet(f, T) = BySteps(f, T) /\ SumFunctionOnSet(g, T) = BySteps(g, T)
  BY <1>1, FS_Subset, SumRecursion
<1>3. CASE T = {}
  BY <1>1, <1>2, <1>3 DEF BySteps
<1>4. CASE T # {}
  <2>1. Taken(T) \in T
    BY <1>4, TakenIsMember
  <2>2. T \ {Taken(T)} \in SUBSET S /\ T \ {Taken(T)} \notin Bad
    BY <1>1, <2>1
  <2>3. SumFunctionOnSet(f, T \ {Taken(T)}) = SumFunctionOnSet(g, T \ {Taken(T)})
    BY <2>2
  <2>4. f[Taken(T)] = g[Taken(T)]
    BY <1>1, <2>1
  <2> QED BY <1>1, <1>2, <1>4, <2>3, <2>4 DEF BySteps
<1> QED BY <1>3, <1>4

\* Changing one value changes the sum by the difference.
LEMMA SumUpdate ==
    ASSUME NEW S, IsFiniteSet(S), NEW f \in [S -> Int], NEW g \in [S -> Int],
           NEW x \in S, \A y \in S \ {x} : g[y] = f[y]
    PROVE  SumFunction(g) = (SumFunction(f) - f[x]) + g[x]
<1>1. IsFiniteSet(S \ {x})
  BY FS_RemoveElement
<1>2. SumFunctionOnSet(g, S) = g[x] + SumFunctionOnSet(g, S \ {x})
  BY SumRemove
<1>3. SumFunctionOnSet(f, S) = f[x] + SumFunctionOnSet(f, S \ {x})
  BY SumRemove
<1>4. SumFunctionOnSet(g, S \ {x}) = SumFunctionOnSet(f, S \ {x})
  BY <1>1, SumSame
<1>5. SumFunctionOnSet(f, S \ {x}) \in Int
  BY <1>1, SumType
<1>6. SumFunction(g) = SumFunctionOnSet(g, S) /\ SumFunction(f) = SumFunctionOnSet(f, S)
  BY DEF SumFunction
<1>7. f[x] \in Int /\ g[x] \in Int
  OBVIOUS
<1> QED BY <1>2, <1>3, <1>4, <1>5, <1>6, <1>7

\* The sum over one element more is that element's value more.
LEMMA SumAdd ==
    ASSUME NEW f, NEW S, IsFiniteSet(S), NEW x, x \notin S, f[x] \in Int,
           \A y \in S : f[y] \in Int
    PROVE  SumFunctionOnSet(f, S \cup {x}) = SumFunctionOnSet(f, S) + f[x]
<1> DEFINE T == S \cup {x}
<1>1. IsFiniteSet(T) /\ x \in T /\ T \ {x} = S /\ \A y \in T : f[y] \in Int
  BY FS_AddElement
<1> HIDE DEF T
<1>2. SumFunctionOnSet(f, T) = f[x] + SumFunctionOnSet(f, S)
  BY <1>1, SumRemove
<1>3. SumFunctionOnSet(f, S) \in Int
  BY SumType
<1> QED BY <1>2, <1>3 DEF T

\* A sum of natural numbers is at least the sum of some of them.
LEMMA SumMonotone ==
    ASSUME NEW f, NEW S, IsFiniteSet(S), \A y \in S : f[y] \in Nat,
           NEW P \in SUBSET S
    PROVE  SumFunctionOnSet(f, P) <= SumFunctionOnSet(f, S)
<1> DEFINE Bad == {s \in SUBSET S :
                     P \subseteq s /\ ~(SumFunctionOnSet(f, P) <= SumFunctionOnSet(f, s))}
<1> SUFFICES ASSUME Bad # {} PROVE FALSE
  OBVIOUS
<1>0. Bad \in SUBSET (SUBSET S)
  OBVIOUS
<1>1. PICK T \in Bad : \A U \in Bad : U \subseteq T => U = T
  <2> HIDE DEF Bad
  <2> QED BY <1>0, MinimalSubset
<1>2. /\ IsFiniteSet(T) /\ IsFiniteSet(P) /\ P \subseteq T
      /\ \A y \in T : f[y] \in Nat /\ f[y] \in Int
      /\ ~(SumFunctionOnSet(f, P) <= SumFunctionOnSet(f, T))
  BY <1>1, FS_Subset
<1>3. SumFunctionOnSet(f, P) \in Nat /\ SumFunctionOnSet(f, T) \in Nat
  BY <1>2, SumType
<1>4. PICK x \in T : x \notin P
  BY <1>2, <1>3
<1>5. T \ {x} \in SUBSET S /\ P \subseteq T \ {x} /\ T \ {x} \notin Bad
  BY <1>1, <1>2, <1>4
<1>6. SumFunctionOnSet(f, P) <= SumFunctionOnSet(f, T \ {x})
  BY <1>5
<1>7. SumFunctionOnSet(f, T) = f[x] + SumFunctionOnSet(f, T \ {x})
  BY <1>2, <1>4, SumRemove
<1>8. SumFunctionOnSet(f, T \ {x}) \in Nat /\ f[x] \in Nat
  <2>1. IsFiniteSet(T \ {x}) /\ \A y \in T \ {x} : f[y] \in Nat
    BY <1>2, FS_RemoveElement
  <2> QED BY <1>2, <2>1, SumType
<1> HIDE DEF Bad
<1> QED BY <1>2, <1>3, <1>6, <1>7, <1>8
==============================================================================
