------------------------------ MODULE SumLemmas ------------------------------
(***************************************************************************)
(* What a sum over a finite set is: the facts about MapThenSumSet that     *)
(* the proofs about balances use. The library's induction theorems have an *)
(* operator as parameter; induction goes through a minimal counterexample  *)
(* instead.                                                                *)
(***************************************************************************)
EXTENDS Integers, FiniteSets, FiniteSetsExt, FiniteSetTheorems, TLAPS

Chosen(S) == CHOOSE x \in S : TRUE

(* The sum of f over S.                                                    *)
SumOf(f, S) == MapThenSumSet(LAMBDA x : f[x], S)

(* g solves the recursion of the sum of f over the subsets of C.           *)
IsSum(g, f, C) ==
  g = [S \in SUBSET C |->
         IF S = {} THEN 0 ELSE f[Chosen(S)] + g[S \ {Chosen(S)}]]

(* The library's fold is the recursion's solution, if there is one.        *)
LEMMA SumDef ==
  ASSUME NEW f, NEW S
  PROVE  SumOf(f, S) = (CHOOSE g : IsSum(g, f, S))[S]
  BY DEF SumOf, MapThenSumSet, MapThenFoldSet, IsSum, Chosen

(* A set of subsets of a finite set has a minimal one.                     *)
LEMMA MinimalSet ==
  ASSUME NEW C, IsFiniteSet(C), NEW Bad \in SUBSET (SUBSET C), Bad # {}
  PROVE  \E T \in Bad : \A U \in Bad : U \subseteq T => U = T
<1>1. IsWellFoundedOn(StrictSubsetOrdering(C), SUBSET C)
  BY FS_StrictSubsetOrderingWellFounded, FS_FiniteSubsetsOfFinite
<1>2. PICK T \in Bad : \A U \in Bad : <<U, T>> \notin StrictSubsetOrdering(C)
  BY <1>1, WFMin
<1>3. ASSUME NEW U \in Bad, U \subseteq T PROVE U = T
  BY <1>2, <1>3 DEF StrictSubsetOrdering
<1> QED
  BY <1>3

(* An element is chosen from every set that has one.                       *)
LEMMA ChosenOfSet == \A S : S # {} => Chosen(S) \in S
  BY DEF Chosen

(* Two solutions agree where both are defined.                             *)
LEMMA SumUnique ==
  ASSUME NEW f, NEW C, IsFiniteSet(C), NEW D, NEW g, NEW h,
         IsSum(g, f, C), IsSum(h, f, D), NEW S, S \subseteq C, S \subseteq D
  PROVE  g[S] = h[S]
<1> DEFINE Bad == {T \in SUBSET C : T \subseteq D /\ g[T] # h[T]}
<1>a. /\ g[{}] = 0
      /\ \A T \in SUBSET C : T # {} => g[T] = f[Chosen(T)] + g[T \ {Chosen(T)}]
  BY DEF IsSum
<1>b. /\ h[{}] = 0
      /\ \A T \in SUBSET D : T # {} => h[T] = f[Chosen(T)] + h[T \ {Chosen(T)}]
  BY DEF IsSum
<1>1. SUFFICES ASSUME Bad # {} PROVE FALSE
  OBVIOUS
<1>2. Bad \in SUBSET (SUBSET C)
  OBVIOUS
<1>3. \E T \in Bad : \A U \in Bad : U \subseteq T => U = T
  <2> HIDE DEF Bad
  <2> QED
    BY <1>1, <1>2, MinimalSet
<1>4. PICK T \in Bad : \A U \in Bad : U \subseteq T => U = T
  BY <1>3
<1>5. T \in SUBSET C /\ T \in SUBSET D /\ g[T] # h[T]
  OBVIOUS
<1> DEFINE R == T \ {Chosen(T)}
<1>6. T # {}
  BY <1>5, <1>a, <1>b
<1>7. R \subseteq T /\ R # T /\ R \in SUBSET C /\ R \subseteq D
  BY <1>5, <1>6, ChosenOfSet
<1>8. g[R] = h[R]
  BY <1>4, <1>7
<1> QED
  BY <1>5, <1>6, <1>8, <1>a, <1>b

(* The recursion has a solution over the subsets of a finite set.          *)
LEMMA SumExists ==
  ASSUME NEW f, NEW C, IsFiniteSet(C)
  PROVE  \E g : IsSum(g, f, C)
<1> DEFINE G(S) == CHOOSE g : IsSum(g, f, S)
           Bad == {T \in SUBSET C : ~\E g : IsSum(g, f, T)}
<1>1. SUFFICES ASSUME Bad # {} PROVE FALSE
  OBVIOUS
<1>2. Bad \in SUBSET (SUBSET C)
  OBVIOUS
<1>3. \E T \in Bad : \A U \in Bad : U \subseteq T => U = T
  <2> HIDE DEF Bad
  <2> QED
    BY <1>1, <1>2, MinimalSet
<1>4. PICK T \in Bad : \A U \in Bad : U \subseteq T => U = T
  BY <1>3
<1>5. ASSUME NEW U, U \subseteq T, U # T PROVE IsSum(G(U), f, U) /\ IsFiniteSet(U)
  <2>1. \E g : IsSum(g, f, U)
    BY <1>4, <1>5
  <2>2. IsFiniteSet(U)
    BY <1>5, FS_Subset
  <2> QED
    BY <2>1, <2>2
<1> DEFINE h == [S \in SUBSET T |->
                   IF S = {} THEN 0
                   ELSE f[Chosen(S)] + G(S \ {Chosen(S)})[S \ {Chosen(S)}]]
<1> HIDE DEF G
<1>6. ASSUME NEW R \in SUBSET T, R # T PROVE h[R] = G(R)[R]
  <2>1. IsSum(G(R), f, R)
    BY <1>5, <1>6
  <2>2. CASE R = {}
    BY <2>1, <2>2 DEF IsSum
  <2>3. CASE R # {}
    <3> DEFINE Q == R \ {Chosen(R)}
    <3>1. Q \subseteq R /\ Q \subseteq T /\ Q # T
      BY <1>6
    <3>2. IsSum(G(Q), f, Q) /\ IsFiniteSet(Q)
      BY <1>5, <3>1
    <3>3. G(Q)[Q] = G(R)[Q]
      BY <2>1, <3>1, <3>2, SumUnique
    <3>4. G(R)[R] = f[Chosen(R)] + G(R)[Q]
      BY <2>1, <2>3 DEF IsSum
    <3>5. h[R] = f[Chosen(R)] + G(Q)[Q]
      BY <2>3
    <3> QED
      BY <3>3, <3>4, <3>5
  <2> QED
    BY <2>2, <2>3
<1>7. ASSUME NEW S \in SUBSET T
      PROVE  h[S] = IF S = {} THEN 0 ELSE f[Chosen(S)] + h[S \ {Chosen(S)}]
  <2>1. CASE S = {}
    BY <2>1
  <2>2. CASE S # {}
    <3>1. S \ {Chosen(S)} \in SUBSET T /\ S \ {Chosen(S)} # T
      BY <2>2, ChosenOfSet
    <3>2. h[S \ {Chosen(S)}] = G(S \ {Chosen(S)})[S \ {Chosen(S)}]
      BY <1>6, <3>1
    <3>3. h[S] = f[Chosen(S)] + G(S \ {Chosen(S)})[S \ {Chosen(S)}]
      BY <2>2
    <3> HIDE DEF h
    <3> QED
      BY <2>2, <3>2, <3>3
  <2> QED
    BY <2>1, <2>2
<1>8. DOMAIN h = SUBSET T /\ h = [S \in SUBSET T |-> h[S]]
  OBVIOUS
<1>9. IsSum(h, f, T)
  <2> HIDE DEF h
  <2> QED
    BY <1>7, <1>8 DEF IsSum
<1> QED
  BY <1>4, <1>9

(* Nothing to add.                                                         *)
LEMMA SumEmpty == \A f : SumOf(f, {}) = 0
<1> SUFFICES ASSUME NEW f PROVE SumOf(f, {}) = 0
  OBVIOUS
<1>1. IsFiniteSet({})
  BY FS_EmptySet
<1>2. IsSum(CHOOSE g : IsSum(g, f, {}), f, {})
  BY <1>1, SumExists
<1> QED
  BY <1>2, SumDef DEF IsSum

(* The sum satisfies its recursion.                                        *)
LEMMA SumChosen ==
  ASSUME NEW f, NEW S, IsFiniteSet(S), S # {}
  PROVE  SumOf(f, S) = f[Chosen(S)] + SumOf(f, S \ {Chosen(S)})
<1> DEFINE R == S \ {Chosen(S)}
           G(T) == CHOOSE g : IsSum(g, f, T)
<1>1. R \subseteq S /\ IsFiniteSet(R)
  BY FS_Subset
<1>2. IsSum(G(S), f, S) /\ IsSum(G(R), f, R)
  BY <1>1, SumExists
<1>3. SumOf(f, S) = G(S)[S] /\ SumOf(f, R) = G(R)[R]
  BY SumDef
<1> HIDE DEF G
<1>4. G(R)[R] = G(S)[R]
  BY <1>1, <1>2, SumUnique
<1>5. G(S)[S] = f[Chosen(S)] + G(S)[R]
  BY <1>2 DEF IsSum
<1> QED
  BY <1>3, <1>4, <1>5

(* A sum of integers is one.                                               *)
LEMMA SumType ==
  ASSUME NEW S, IsFiniteSet(S), NEW f, \A x \in S : f[x] \in Int
  PROVE  SumOf(f, S) \in Int
<1> DEFINE Bad == {T \in SUBSET S : SumOf(f, T) \notin Int}
<1>1. SUFFICES ASSUME Bad # {} PROVE FALSE
  OBVIOUS
<1>2. Bad \in SUBSET (SUBSET S)
  OBVIOUS
<1>3. \E T \in Bad : \A U \in Bad : U \subseteq T => U = T
  <2> HIDE DEF Bad
  <2> QED
    BY <1>1, <1>2, MinimalSet
<1>4. PICK T \in Bad : \A U \in Bad : U \subseteq T => U = T
  BY <1>3
<1>5. T # {} /\ IsFiniteSet(T)
  <2>1. T \subseteq S /\ SumOf(f, T) \notin Int
    OBVIOUS
  <2>2. IsFiniteSet(T)
    BY <2>1, FS_Subset
  <2>3. SumOf(f, {}) \in Int
    BY SumEmpty
  <2> QED
    BY <2>1, <2>2, <2>3
<1> DEFINE R == T \ {Chosen(T)}
<1>6. Chosen(T) \in T /\ R \in SUBSET S /\ R # T
  BY <1>5, ChosenOfSet
<1>7. SumOf(f, R) \in Int
  BY <1>4, <1>6
<1>8. SumOf(f, T) = f[Chosen(T)] + SumOf(f, R)
  BY <1>5, SumChosen
<1> QED
  BY <1>6, <1>7, <1>8

(* Any element can be taken out of a sum.                                  *)
LEMMA SumRemove ==
  ASSUME NEW S, IsFiniteSet(S), NEW f, \A x \in S : f[x] \in Int, NEW x \in S
  PROVE  SumOf(f, S) = f[x] + SumOf(f, S \ {x})
<1> DEFINE Bad == {T \in SUBSET S :
                     \E y \in T : SumOf(f, T) # f[y] + SumOf(f, T \ {y})}
<1>1. SUFFICES ASSUME Bad # {} PROVE FALSE
  OBVIOUS
<1>2. Bad \in SUBSET (SUBSET S)
  OBVIOUS
<1>3. \E T \in Bad : \A U \in Bad : U \subseteq T => U = T
  <2> HIDE DEF Bad
  <2> QED
    BY <1>1, <1>2, MinimalSet
<1>4. PICK T \in Bad : \A U \in Bad : U \subseteq T => U = T
  BY <1>3
<1>5. PICK y \in T : SumOf(f, T) # f[y] + SumOf(f, T \ {y})
  BY <1>4
<1> DEFINE c == Chosen(T)
<1>6. c \in T /\ T \in SUBSET S
  BY <1>5, ChosenOfSet
<1>7. /\ IsFiniteSet(T) /\ IsFiniteSet(T \ {y}) /\ IsFiniteSet(T \ {c})
      /\ IsFiniteSet((T \ {c}) \ {y})
  BY <1>6, FS_Subset
<1>8. SumOf(f, T) = f[c] + SumOf(f, T \ {c})
  BY <1>5, <1>7, SumChosen
<1> HIDE DEF c
<1>9. c # y
  BY <1>5, <1>8
<1>10. SumOf(f, T \ {c}) = f[y] + SumOf(f, (T \ {c}) \ {y})
  <2>1. T \ {c} \in SUBSET S /\ T \ {c} # T /\ y \in T \ {c}
    BY <1>5, <1>6, <1>9
  <2> QED
    BY <1>4, <2>1
<1>11. SumOf(f, T \ {y}) = f[c] + SumOf(f, (T \ {y}) \ {c})
  <2>1. T \ {y} \in SUBSET S /\ T \ {y} # T /\ c \in T \ {y}
    BY <1>5, <1>6, <1>9
  <2> QED
    BY <1>4, <2>1
<1>12. (T \ {c}) \ {y} = (T \ {y}) \ {c}
  OBVIOUS
<1>13. SumOf(f, (T \ {c}) \ {y}) \in Int
  <2>1. \A z \in (T \ {c}) \ {y} : f[z] \in Int
    BY <1>6
  <2> QED
    BY <1>7, <2>1, SumType
<1>14. f[c] \in Int /\ f[y] \in Int
  BY <1>5, <1>6
<1> QED
  BY <1>5, <1>8, <1>10, <1>11, <1>12, <1>13, <1>14

(* An element joins a sum.                                                 *)
LEMMA SumAdd ==
  ASSUME NEW S, IsFiniteSet(S), NEW f, NEW x, x \notin S,
         \A y \in S \cup {x} : f[y] \in Int
  PROVE  SumOf(f, S \cup {x}) = f[x] + SumOf(f, S)
<1>1. IsFiniteSet(S \cup {x})
  BY FS_AddElement
<1>2. (S \cup {x}) \ {x} = S
  OBVIOUS
<1>3. SumOf(f, S \cup {x}) = f[x] + SumOf(f, (S \cup {x}) \ {x})
  BY <1>1, SumRemove
<1> QED
  BY <1>2, <1>3

(* Functions that agree on a set have the same sum over it.                *)
LEMMA SumSame ==
  ASSUME NEW S, IsFiniteSet(S), NEW f, NEW g, \A x \in S : f[x] = g[x]
  PROVE  SumOf(f, S) = SumOf(g, S)
<1> DEFINE Bad == {T \in SUBSET S : SumOf(f, T) # SumOf(g, T)}
<1>1. SUFFICES ASSUME Bad # {} PROVE FALSE
  OBVIOUS
<1>2. Bad \in SUBSET (SUBSET S)
  OBVIOUS
<1>3. \E T \in Bad : \A U \in Bad : U \subseteq T => U = T
  <2> HIDE DEF Bad
  <2> QED
    BY <1>1, <1>2, MinimalSet
<1>4. PICK T \in Bad : \A U \in Bad : U \subseteq T => U = T
  BY <1>3
<1>5. T # {} /\ IsFiniteSet(T)
  <2>1. T \subseteq S /\ SumOf(f, T) # SumOf(g, T)
    OBVIOUS
  <2>2. IsFiniteSet(T)
    BY <2>1, FS_Subset
  <2> QED
    BY <2>1, <2>2, SumEmpty
<1> DEFINE R == T \ {Chosen(T)}
<1>6. Chosen(T) \in T /\ R \in SUBSET S /\ R # T
  BY <1>5, ChosenOfSet
<1>7. SumOf(f, R) = SumOf(g, R)
  BY <1>4, <1>6
<1>8. /\ SumOf(f, T) = f[Chosen(T)] + SumOf(f, R)
      /\ SumOf(g, T) = g[Chosen(T)] + SumOf(g, R)
  BY <1>5, SumChosen
<1>9. f[Chosen(T)] = g[Chosen(T)]
  BY <1>6
<1> QED
  BY <1>4, <1>7, <1>8, <1>9

(* A sum of zeros.                                                         *)
LEMMA SumZero ==
  ASSUME NEW S, IsFiniteSet(S), NEW f, \A x \in S : f[x] = 0
  PROVE  SumOf(f, S) = 0
<1> DEFINE Bad == {T \in SUBSET S : SumOf(f, T) # 0}
<1>1. SUFFICES ASSUME Bad # {} PROVE FALSE
  OBVIOUS
<1>2. Bad \in SUBSET (SUBSET S)
  OBVIOUS
<1>3. \E T \in Bad : \A U \in Bad : U \subseteq T => U = T
  <2> HIDE DEF Bad
  <2> QED
    BY <1>1, <1>2, MinimalSet
<1>4. PICK T \in Bad : \A U \in Bad : U \subseteq T => U = T
  BY <1>3
<1>5. T # {} /\ IsFiniteSet(T)
  <2>1. T \subseteq S /\ SumOf(f, T) # 0
    OBVIOUS
  <2>2. IsFiniteSet(T)
    BY <2>1, FS_Subset
  <2> QED
    BY <2>1, <2>2, SumEmpty
<1> DEFINE R == T \ {Chosen(T)}
<1>6. Chosen(T) \in T /\ R \in SUBSET S /\ R # T
  BY <1>5, ChosenOfSet
<1>7. SumOf(f, R) = 0
  BY <1>4, <1>6
<1>8. SumOf(f, T) = f[Chosen(T)] + SumOf(f, R)
  BY <1>5, SumChosen
<1>9. f[Chosen(T)] = 0
  BY <1>6
<1> QED
  BY <1>4, <1>7, <1>8, <1>9

(* All terms are integers and one may differ.                             *)
OneChanges(f, g, x, S) ==
  /\ \A y \in S : f[y] \in Int /\ g[y] \in Int
  /\ \A y \in S \ {x} : f[y] = g[y]

(* One term of a sum changes.                                              *)
LEMMA SumChange ==
  ASSUME NEW S, IsFiniteSet(S), NEW f, NEW g, NEW x \in S, OneChanges(f, g, x, S)
  PROVE  SumOf(g, S) = SumOf(f, S) - f[x] + g[x]
<1>0. /\ \A y \in S : f[y] \in Int /\ g[y] \in Int
      /\ \A y \in S \ {x} : f[y] = g[y]
  BY DEF OneChanges
<1>1. SumOf(f, S) = f[x] + SumOf(f, S \ {x})
  BY <1>0, SumRemove
<1>3. SumOf(g, S) = g[x] + SumOf(g, S \ {x})
  BY <1>0, SumRemove
<1>4. IsFiniteSet(S \ {x})
  BY FS_Subset
<1>6. SumOf(f, S \ {x}) = SumOf(g, S \ {x})
  BY <1>0, <1>4, SumSame
<1>7. SumOf(f, S \ {x}) \in Int
  BY <1>0, <1>4, SumType
<1> QED
  BY <1>0, <1>1, <1>3, <1>6, <1>7
=============================================================================
