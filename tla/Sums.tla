--------------------------------- MODULE Sums ---------------------------------
(***************************************************************************)
(* Sums over a finite set: what SumFunctionOnSet of the community modules  *)
(* adds up to.  The order in which its fold picks the members is not       *)
(* known; the facts below do not depend on it.  They are proved by         *)
(* induction over the subsets of the set, whose strict inclusion is well   *)
(* founded.  The models say that money and goods add up, and the proofs    *)
(* about them cite these facts.  Two things follow that the proofs share   *)
(* with sums: induction along 0..n, by which a recursion is shown to have  *)
(* a solution, and the rounding of a quotient, the one inexact step of     *)
(* what is added.                                                          *)
(***************************************************************************)
EXTENDS Money, FiniteSets, Functions, FiniteSetTheorems, WellFoundedInduction, TLAPS

(* Induction over a finite set by its strict subsets: F holds of S if it   *)
(* holds of a set whenever it holds of every smaller one.  A set of F is   *)
(* found by taking a least counterexample; no operator is a parameter.     *)
LEMMA SubsetInduction ==
    ASSUME NEW S, IsFiniteSet(S), NEW F,
           \A T \in SUBSET S : (\A U \in SUBSET T : U # T => U \in F) => T \in F
    PROVE  S \in F
<1>1. SUFFICES ASSUME S \notin F PROVE FALSE
  OBVIOUS
<1> DEFINE Bad == {T \in FiniteSubsetsOf(S) : T \notin F}
<1>2. Bad \subseteq FiniteSubsetsOf(S) /\ Bad # {} /\ \A T \in Bad : T \in FiniteSubsetsOf(S) /\ T \notin F
  BY <1>1 DEF FiniteSubsetsOf
<1>0. \A T \in FiniteSubsetsOf(S) : T \notin F => T \in Bad
  OBVIOUS
<1> HIDE DEF Bad
<1>3. PICK T \in Bad : \A U \in Bad : <<U, T>> \notin StrictSubsetOrdering(S)
  BY <1>2, WFMin, FS_StrictSubsetOrderingWellFounded
<1>4. T \in SUBSET S /\ IsFiniteSet(T)
  BY <1>2, <1>3 DEF FiniteSubsetsOf
<1>5. ASSUME NEW U \in SUBSET T, U # T PROVE U \in F
  <2>1. U \in FiniteSubsetsOf(S) /\ T \in FiniteSubsetsOf(S)
    BY <1>4, FS_Subset DEF FiniteSubsetsOf
  <2>2. <<U, T>> \in StrictSubsetOrdering(S)
    BY <1>4, <1>5 DEF StrictSubsetOrdering
  <2> QED
    BY <2>1, <2>2, <1>0, <1>3
<1> QED
  BY <1>2, <1>3, <1>4, <1>5

(* The same, one member at a time.                                         *)
LEMMA SetInduction ==
    ASSUME NEW S, IsFiniteSet(S), NEW F, {} \in F,
           \A T \in SUBSET S : \A x \in S \ T : T \in F => T \cup {x} \in F
    PROVE  S \in F
<1> SUFFICES ASSUME NEW T \in SUBSET S, \A U \in SUBSET T : U # T => U \in F PROVE T \in F
  BY SubsetInduction
<1>1. ASSUME NEW x \in T PROVE T \in F
  <2>1. T \ {x} \in F /\ T \ {x} \in SUBSET S /\ x \in S \ (T \ {x})
    BY <1>1
  <2>2. T = (T \ {x}) \cup {x}
    BY <1>1
  <2>3. (T \ {x}) \cup {x} \in F
    BY <2>1
  <2> QED
    BY <2>2, <2>3
<1> QED
  BY <1>1

(* The sum of the community modules folds over the set; what follows       *)
(* unfolds it.                                                             *)
FoldPick(s) == CHOOSE x \in s : TRUE
FoldStep(f, g, s) == IF s = {} THEN 0 ELSE f[FoldPick(s)] + g[s \ {FoldPick(s)}]
FoldSolves(f, S, g) == g = [s \in SUBSET S |-> FoldStep(f, g, s)]
FoldSolution(f, S)  == CHOOSE g : g = [s \in SUBSET S |-> FoldStep(f, g, s)]

(* A sum is the value of the solution of the equation that defines it.     *)
LEMMA Unfold == ASSUME NEW f, NEW S PROVE SumFunctionOnSet(f, S) = FoldSolution(f, S)[S]
  BY DEF SumFunctionOnSet, FoldFunctionOnSet, MapThenFoldSet, FoldSolution, FoldStep, FoldPick

(* What is picked of a set is a member of it.                              *)
LEMMA PickIsMember == ASSUME NEW s, s # {} PROVE FoldPick(s) \in s
  BY DEF FoldPick

(* Solutions over different sets agree where both are defined.             *)
LEMMA SolutionsAgree ==
    ASSUME NEW f, NEW S, NEW T, NEW g, NEW h, FoldSolves(f, S, g), FoldSolves(f, T, h),
           NEW W, W \in SUBSET S, W \in SUBSET T, IsFiniteSet(W)
    PROVE  g[W] = h[W]
<1> DEFINE F == {s \in SUBSET W : g[s] = h[s]}
<1>1. ASSUME NEW s \in SUBSET W, \A u \in SUBSET s : u # s => u \in F PROVE s \in F
  <2>1. g[s] = FoldStep(f, g, s) /\ h[s] = FoldStep(f, h, s)
    BY DEF FoldSolves
  <2>2. CASE s = {}
    BY <2>1, <2>2 DEF FoldStep
  <2>3. CASE s # {}
    <3>1. FoldPick(s) \in s
      BY <2>3, PickIsMember
    <3>2. g[s \ {FoldPick(s)}] = h[s \ {FoldPick(s)}]
      BY <3>1, <1>1
    <3> QED
      BY <2>1, <2>3, <3>2 DEF FoldStep
  <2> QED
    BY <2>2, <2>3
<1> HIDE DEF F
<1>2. W \in F
  BY <1>1, SubsetInduction
<1> QED
  BY <1>2 DEF F

(* The equation has a solution over every finite set, so what is chosen    *)
(* is one.                                                                 *)
LEMMA SolutionExists ==
    ASSUME NEW f, NEW S, IsFiniteSet(S)
    PROVE  FoldSolves(f, S, FoldSolution(f, S))
<1> DEFINE F == {T \in SUBSET S : FoldSolves(f, T, FoldSolution(f, T))}
<1>1. ASSUME NEW T \in SUBSET S, \A U \in SUBSET T : U # T => U \in F PROVE T \in F
  <2> DEFINE p == [u \in SUBSET T |-> FoldSolution(f, u)[u]]
             g == [u \in SUBSET T |-> FoldStep(f, p, u)]
  <2>1. ASSUME NEW u \in SUBSET T, u # T PROVE p[u] = g[u]
    <3>1. FoldSolves(f, u, FoldSolution(f, u))
      BY <1>1, <2>1
    <3>2. p[u] = FoldStep(f, FoldSolution(f, u), u)
      BY <3>1 DEF FoldSolves
    <3>3. CASE u = {}
      BY <3>2, <3>3 DEF FoldStep
    <3>4. CASE u # {}
      <4>1. FoldPick(u) \in u
        BY <3>4, PickIsMember
      <4> DEFINE v == u \ {FoldPick(u)}
      <4>2. v \in SUBSET u /\ v \in SUBSET T /\ v # T
        BY <4>1
      <4>3. FoldSolves(f, v, FoldSolution(f, v)) /\ IsFiniteSet(v)
        BY <4>2, <1>1, FS_Subset
      <4>4. FoldSolution(f, u)[v] = FoldSolution(f, v)[v]
        BY <4>2, <4>3, <3>1, SolutionsAgree
      <4> QED
        BY <3>2, <3>4, <4>2, <4>4 DEF FoldStep
    <3> QED
      BY <3>3, <3>4
  <2>2. ASSUME NEW u \in SUBSET T PROVE FoldStep(f, p, u) = FoldStep(f, g, u)
    <3>1. CASE u = {}
      BY <3>1 DEF FoldStep
    <3>2. CASE u # {}
      <4>1. FoldPick(u) \in u
        BY <3>2, PickIsMember
      <4>2. p[u \ {FoldPick(u)}] = g[u \ {FoldPick(u)}]
        BY <4>1, <2>1
      <4> QED
        BY <3>2, <4>2 DEF FoldStep
    <3> QED
      BY <3>1, <3>2
  <2>3. FoldSolves(f, T, g)
    BY <2>2 DEF FoldSolves
  <2> HIDE DEF g
  <2>4. FoldSolves(f, T, FoldSolution(f, T))
    BY <2>3 DEF FoldSolves, FoldSolution
  <2> QED
    BY <2>4
<1> HIDE DEF F
<1>2. S \in F
  BY <1>1, SubsetInduction
<1> QED
  BY <1>2 DEF F

(* Nothing adds up to 0.                                                   *)
LEMMA SumOfNone == ASSUME NEW f PROVE SumFunctionOnSet(f, {}) = 0
<1>1. FoldSolves(f, {}, FoldSolution(f, {}))
  BY SolutionExists, FS_EmptySet
<1>2. FoldSolution(f, {})[{}] = FoldStep(f, FoldSolution(f, {}), {})
  BY <1>1 DEF FoldSolves
<1> QED
  BY <1>2, Unfold DEF FoldStep

(* One unfolding of the definition.                                        *)
LEMMA SumOfPicked ==
    ASSUME NEW f, NEW S, IsFiniteSet(S), S # {}
    PROVE  SumFunctionOnSet(f, S) = f[FoldPick(S)] + SumFunctionOnSet(f, S \ {FoldPick(S)})
<1> DEFINE R == S \ {FoldPick(S)}
<1>1. IsFiniteSet(R) /\ R \in SUBSET S
  BY FS_Subset
<1>2. FoldSolves(f, S, FoldSolution(f, S)) /\ FoldSolves(f, R, FoldSolution(f, R))
  BY <1>1, SolutionExists
<1>3. FoldSolution(f, S)[S] = FoldStep(f, FoldSolution(f, S), S)
  BY <1>2 DEF FoldSolves
<1>4. FoldSolution(f, S)[R] = FoldSolution(f, R)[R]
  BY <1>1, <1>2, SolutionsAgree
<1> QED
  BY <1>3, <1>4, Unfold DEF FoldStep

(* Integers add up to an integer.                                          *)
LEMMA SumIsInt ==
    ASSUME NEW S, IsFiniteSet(S), NEW f, \A x \in S : f[x] \in Int
    PROVE  SumFunctionOnSet(f, S) \in Int
<1> DEFINE F == {T \in SUBSET S : SumFunctionOnSet(f, T) \in Int}
<1>1. ASSUME NEW T \in SUBSET S, \A U \in SUBSET T : U # T => U \in F PROVE T \in F
  <2>1. CASE T = {}
    BY <2>1, SumOfNone
  <2>2. CASE T # {}
    <3>1. FoldPick(T) \in T /\ IsFiniteSet(T)
      BY <2>2, PickIsMember, FS_Subset
    <3>2. SumFunctionOnSet(f, T \ {FoldPick(T)}) \in Int /\ f[FoldPick(T)] \in Int
      BY <3>1, <1>1
    <3>3. SumFunctionOnSet(f, T) = f[FoldPick(T)] + SumFunctionOnSet(f, T \ {FoldPick(T)})
      BY <2>2, <3>1, SumOfPicked
    <3> QED
      BY <3>2, <3>3
  <2> QED
    BY <2>1, <2>2
<1> HIDE DEF F
<1>2. S \in F
  BY <1>1, SubsetInduction
<1> QED
  BY <1>2 DEF F

(* Any member can be taken out, not only the one that is picked: the order *)
(* does not matter.                                                        *)
LEMMA SumRemove ==
    ASSUME NEW S, IsFiniteSet(S), NEW f, \A x \in S : f[x] \in Int, NEW x \in S
    PROVE  SumFunctionOnSet(f, S) = f[x] + SumFunctionOnSet(f, S \ {x})
<1> DEFINE Holds(T) == \A y \in T : SumFunctionOnSet(f, T) = f[y] + SumFunctionOnSet(f, T \ {y})
           F == {T \in SUBSET S : Holds(T)}
<1>1. ASSUME NEW T \in SUBSET S, \A U \in SUBSET T : U # T => U \in F PROVE T \in F
  <2> SUFFICES ASSUME NEW y \in T
               PROVE  SumFunctionOnSet(f, T) = f[y] + SumFunctionOnSet(f, T \ {y})
    OBVIOUS
  <2> DEFINE c == FoldPick(T)
  <2>1. c \in T /\ IsFiniteSet(T)
    BY PickIsMember, FS_Subset
  <2>2. SumFunctionOnSet(f, T) = f[c] + SumFunctionOnSet(f, T \ {c})
    BY <2>1, SumOfPicked
  <2>3. CASE y = c
    BY <2>2, <2>3
  <2>4. CASE y # c
    <3> HIDE DEF c
    <3>1. SumFunctionOnSet(f, T \ {c}) = f[y] + SumFunctionOnSet(f, (T \ {c}) \ {y})
      BY <2>1, <2>4, <1>1
    <3>2. SumFunctionOnSet(f, T \ {y}) = f[c] + SumFunctionOnSet(f, (T \ {y}) \ {c})
      BY <2>1, <2>4, <1>1
    <3>3. (T \ {y}) \ {c} = (T \ {c}) \ {y}
      OBVIOUS
    <3>4. SumFunctionOnSet(f, (T \ {c}) \ {y}) \in Int /\ f[y] \in Int /\ f[c] \in Int
      <4>1. IsFiniteSet((T \ {c}) \ {y})
        BY <2>1, FS_Subset
      <4> QED
        BY <2>1, <4>1, SumIsInt
    <3> DEFINE rest == SumFunctionOnSet(f, (T \ {c}) \ {y})
    <3>5. SumFunctionOnSet(f, T) = f[c] + (f[y] + rest)
      BY <2>2, <3>1
    <3>6. SumFunctionOnSet(f, T \ {y}) = f[c] + rest
      BY <3>2, <3>3
    <3>7. rest \in Int
      BY <3>4
    <3> HIDE DEF rest
    <3>8. f[c] + (f[y] + rest) = f[y] + (f[c] + rest)
      BY <3>4, <3>7
    <3> QED
      BY <3>5, <3>6, <3>8
  <2> QED
    BY <2>3, <2>4
<1> HIDE DEF F
<1>2. S \in F
  BY <1>1, SubsetInduction
<1> QED
  BY <1>2 DEF F

(* A member can be added.                                                  *)
LEMMA SumAdd ==
    ASSUME NEW S, IsFiniteSet(S), NEW x, x \notin S,
           NEW f, f[x] \in Int, \A y \in S : f[y] \in Int
    PROVE  SumFunctionOnSet(f, S \cup {x}) = f[x] + SumFunctionOnSet(f, S)
<1>1. IsFiniteSet(S \cup {x})
  BY FS_AddElement
<1>2. (S \cup {x}) \ {x} = S
  OBVIOUS
<1> QED
  BY <1>1, <1>2, SumRemove

(* Only the values over the set count.                                     *)
LEMMA SumCongruent ==
    ASSUME NEW S, IsFiniteSet(S), NEW f, NEW g, \A x \in S : f[x] = g[x]
    PROVE  SumFunctionOnSet(f, S) = SumFunctionOnSet(g, S)
<1> DEFINE F == {T \in SUBSET S : SumFunctionOnSet(f, T) = SumFunctionOnSet(g, T)}
<1>1. ASSUME NEW T \in SUBSET S, \A U \in SUBSET T : U # T => U \in F PROVE T \in F
  <2>1. CASE T = {}
    BY <2>1, SumOfNone
  <2>2. CASE T # {}
    <3>1. FoldPick(T) \in T /\ IsFiniteSet(T)
      BY <2>2, PickIsMember, FS_Subset
    <3>2. SumFunctionOnSet(f, T \ {FoldPick(T)}) = SumFunctionOnSet(g, T \ {FoldPick(T)})
      BY <3>1, <1>1
    <3>3. f[FoldPick(T)] = g[FoldPick(T)]
      BY <3>1
    <3> QED
      BY <2>2, <3>1, <3>2, <3>3, SumOfPicked
  <2> QED
    BY <2>1, <2>2
<1> HIDE DEF F
<1>2. S \in F
  BY <1>1, SubsetInduction
<1> QED
  BY <1>2 DEF F

(* A change of one value changes the sum by as much.                       *)
LEMMA SumUpdate ==
    ASSUME NEW S, IsFiniteSet(S), NEW f, NEW g, NEW x \in S,
           \A y \in S : f[y] \in Int /\ g[y] \in Int, \A y \in S \ {x} : g[y] = f[y]
    PROVE  SumFunctionOnSet(g, S) = SumFunctionOnSet(f, S) - f[x] + g[x]
<1> DEFINE rest == SumFunctionOnSet(f, S \ {x})
<1>1. IsFiniteSet(S \ {x})
  BY FS_Subset
<1>2. SumFunctionOnSet(f, S) = f[x] + rest /\ SumFunctionOnSet(g, S) = g[x] + SumFunctionOnSet(g, S \ {x})
  BY SumRemove
<1>3. SumFunctionOnSet(g, S \ {x}) = rest
  BY <1>1, SumCongruent
<1>4. rest \in Int
  BY <1>1, SumIsInt
<1> HIDE DEF rest
<1> QED
  BY <1>2, <1>3, <1>4

(* Smaller values add up to less.                                          *)
LEMMA SumIsMonotone ==
    ASSUME NEW S, IsFiniteSet(S), NEW f, NEW g,
           \A x \in S : f[x] \in Int /\ g[x] \in Int /\ f[x] <= g[x]
    PROVE  SumFunctionOnSet(f, S) <= SumFunctionOnSet(g, S)
<1> DEFINE F == {T \in SUBSET S : SumFunctionOnSet(f, T) <= SumFunctionOnSet(g, T)}
<1>1. ASSUME NEW T \in SUBSET S, NEW x \in S \ T, T \in F PROVE T \cup {x} \in F
  <2>1. IsFiniteSet(T)
    BY FS_Subset
  <2> DEFINE a == SumFunctionOnSet(f, T)
             b == SumFunctionOnSet(g, T)
  <2>2. a \in Int /\ b \in Int
    BY <2>1, SumIsInt
  <2>3. SumFunctionOnSet(f, T \cup {x}) = f[x] + a /\ SumFunctionOnSet(g, T \cup {x}) = g[x] + b
    BY <2>1, SumAdd
  <2>4. a <= b
    BY <1>1
  <2> HIDE DEF a, b
  <2>5. f[x] + a <= g[x] + b
    BY <2>2, <2>4
  <2> QED
    BY <2>3, <2>5
<1>2. {} \in F
  BY SumOfNone
<1> HIDE DEF F
<1>3. S \in F
  BY <1>1, <1>2, SetInduction
<1> QED
  BY <1>3 DEF F

(* Zeros add up to 0.                                                      *)
LEMMA SumOfZeros ==
    ASSUME NEW S, IsFiniteSet(S), NEW f, \A x \in S : f[x] = 0
    PROVE  SumFunctionOnSet(f, S) = 0
<1> DEFINE F == {T \in SUBSET S : SumFunctionOnSet(f, T) = 0}
<1>1. ASSUME NEW T \in SUBSET S, NEW x \in S \ T, T \in F PROVE T \cup {x} \in F
  <2>1. IsFiniteSet(T)
    BY FS_Subset
  <2>2. f[x] = 0 /\ f[x] \in Int /\ \A y \in T : f[y] \in Int
    OBVIOUS
  <2>3. SumFunctionOnSet(f, T \cup {x}) = f[x] + SumFunctionOnSet(f, T)
    BY <2>1, <2>2, SumAdd
  <2> QED
    BY <2>2, <2>3, <1>1
<1>2. {} \in F
  BY SumOfNone
<1> HIDE DEF F
<1>3. S \in F
  BY <1>1, <1>2, SetInduction
<1> QED
  BY <1>3 DEF F

(* Of naturals, the sum is at least each of them.                          *)
LEMMA SumBoundsMember ==
    ASSUME NEW S, IsFiniteSet(S), NEW f, \A x \in S : f[x] \in Nat, NEW x \in S
    PROVE  SumFunctionOnSet(f, S) \in Nat /\ f[x] <= SumFunctionOnSet(f, S)
<1> DEFINE z == [y \in S |-> 0]
           rest == SumFunctionOnSet(f, S \ {x})
<1>1. IsFiniteSet(S \ {x})
  BY FS_Subset
<1>2. SumFunctionOnSet(z, S \ {x}) = 0
  BY <1>1, SumOfZeros
<1>3. SumFunctionOnSet(z, S \ {x}) <= rest
  BY <1>1, SumIsMonotone
<1>4. SumFunctionOnSet(f, S) = f[x] + rest
  BY SumRemove
<1>5. rest \in Int
  BY <1>1, SumIsInt
<1> HIDE DEF rest, z
<1> QED
  BY <1>2, <1>3, <1>4, <1>5

(* Sums are added member by member.                                        *)
LEMMA SumOfSums ==
    ASSUME NEW S, IsFiniteSet(S), NEW f, NEW g, NEW h,
           \A x \in S : f[x] \in Int /\ g[x] \in Int /\ h[x] = f[x] + g[x]
    PROVE  SumFunctionOnSet(h, S) = SumFunctionOnSet(f, S) + SumFunctionOnSet(g, S)
<1> DEFINE F == {T \in SUBSET S : SumFunctionOnSet(h, T) = SumFunctionOnSet(f, T) + SumFunctionOnSet(g, T)}
<1>1. ASSUME NEW T \in SUBSET S, NEW x \in S \ T, T \in F PROVE T \cup {x} \in F
  <2>1. IsFiniteSet(T)
    BY FS_Subset
  <2> DEFINE a == SumFunctionOnSet(f, T)
             b == SumFunctionOnSet(g, T)
  <2>2. a \in Int /\ b \in Int
    BY <2>1, SumIsInt
  <2>3. SumFunctionOnSet(f, T \cup {x}) = f[x] + a /\ SumFunctionOnSet(g, T \cup {x}) = g[x] + b
    BY <2>1, SumAdd
  <2>4. SumFunctionOnSet(h, T \cup {x}) = h[x] + SumFunctionOnSet(h, T)
    <3>1. h[x] \in Int /\ \A y \in T : h[y] \in Int
      OBVIOUS
    <3> QED
      BY <2>1, <3>1, SumAdd
  <2>5. SumFunctionOnSet(h, T) = a + b
    BY <1>1
  <2> HIDE DEF a, b
  <2>6. h[x] + (a + b) = (f[x] + a) + (g[x] + b)
    BY <2>2
  <2> QED
    BY <2>3, <2>4, <2>5, <2>6
<1>2. {} \in F
  BY SumOfNone
<1> HIDE DEF F
<1>3. S \in F
  BY <1>1, <1>2, SetInduction
<1> QED
  BY <1>3 DEF F

(* Members outside a subset may be counted as 0.                           *)
LEMMA SumOfSupport ==
    ASSUME NEW S, IsFiniteSet(S), NEW R \in SUBSET S, NEW f, \A x \in R : f[x] \in Int,
           NEW g, \A x \in S : g[x] = IF x \in R THEN f[x] ELSE 0
    PROVE  SumFunctionOnSet(f, R) = SumFunctionOnSet(g, S)
<1> DEFINE F == {T \in SUBSET S : SumFunctionOnSet(f, R \cap T) = SumFunctionOnSet(g, T)}
<1>1. ASSUME NEW T \in SUBSET S, NEW x \in S \ T, T \in F PROVE T \cup {x} \in F
  <2>1. IsFiniteSet(T) /\ IsFiniteSet(R \cap T)
    BY FS_Subset
  <2>0. \A y \in S : g[y] \in Int
    OBVIOUS
  <2>2. SumFunctionOnSet(g, T \cup {x}) = g[x] + SumFunctionOnSet(g, T)
    BY <2>0, <2>1, SumAdd
  <2>3. SumFunctionOnSet(g, T) \in Int
    BY <2>0, <2>1, SumIsInt
  <2>4. CASE x \in R
    <3>1. R \cap (T \cup {x}) = (R \cap T) \cup {x} /\ x \notin R \cap T
      BY <2>4
    <3>2. SumFunctionOnSet(f, (R \cap T) \cup {x}) = f[x] + SumFunctionOnSet(f, R \cap T)
      BY <2>1, <2>4, <3>1, SumAdd
    <3> QED
      BY <1>1, <2>2, <2>4, <3>1, <3>2
  <2>5. CASE x \notin R
    <3>1. R \cap (T \cup {x}) = R \cap T
      BY <2>5
    <3>2. g[x] = 0
      BY <2>5
    <3>3. SumFunctionOnSet(g, T \cup {x}) = SumFunctionOnSet(g, T)
      BY <2>2, <2>3, <3>2
    <3> QED
      BY <1>1, <3>1, <3>3
  <2> QED
    BY <2>4, <2>5
<1>2. {} \in F
  BY SumOfNone
<1> HIDE DEF F
<1>3. S \in F
  BY <1>1, <1>2, SetInduction
<1>4. R \cap S = R
  OBVIOUS
<1> QED
  BY <1>3, <1>4 DEF F

(* Two parts of a set add up to the whole.                                 *)
LEMMA SumOfUnion ==
    ASSUME NEW S, IsFiniteSet(S), NEW T, IsFiniteSet(T), S \cap T = {},
           NEW f, \A x \in S \cup T : f[x] \in Int
    PROVE  SumFunctionOnSet(f, S \cup T) = SumFunctionOnSet(f, S) + SumFunctionOnSet(f, T)
<1> DEFINE F == {U \in SUBSET T : SumFunctionOnSet(f, S \cup U) = SumFunctionOnSet(f, S) + SumFunctionOnSet(f, U)}
           a == SumFunctionOnSet(f, S)
<1>0. a \in Int
  BY SumIsInt
<1>1. ASSUME NEW U \in SUBSET T, NEW x \in T \ U, U \in F PROVE U \cup {x} \in F
  <2>1. IsFiniteSet(U) /\ IsFiniteSet(S \cup U)
    BY FS_Subset, FS_Union
  <2>2. x \notin S \cup U /\ f[x] \in Int /\ (\A y \in S \cup U : f[y] \in Int) /\ (\A y \in U : f[y] \in Int)
    OBVIOUS
  <2>3. /\ SumFunctionOnSet(f, (S \cup U) \cup {x}) = f[x] + SumFunctionOnSet(f, S \cup U)
        /\ SumFunctionOnSet(f, U \cup {x}) = f[x] + SumFunctionOnSet(f, U)
    BY <2>1, <2>2, SumAdd
  <2>4. SumFunctionOnSet(f, U) \in Int
    BY <2>1, <2>2, SumIsInt
  <2>5. SumFunctionOnSet(f, S \cup U) = a + SumFunctionOnSet(f, U)
    BY <1>1
  <2>6. S \cup (U \cup {x}) = (S \cup U) \cup {x}
    OBVIOUS
  <2> DEFINE u == SumFunctionOnSet(f, U)
  <2> HIDE DEF a, u
  <2>7. f[x] + (a + u) = a + (f[x] + u)
    BY <1>0, <2>2, <2>4 DEF u
  <2>8. SumFunctionOnSet(f, S \cup (U \cup {x})) = a + SumFunctionOnSet(f, U \cup {x})
    BY <2>3, <2>5, <2>6, <2>7 DEF u
  <2> QED
    BY <2>8 DEF a
<1>2. {} \in F
  <2>1. S \cup {} = S /\ a + 0 = a
    BY <1>0
  <2> QED
    BY <2>1, SumOfNone
<1> HIDE DEF F
<1>3. T \in F
  BY <1>1, <1>2, SetInduction
<1> QED
  BY <1>3 DEF F

(* A set that is counted by kinds is counted whole.                        *)
LEMMA SumOfKinds ==
    ASSUME NEW S, IsFiniteSet(S), NEW K, IsFiniteSet(K), NEW kind, \A x \in S : kind[x] \in K,
           NEW part, \A k \in K : part[k] = {x \in S : kind[x] = k},
           NEW f, \A x \in S : f[x] \in Int,
           NEW g, \A k \in K : g[k] = SumFunctionOnSet(f, part[k])
    PROVE  SumFunctionOnSet(g, K) = SumFunctionOnSet(f, S)
<1> DEFINE Part(L) == {x \in S : kind[x] \in L}
           F == {L \in SUBSET K : SumFunctionOnSet(g, L) = SumFunctionOnSet(f, Part(L))}
<1>0. ASSUME NEW k \in K PROVE g[k] \in Int
  <2>1. IsFiniteSet(part[k]) /\ \A x \in part[k] : f[x] \in Int
    BY FS_Subset
  <2> QED
    BY <2>1, SumIsInt
<1>1. ASSUME NEW L \in SUBSET K, NEW k \in K \ L, L \in F PROVE L \cup {k} \in F
  <2>1. /\ IsFiniteSet(L) /\ g[k] \in Int /\ \A l \in L : g[l] \in Int
        /\ IsFiniteSet(Part(L)) /\ IsFiniteSet(part[k])
    BY <1>0, FS_Subset
  <2>2. SumFunctionOnSet(g, L \cup {k}) = g[k] + SumFunctionOnSet(g, L)
    BY <2>1, SumAdd
  <2>3. Part(L \cup {k}) = part[k] \cup Part(L) /\ part[k] \cap Part(L) = {}
    OBVIOUS
  <2>4. \A x \in part[k] \cup Part(L) : f[x] \in Int
    OBVIOUS
  <2>6. ASSUME NEW A, IsFiniteSet(A), NEW B, IsFiniteSet(B), A \cap B = {}, \A x \in A \cup B : f[x] \in Int
        PROVE  SumFunctionOnSet(f, A \cup B) = SumFunctionOnSet(f, A) + SumFunctionOnSet(f, B)
    BY <2>6, SumOfUnion
  <2> HIDE DEF Part
  <2>5. SumFunctionOnSet(f, Part(L \cup {k})) = SumFunctionOnSet(f, part[k]) + SumFunctionOnSet(f, Part(L))
    BY <2>1, <2>3, <2>4, <2>6
  <2> QED
    BY <1>1, <2>2, <2>5
<1>2. {} \in F
  <2>1. Part({}) = {}
    OBVIOUS
  <2> QED
    BY <2>1, SumOfNone
<1> HIDE DEF F
<1>3. K \in F
  BY <1>1, <1>2, SetInduction
<1>4. Part(K) = S
  OBVIOUS
<1> QED
  BY <1>3, <1>4 DEF F

(* A set is counted by ones.                                               *)
LEMMA SumOfOnes ==
    ASSUME NEW S, IsFiniteSet(S), NEW f, \A x \in S : f[x] = 1
    PROVE  SumFunctionOnSet(f, S) = Cardinality(S)
<1> DEFINE F == {T \in SUBSET S : SumFunctionOnSet(f, T) = Cardinality(T)}
<1>1. ASSUME NEW T \in SUBSET S, NEW x \in S \ T, T \in F PROVE T \cup {x} \in F
  <2>1. IsFiniteSet(T) /\ Cardinality(T) \in Nat
    BY FS_Subset, FS_CardinalityType
  <2>2. f[x] = 1 /\ f[x] \in Int /\ \A y \in T : f[y] \in Int
    OBVIOUS
  <2>3. SumFunctionOnSet(f, T \cup {x}) = f[x] + SumFunctionOnSet(f, T)
    BY <2>1, <2>2, SumAdd
  <2>4. Cardinality(T \cup {x}) = Cardinality(T) + 1
    BY <2>1, FS_AddElement
  <2> QED
    BY <1>1, <2>1, <2>2, <2>3, <2>4
<1>2. {} \in F
  BY SumOfNone, FS_EmptySet
<1> HIDE DEF F
<1>3. S \in F
  BY <1>1, <1>2, SetInduction
<1> QED
  BY <1>3 DEF F

(* What a function makes of a finite set is finite.                        *)
LEMMA ImageIsFinite ==
    ASSUME NEW S, IsFiniteSet(S), NEW h
    PROVE  IsFiniteSet({h[x] : x \in S})
<1> DEFINE F == {T \in SUBSET S : IsFiniteSet({h[x] : x \in T})}
<1>1. {} \in F
  <2>1. {h[x] : x \in {}} = {}
    OBVIOUS
  <2> QED
    BY <2>1, FS_EmptySet
<1>2. ASSUME NEW T \in SUBSET S, NEW y \in S \ T, T \in F PROVE T \cup {y} \in F
  <2>1. {h[x] : x \in T \cup {y}} = {h[x] : x \in T} \cup {h[y]}
    OBVIOUS
  <2>2. IsFiniteSet({h[x] : x \in T})
    BY <1>2
  <2> HIDE DEF F
  <2>3. IsFiniteSet({h[x] : x \in T} \cup {h[y]})
    BY <2>2, FS_AddElement
  <2> QED
    BY <2>1, <2>3 DEF F
<1> HIDE DEF F
<1>3. S \in F
  BY <1>1, <1>2, SetInduction
<1> QED
  BY <1>3 DEF F

(* A set may be counted by what a one-to-one function makes of it.         *)
LEMMA SumOfImage ==
    ASSUME NEW S, IsFiniteSet(S), NEW h, \A x, y \in S : h[x] = h[y] => x = y,
           NEW f, NEW g, \A x \in S : f[x] \in Int /\ g[h[x]] = f[x]
    PROVE  SumFunctionOnSet(g, {h[x] : x \in S}) = SumFunctionOnSet(f, S)
<1> DEFINE Image(T) == {h[x] : x \in T}
           F == {T \in SUBSET S : SumFunctionOnSet(g, Image(T)) = SumFunctionOnSet(f, T)}
<1>1. {} \in F
  <2>1. Image({}) = {}
    OBVIOUS
  <2> QED
    BY <2>1, SumOfNone
<1>2. ASSUME NEW T \in SUBSET S, NEW y \in S \ T, T \in F PROVE T \cup {y} \in F
  <2>1. Image(T \cup {y}) = Image(T) \cup {h[y]} /\ h[y] \notin Image(T)
    OBVIOUS
  <2>2. IsFiniteSet(T) /\ IsFiniteSet(Image(T))
    BY FS_Subset, ImageIsFinite
  <2>3. \A x \in T : f[x] \in Int
    OBVIOUS
  <2>4. \A z \in Image(T) : g[z] \in Int
    OBVIOUS
  <2>5. g[h[y]] = f[y] /\ f[y] \in Int
    OBVIOUS
  <2> HIDE DEF Image
  <2>6. SumFunctionOnSet(g, Image(T) \cup {h[y]}) = g[h[y]] + SumFunctionOnSet(g, Image(T))
    BY <2>1, <2>2, <2>4, <2>5, SumAdd
  <2>7. SumFunctionOnSet(f, T \cup {y}) = f[y] + SumFunctionOnSet(f, T)
    BY <2>2, <2>3, <2>5, SumAdd
  <2> QED
    BY <1>2, <2>1, <2>5, <2>6, <2>7
<1> HIDE DEF F
<1>3. S \in F
  BY <1>1, <1>2, SetInduction
<1> QED
  BY <1>3 DEF F

(* A factor may be taken out of a sum.                                     *)
LEMMA SumScales ==
    ASSUME NEW S, IsFiniteSet(S), NEW a \in Int, NEW f, NEW g,
           \A x \in S : f[x] \in Int /\ g[x] = a * f[x]
    PROVE  SumFunctionOnSet(g, S) = a * SumFunctionOnSet(f, S)
<1> DEFINE F == {T \in SUBSET S : SumFunctionOnSet(g, T) = a * SumFunctionOnSet(f, T)}
<1>1. {} \in F
  BY SumOfNone
<1>2. ASSUME NEW T \in SUBSET S, NEW y \in S \ T, T \in F PROVE T \cup {y} \in F
  <2>1. IsFiniteSet(T)
    BY FS_Subset
  <2>2. \A x \in T \cup {y} : f[x] \in Int /\ g[x] \in Int /\ g[x] = a * f[x]
    OBVIOUS
  <2>3. SumFunctionOnSet(g, T \cup {y}) = g[y] + SumFunctionOnSet(g, T)
    BY <2>1, <2>2, SumAdd
  <2>4. SumFunctionOnSet(f, T \cup {y}) = f[y] + SumFunctionOnSet(f, T)
    BY <2>1, <2>2, SumAdd
  <2>5. SumFunctionOnSet(f, T) \in Int
    BY <2>1, <2>2, SumIsInt
  <2>6. SumFunctionOnSet(g, T) = a * SumFunctionOnSet(f, T)
    BY <1>2
  <2>7. ASSUME NEW b \in Int, NEW c \in Int PROVE a * b + a * c = a * (b + c)
    OBVIOUS
  <2>8. a * f[y] + a * SumFunctionOnSet(f, T) = a * (f[y] + SumFunctionOnSet(f, T))
    BY <2>2, <2>5, <2>7
  <2>9. g[y] = a * f[y]
    BY <2>2
  <2>10. SumFunctionOnSet(g, T \cup {y}) = a * SumFunctionOnSet(f, T \cup {y})
    BY <2>3, <2>4, <2>6, <2>8, <2>9
  <2> QED
    BY <2>10
<1> HIDE DEF F
<1>3. S \in F
  BY <1>1, <1>2, SetInduction
<1> QED
  BY <1>3 DEF F

(* A finite set has a member whose value is the greatest.                  *)
LEMMA GreatestExists ==
    ASSUME NEW S, IsFiniteSet(S), S # {}, NEW f, \A x \in S : f[x] \in Int
    PROVE  \E x \in S : \A y \in S : f[x] >= f[y]
<1> DEFINE F == {T \in SUBSET S : T = {} \/ \E x \in T : \A y \in T : f[x] >= f[y]}
<1>1. {} \in F
  OBVIOUS
<1>2. ASSUME NEW T \in SUBSET S, NEW x \in S \ T, T \in F PROVE T \cup {x} \in F
  <2>1. CASE T = {}
    <3>1. f[x] >= f[x]
      OBVIOUS
    <3> QED
      BY <2>1, <3>1
  <2>2. CASE T # {}
    <3>1. PICK z \in T : \A y \in T : f[z] >= f[y]
      BY <1>2, <2>2
    <3>2. f[z] \in Int /\ f[x] \in Int /\ \A y \in T : f[y] \in Int
      OBVIOUS
    <3>3. CASE f[z] >= f[x]
      BY <3>1, <3>3
    <3>4. CASE ~(f[z] >= f[x])
      <4>1. f[x] >= f[z] /\ f[x] >= f[x]
        BY <3>2, <3>4
      <4>2. \A y \in T : f[x] >= f[y]
        BY <3>1, <3>2, <4>1
      <4> QED
        BY <4>1, <4>2
    <3> QED
      BY <3>3, <3>4
  <2> QED
    BY <2>1, <2>2
<1> HIDE DEF F
<1>3. S \in F
  BY <1>1, <1>2, SetInduction
<1> QED
  BY <1>3 DEF F

(* Induction along 0..n: no operator is a parameter, so F is a set.        *)
LEMMA PrefixInduction ==
    ASSUME NEW n \in Nat, NEW F, 0 \in F,
           \A i \in 0..n : i + 1 \in 0..n => (i \in F => i + 1 \in F)
    PROVE  \A i \in 0..n : i \in F
<1> DEFINE Bad == {i \in 0..n : i \notin F}
           f   == [i \in Bad |-> -i]
<1>1. SUFFICES ASSUME Bad # {} PROVE FALSE
  OBVIOUS
<1>2. IsFiniteSet(Bad)
  <2>1. IsFiniteSet(0..n)
    BY FS_Interval
  <2> QED
    BY <2>1, FS_Subset
<1>3. \A i \in Bad : f[i] = -i /\ f[i] \in Int
  OBVIOUS
<1>4. \A i \in Bad : i \in Nat
  OBVIOUS
<1>5. PICK i \in Bad : \A j \in Bad : f[i] >= f[j]
  <2> HIDE DEF f, Bad
  <2> QED
    BY <1>1, <1>2, <1>3, GreatestExists
<1>6. \A j \in Bad : j >= i
  BY <1>3, <1>4, <1>5
<1>7. i # 0 /\ i \in 0..n
  OBVIOUS
<1>8. i - 1 \in 0..n /\ i - 1 \notin Bad
  BY <1>6, <1>7
<1>9. i - 1 \in F /\ (i - 1) + 1 = i
  BY <1>7, <1>8
<1> QED
  BY <1>7, <1>8, <1>9

(* A recursion over 0..n: each value follows from the one before it.  It   *)
(* has a solution, if what follows a value of V is one.                    *)
Recurs(g, n, s, f) == g[0] = s /\ \A i \in 1..n : g[i] = f[i][g[i - 1]]

LEMMA RecursionExists ==
    ASSUME NEW n \in Nat, NEW V, NEW s \in V, NEW f \in [1..n -> [V -> V]]
    PROVE  \E g \in [0..n -> V] : Recurs(g, n, s, f)
<1> DEFINE Solves(m, g) == Recurs(g, m, s, f)
           F == {m \in 0..n : \E g \in [0..m -> V] : Solves(m, g)}
<1> USE DEF Recurs
<1>1. 0 \in F
  <2> DEFINE g == [i \in 0..0 |-> s]
  <2>1. g \in [0..0 -> V] /\ Solves(0, g)
    OBVIOUS
  <2>2. \E h \in [0..0 -> V] : Solves(0, h)
    <3> HIDE DEF g, Solves
    <3> QED
      BY <2>1
  <2> QED
    BY <2>2
<1>2. ASSUME NEW m \in 0..n, m + 1 \in 0..n, m \in F PROVE m + 1 \in F
  <2>1. PICK g \in [0..m -> V] : Solves(m, g)
    BY <1>2
  <2> DEFINE v == f[m + 1][g[m]]
             h == [i \in 0..m + 1 |-> IF i = m + 1 THEN v ELSE g[i]]
  <2>2. m \in Nat /\ m + 1 \in 1..n /\ g[m] \in V
    BY <1>2
  <2>3. v \in V
    BY <2>2
  <2>4. h \in [0..m + 1 -> V]
    <3> HIDE DEF v
    <3> QED
      BY <2>2, <2>3
  <2>5. ASSUME NEW i \in 1..m + 1 PROVE h[i] = f[i][h[i - 1]]
    <3>1. i - 1 \in 0..m /\ h[i - 1] = g[i - 1]
      BY <2>2
    <3>2. CASE i = m + 1
      <4>1. h[i] = v /\ i - 1 = m
        BY <2>2, <3>2
      <4> QED
        BY <3>1, <3>2, <4>1
    <3>3. CASE i # m + 1
      <4>1. i \in 1..m /\ h[i] = g[i]
        BY <2>2, <3>3
      <4> QED
        BY <2>1, <3>1, <4>1
    <3> QED
      BY <3>2, <3>3
  <2>6. h[0] = s
    BY <2>1, <2>2
  <2>7. \E k \in [0..m + 1 -> V] : Solves(m + 1, k)
    <3> HIDE DEF h
    <3> QED
      BY <2>4, <2>5, <2>6
  <2> QED
    BY <1>2, <2>7
<1> HIDE DEF F
<1>3. \A m \in 0..n : m \in F
  BY <1>1, <1>2, PrefixInduction
<1>4. n \in F
  BY <1>3
<1> QED
  BY <1>4 DEF F

-----------------------------------------------------------------------------
(* Rounding: half a unit at most, in either direction.                     *)
LEMMA Quotient ==
    ASSUME NEW n \in Nat, NEW d \in Nat \ {0}
    PROVE  /\ n \div d \in Nat
           /\ d * (n \div d) <= n /\ n < d * (n \div d) + d
BY SMTT(30)

LEMMA RoundingDivides ==
    ASSUME NEW n \in Nat, NEW d \in Nat \ {0}
    PROVE  /\ RoundHalfUp(n, d) \in Nat
           /\ (2 * d) * RoundHalfUp(n, d) <= 2 * n + d
           /\ 2 * n + d < (2 * d) * RoundHalfUp(n, d) + 2 * d
<1>1. PICK a \in Nat, b \in Nat \ {0} : a = 2 * n + d /\ b = 2 * d
  OBVIOUS
<1>2. RoundHalfUp(n, d) = a \div b
  BY <1>1 DEF RoundHalfUp
<1>3. a \div b \in Nat /\ b * (a \div b) <= a /\ a < b * (a \div b) + b
  BY Quotient
<1> QED
  BY <1>1, <1>2, <1>3

LEMMA RoundingIsHalfOff ==
    ASSUME NEW n \in Nat, NEW d \in Nat \ {0}
    PROVE  /\ RoundHalfUp(n, d) \in Nat
           /\ d * RoundHalfUp(n, d) \in Int
           /\ 2 * Magnitude(d * RoundHalfUp(n, d) - n) <= d
<1>1. PICK q \in Nat : q = RoundHalfUp(n, d)
  BY RoundingDivides
<1>2. (2 * d) * q <= 2 * n + d /\ 2 * n + d < (2 * d) * q + 2 * d
  BY <1>1, RoundingDivides
<1>3. PICK m \in Int : m = d * q
  OBVIOUS
<1>4. (2 * d) * q = 2 * m
  BY <1>3, SMTT(30)
<1>5. 2 * Magnitude(m - n) <= d
  BY <1>2, <1>4 DEF Magnitude
<1> QED
  BY <1>1, <1>3, <1>5

LEMMA RoundingStaysBetween ==
    ASSUME NEW n \in Nat, NEW d \in Nat \ {0}, NEW low \in Nat, NEW high \in Nat,
           d * low <= n, n <= d * high
    PROVE  low <= RoundHalfUp(n, d) /\ RoundHalfUp(n, d) <= high
<1>1. PICK q \in Nat : q = RoundHalfUp(n, d)
  BY RoundingIsHalfOff
<1>2. (2 * d) * q <= 2 * n + d /\ 2 * n + d < (2 * d) * q + 2 * d
  BY <1>1, RoundingDivides
<1>3. ASSUME NEW a \in Nat, NEW b \in Nat, a < b PROVE d * a + d <= d * b
  BY <1>3, SMTT(30)
<1>4. PICK m \in Int : m = d * q
  OBVIOUS
<1>5. (2 * d) * q = 2 * m
  BY <1>4, SMTT(30)
<1>6. d * low \in Int /\ d * high \in Int
  OBVIOUS
<1>7. ~(q < low)
  <2> SUFFICES ASSUME q < low PROVE FALSE
    OBVIOUS
  <2>1. m + d <= d * low
    BY <1>3, <1>4
  <2> QED
    BY <1>2, <1>5, <1>6, <2>1
<1>8. ~(high < q)
  <2> SUFFICES ASSUME high < q PROVE FALSE
    OBVIOUS
  <2>1. d * high + d <= m
    BY <1>3, <1>4
  <2> QED
    BY <1>2, <1>5, <1>6, <2>1
<1> QED
  BY <1>1, <1>7, <1>8

LEMMA RoundingIsUnique ==
    ASSUME NEW n \in Nat, NEW d \in Nat \ {0}, NEW q \in Nat,
           (2 * d) * q <= 2 * n + d, 2 * n + d < (2 * d) * q + 2 * d
    PROVE  RoundHalfUp(n, d) = q
<1>1. PICK r \in Nat : r = RoundHalfUp(n, d)
  BY RoundingIsHalfOff
<1>2. (2 * d) * r <= 2 * n + d /\ 2 * n + d < (2 * d) * r + 2 * d
  BY <1>1, RoundingDivides
<1>3. ASSUME NEW a \in Nat, NEW b \in Nat, a < b PROVE (2 * d) * a + 2 * d <= (2 * d) * b
  BY <1>3, SMTT(30)
<1>4. (2 * d) * q \in Int /\ (2 * d) * r \in Int
  OBVIOUS
<1>5. ~(r < q) /\ ~(q < r)
  BY <1>2, <1>3, <1>4
<1> QED
  BY <1>1, <1>5

LEMMA RoundingScales ==
    ASSUME NEW n \in Nat, NEW d \in Nat \ {0}, NEW k \in Nat \ {0}
    PROVE  RoundHalfUp(k * n, k * d) = RoundHalfUp(n, d)
<1>1. PICK q \in Nat : q = RoundHalfUp(n, d)
  BY RoundingIsHalfOff
<1>2. PICK a \in Nat : a = (2 * d) * q
  OBVIOUS
<1>3. a <= 2 * n + d /\ 2 * n + d < a + 2 * d
  BY <1>1, <1>2, RoundingDivides
<1>4. k * n \in Nat /\ k * d \in Nat \ {0}
  BY SMTT(30)
<1>5. PICK x \in Nat, y \in Nat \ {0} : x = k * n /\ y = k * d
  BY <1>4
<1>6. (2 * y) * q = k * a
  BY <1>2, <1>5, SMTT(30)
<1>7. k * (2 * n + d) = 2 * x + y /\ k * (a + 2 * d) = k * a + 2 * y
  BY <1>2, <1>5, SMTT(30)
<1>8. ASSUME NEW u \in Nat, NEW v \in Nat PROVE (u <= v => k * u <= k * v) /\ (u < v => k * u < k * v)
  BY SMTT(30)
<1>9. 2 * n + d \in Nat /\ a + 2 * d \in Nat
  OBVIOUS
<1>10. k * a <= 2 * x + y /\ 2 * x + y < k * a + 2 * y
  BY <1>3, <1>7, <1>8, <1>9
<1>11. RoundHalfUp(x, y) = q
  BY <1>6, <1>10, RoundingIsUnique
<1> QED
  BY <1>1, <1>5, <1>11
=============================================================================
