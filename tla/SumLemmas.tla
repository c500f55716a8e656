-------------------------------- MODULE SumLemmas --------------------------------
(***************************************************************************)
(* Facts about the sum of a function over a finite set, for the proofs     *)
(* that nothing is lost or counted twice.                                  *)
(*                                                                         *)
(* The sum is a recursive function, and the library's induction theorems   *)
(* take a predicate as an operator.  The induction is therefore over sets: *)
(* where a statement fails for some subsets, it fails for a least one.     *)
(***************************************************************************)
EXTENDS Integers, Functions, FiniteSetTheorems, WellFoundedInduction, TLAPS

Pick(T) == CHOOSE x \in T : TRUE

\* g sums f over the subsets of S.
SumsUp(f, S, g) ==
    g = [T \in SUBSET S |-> IF T = {} THEN 0 ELSE f[Pick(T)] + g[T \ {Pick(T)}]]

LEMMA SumIsChosen ==
    ASSUME NEW f, NEW S
    PROVE  SumFunctionOnSet(f, S) = (CHOOSE g : SumsUp(f, S, g))[S]
BY DEF SumFunctionOnSet, FoldFunctionOnSet, MapThenFoldSet, SumsUp, Pick

LEMMA PickIsIn ==
    ASSUME NEW T, T # {}
    PROVE  Pick(T) \in T
BY DEF Pick

\* Of some subsets of a finite set, one has none of the others as a part.
LEMMA LeastSet ==
    ASSUME NEW S, IsFiniteSet(S), NEW B, B \subseteq SUBSET S, B # {}
    PROVE  \E T \in B : \A U \in SUBSET T : U # T => U \notin B
<1>1. IsWellFoundedOn(StrictSubsetOrdering(S), SUBSET S)
    BY FS_StrictSubsetOrderingWellFounded, FS_FiniteSubsetsOfFinite
<1>2. PICK T \in B : \A U \in B : ~(<<U, T>> \in StrictSubsetOrdering(S))
    BY <1>1, WFMin
<1> QED BY <1>2 DEF StrictSubsetOrdering

\* Of some numbers, one is the least.
LEMMA LeastNumber ==
    ASSUME NEW T, T \subseteq Nat, T # {}
    PROVE  \E n \in T : \A m \in T : ~(m < n)
<1> DEFINE Less == {pair \in Nat \X Nat : pair[1] < pair[2]}
<1>1. IsWellFoundedOn(Less, Nat) BY NatLessThanWellFounded DEF OpToRel
<1>2. PICK n \in T : \A m \in T : ~(<<m, n>> \in Less)
    <2> HIDE DEF Less
    <2> QED BY <1>1, WFMin, Zenon
<1> QED BY <1>2

--------------------------------------------------------------------------------
(* The sum exists. *)

LEMMA SumsAgree ==
    ASSUME NEW S, IsFiniteSet(S), NEW f, NEW R, NEW g, NEW h, S \subseteq R,
           SumsUp(f, S, g), SumsUp(f, R, h)
    PROVE  \A T \in SUBSET S : g[T] = h[T]
<1> DEFINE B == {T \in SUBSET S : g[T] # h[T]}
<1>1. ASSUME B # {} PROVE FALSE
    <2>1. PICK T \in B : \A U \in SUBSET T : U # T => U \notin B
        <3>1. B \subseteq SUBSET S OBVIOUS
        <3> HIDE DEF B
        <3> QED BY <1>1, <3>1, LeastSet
    <2>2. /\ g[T] = IF T = {} THEN 0 ELSE f[Pick(T)] + g[T \ {Pick(T)}]
          /\ h[T] = IF T = {} THEN 0 ELSE f[Pick(T)] + h[T \ {Pick(T)}]
        BY DEF SumsUp
    <2>3. T # {} BY <2>2
    <2>4. g[T \ {Pick(T)}] = h[T \ {Pick(T)}] BY <2>1, <2>3, PickIsIn
    <2> QED BY <2>2, <2>3, <2>4
<1> QED BY <1>1

LEMMA SumExists ==
    ASSUME NEW S, IsFiniteSet(S), NEW f
    PROVE  \E g : SumsUp(f, S, g)
<1> DEFINE B == {T \in SUBSET S : ~\E g : SumsUp(f, T, g)}
<1>1. ASSUME B # {} PROVE FALSE
    <2>1. PICK T \in B : \A U \in SUBSET T : U # T => U \notin B
        <3>1. B \subseteq SUBSET S OBVIOUS
        <3> HIDE DEF B
        <3> QED BY <1>1, <3>1, LeastSet
    <2>2. IsFiniteSet(T) BY FS_Subset
    <2> DEFINE below(U) == CHOOSE g : SumsUp(f, U, g)
               all == [U \in SUBSET T |->
                         IF U = {} THEN 0
                         ELSE IF U = T THEN f[Pick(T)] + below(T \ {Pick(T)})[T \ {Pick(T)}]
                         ELSE below(U)[U]]
    <2>3. ASSUME NEW U \in SUBSET T, U # T PROVE SumsUp(f, U, below(U)) /\ IsFiniteSet(U)
        <3>1. U \in SUBSET S /\ U \notin B BY <2>1, <2>3
        <3>2. \E g : SumsUp(f, U, g) BY <3>1
        <3>3. SumsUp(f, U, below(U)) BY <3>2
        <3> QED BY <2>2, <3>3, FS_Subset
    <2>4. ASSUME NEW U \in SUBSET T, U # {}, U # T
          PROVE  below(U)[U] = f[Pick(U)] + below(U \ {Pick(U)})[U \ {Pick(U)}]
        <3> DEFINE V == U \ {Pick(U)}
        <3>1. V \in SUBSET U /\ V # U /\ V # T BY <2>4, PickIsIn
        <3>2. SumsUp(f, U, below(U)) /\ SumsUp(f, V, below(V)) /\ IsFiniteSet(V)
            BY <2>3, <2>4, <3>1
        <3> HIDE DEF below, V
        <3>3. below(V)[V] = below(U)[V] BY <3>1, <3>2, SumsAgree
        <3>4. below(U)[U] = f[Pick(U)] + below(U)[V] BY <2>4, <3>2 DEF SumsUp, V
        <3> QED BY <3>3, <3>4 DEF V
    <2>5. ASSUME NEW U \in SUBSET T, U # {}
          PROVE  U \ {Pick(U)} \in SUBSET T /\ U \ {Pick(U)} # T
        BY <2>5, PickIsIn
    <2>6. \A U \in SUBSET T : U # {} /\ U # T => all[U] = f[Pick(U)] + all[U \ {Pick(U)}]
        <3>1. SUFFICES ASSUME NEW U \in SUBSET T, U # {}, U # T
                       PROVE  all[U] = f[Pick(U)] + all[U \ {Pick(U)}]
            OBVIOUS
        <3>2. CASE U \ {Pick(U)} # {}
            <4> HIDE DEF below
            <4> QED BY <2>4, <2>5, <3>1, <3>2
        <3>3. CASE U \ {Pick(U)} = {}
            <4>1. SumsUp(f, {}, below({})) BY <2>3, <3>1
            <4>2. below({})[{}] = 0
                <5> HIDE DEF below
                <5> QED BY <4>1 DEF SumsUp
            <4> HIDE DEF below
            <4> QED BY <2>4, <3>1, <3>3, <4>2
        <3> QED BY <3>2, <3>3
    <2>7. T # {} => all[T] = f[Pick(T)] + all[T \ {Pick(T)}]
        <3> SUFFICES ASSUME T # {} PROVE all[T] = f[Pick(T)] + all[T \ {Pick(T)}] OBVIOUS
        <3>1. T \ {Pick(T)} \in SUBSET T /\ T \ {Pick(T)} # T BY <2>5
        <3>2. CASE T \ {Pick(T)} # {}
            <4> HIDE DEF below
            <4> QED BY <3>1, <3>2
        <3>3. CASE T \ {Pick(T)} = {}
            <4>1. SumsUp(f, {}, below({})) BY <2>3
            <4>2. below({})[{}] = 0
                <5> HIDE DEF below
                <5> QED BY <4>1 DEF SumsUp
            <4> HIDE DEF below
            <4> QED BY <3>3, <4>2
        <3> QED BY <3>2, <3>3
    <2>8. SumsUp(f, T, all)
        <3>1. all = [U \in SUBSET T |-> all[U]] OBVIOUS
        <3>2. all[{}] = 0 OBVIOUS
        <3> HIDE DEF all
        <3>3. \A U \in SUBSET T : all[U] = IF U = {} THEN 0 ELSE f[Pick(U)] + all[U \ {Pick(U)}]
            BY <2>6, <2>7, <3>2
        <3> QED BY <3>1, <3>3 DEF SumsUp
    <2> QED BY <2>8
<1> QED BY <1>1

LEMMA SumStep ==
    ASSUME NEW S, IsFiniteSet(S), NEW f
    PROVE  SumFunctionOnSet(f, S) =
              IF S = {} THEN 0 ELSE f[Pick(S)] + SumFunctionOnSet(f, S \ {Pick(S)})
<1> DEFINE total(T) == CHOOSE g : SumsUp(f, T, g)
           R == S \ {Pick(S)}
<1>1. IsFiniteSet(R) BY FS_Subset
<1>2. SumsUp(f, S, total(S)) /\ SumsUp(f, R, total(R)) BY <1>1, SumExists
<1>3. SumFunctionOnSet(f, S) = total(S)[S] /\ SumFunctionOnSet(f, R) = total(R)[R]
    BY SumIsChosen
<1> HIDE DEF total
<1>4. total(R)[R] = total(S)[R] BY <1>1, <1>2, SumsAgree
<1>5. total(S)[S] = IF S = {} THEN 0 ELSE f[Pick(S)] + total(S)[R] BY <1>2 DEF SumsUp
<1> QED BY <1>3, <1>4, <1>5

LEMMA SumEmpty ==
    ASSUME NEW f
    PROVE  SumFunctionOnSet(f, {}) = 0
BY SumStep, FS_EmptySet

--------------------------------------------------------------------------------
(* Taking an element out, and what follows from it. *)

LEMMA SumTakeOut ==
    ASSUME NEW S, IsFiniteSet(S), NEW f, \A x \in S : f[x] \in Int
    PROVE  /\ SumFunctionOnSet(f, S) \in Int
           /\ \A x \in S : SumFunctionOnSet(f, S) = f[x] + SumFunctionOnSet(f, S \ {x})
<1> DEFINE Good(T) == /\ SumFunctionOnSet(f, T) \in Int
                      /\ \A x \in T : SumFunctionOnSet(f, T) = f[x] + SumFunctionOnSet(f, T \ {x})
           B == {T \in SUBSET S : ~Good(T)}
<1>1. ASSUME B # {} PROVE FALSE
    <2>1. PICK T \in B : \A U \in SUBSET T : U # T => U \notin B
        <3>1. B \subseteq SUBSET S OBVIOUS
        <3> HIDE DEF B
        <3> QED BY <1>1, <3>1, LeastSet
    <2>2. T \in SUBSET S /\ IsFiniteSet(T) BY FS_Subset
    <2>3. \A U \in SUBSET T : U # T => Good(U) BY <2>1
    <2> DEFINE p == Pick(T)
    <2>4. T # {}
        <3>1. T = {} => Good(T) BY SumEmpty
        <3> QED BY <3>1
    <2>5. p \in T BY <2>4, PickIsIn
    <2>6. SumFunctionOnSet(f, T) = f[p] + SumFunctionOnSet(f, T \ {p}) BY <2>2, <2>4, SumStep
    <2> HIDE DEF p
    <2>7. SumFunctionOnSet(f, T \ {p}) \in Int BY <2>3, <2>5
    <2>8. SumFunctionOnSet(f, T) \in Int BY <2>2, <2>5, <2>6, <2>7
    <2>9. ASSUME NEW x \in T, x # p
          PROVE  SumFunctionOnSet(f, T) = f[x] + SumFunctionOnSet(f, T \ {x})
        <3> DEFINE R == (T \ {p}) \ {x}
        <3>1. Good(T \ {p}) /\ Good(T \ {x}) BY <2>3, <2>5, <2>9
        <3>2. SumFunctionOnSet(f, T \ {p}) = f[x] + SumFunctionOnSet(f, R) BY <2>9, <3>1
        <3>3. R = (T \ {x}) \ {p} OBVIOUS
        <3> HIDE DEF R
        <3>4. SumFunctionOnSet(f, T \ {x}) = f[p] + SumFunctionOnSet(f, R)
            BY <2>5, <2>9, <3>1, <3>3
        <3>5. Good(R) BY <2>3, <2>5, <3>3
        <3>6. f[p] \in Int /\ f[x] \in Int /\ SumFunctionOnSet(f, R) \in Int BY <2>2, <2>5, <2>9, <3>5
        <3> QED BY <2>6, <3>2, <3>4, <3>6
    <2>10. Good(T) BY <2>6, <2>8, <2>9
    <2> QED BY <2>10
<1>2. Good(S) BY <1>1
<1> QED BY <1>2

LEMMA SumNat ==
    ASSUME NEW S, IsFiniteSet(S), NEW f, \A x \in S : f[x] \in Nat
    PROVE  SumFunctionOnSet(f, S) \in Nat
<1> DEFINE B == {T \in SUBSET S : SumFunctionOnSet(f, T) \notin Nat}
<1>1. ASSUME B # {} PROVE FALSE
    <2>1. PICK T \in B : \A U \in SUBSET T : U # T => U \notin B
        <3>1. B \subseteq SUBSET S OBVIOUS
        <3> HIDE DEF B
        <3> QED BY <1>1, <3>1, LeastSet
    <2>2. T \in SUBSET S /\ IsFiniteSet(T) BY FS_Subset
    <2>3. T # {} BY SumEmpty
    <2>4. Pick(T) \in T BY <2>3, PickIsIn
    <2>5. SumFunctionOnSet(f, T) = f[Pick(T)] + SumFunctionOnSet(f, T \ {Pick(T)}) BY <2>2, <2>3, SumStep
    <2>6. SumFunctionOnSet(f, T \ {Pick(T)}) \in Nat BY <2>1, <2>4
    <2> QED BY <2>2, <2>4, <2>5, <2>6
<1> QED BY <1>1

LEMMA SumSame ==
    ASSUME NEW S, IsFiniteSet(S), NEW f, NEW g, \A x \in S : f[x] = g[x]
    PROVE  SumFunctionOnSet(f, S) = SumFunctionOnSet(g, S)
<1> DEFINE B == {T \in SUBSET S : SumFunctionOnSet(f, T) # SumFunctionOnSet(g, T)}
<1>1. ASSUME B # {} PROVE FALSE
    <2>1. PICK T \in B : \A U \in SUBSET T : U # T => U \notin B
        <3>1. B \subseteq SUBSET S OBVIOUS
        <3> HIDE DEF B
        <3> QED BY <1>1, <3>1, LeastSet
    <2>2. T \in SUBSET S /\ IsFiniteSet(T) BY FS_Subset
    <2>3. T # {} BY SumEmpty
    <2>4. Pick(T) \in T BY <2>3, PickIsIn
    <2>5. /\ SumFunctionOnSet(f, T) = f[Pick(T)] + SumFunctionOnSet(f, T \ {Pick(T)})
          /\ SumFunctionOnSet(g, T) = g[Pick(T)] + SumFunctionOnSet(g, T \ {Pick(T)})
        BY <2>2, <2>3, SumStep
    <2>6. SumFunctionOnSet(f, T \ {Pick(T)}) = SumFunctionOnSet(g, T \ {Pick(T)}) BY <2>1, <2>4
    <2> QED BY <2>2, <2>4, <2>5, <2>6
<1> QED BY <1>1

\* The sum of one function plus the sum of another.
LEMMA SumAdd ==
    ASSUME NEW S, IsFiniteSet(S), NEW f, NEW g, NEW h,
           \A x \in S : f[x] \in Int /\ g[x] \in Int /\ h[x] = f[x] + g[x]
    PROVE  SumFunctionOnSet(h, S) = SumFunctionOnSet(f, S) + SumFunctionOnSet(g, S)
<1> DEFINE B == {T \in SUBSET S :
                   SumFunctionOnSet(h, T) # SumFunctionOnSet(f, T) + SumFunctionOnSet(g, T)}
<1>1. ASSUME B # {} PROVE FALSE
    <2>1. PICK T \in B : \A U \in SUBSET T : U # T => U \notin B
        <3>1. B \subseteq SUBSET S OBVIOUS
        <3> HIDE DEF B
        <3> QED BY <1>1, <3>1, LeastSet
    <2>2. T \in SUBSET S /\ IsFiniteSet(T) BY FS_Subset
    <2> DEFINE p == Pick(T)
               R == T \ {p}
    <2>3. T # {}
        <3>1. SumFunctionOnSet(h, {}) = SumFunctionOnSet(f, {}) + SumFunctionOnSet(g, {}) BY SumEmpty
        <3> QED BY <3>1
    <2>4. p \in T BY <2>3, PickIsIn
    <2>5. /\ SumFunctionOnSet(f, T) = f[p] + SumFunctionOnSet(f, R)
          /\ SumFunctionOnSet(g, T) = g[p] + SumFunctionOnSet(g, R)
          /\ SumFunctionOnSet(h, T) = h[p] + SumFunctionOnSet(h, R)
        BY <2>2, <2>3, SumStep
    <2>6. SumFunctionOnSet(h, R) = SumFunctionOnSet(f, R) + SumFunctionOnSet(g, R)
        BY <2>1, <2>4
    <2>7. IsFiniteSet(R) BY <2>2, FS_Subset
    <2>8. SumFunctionOnSet(f, R) \in Int /\ SumFunctionOnSet(g, R) \in Int
        BY <2>2, <2>7, SumTakeOut
    <2>9. f[p] \in Int /\ g[p] \in Int /\ h[p] = f[p] + g[p] BY <2>2, <2>4
    <2> HIDE DEF p, R
    <2>10. SumFunctionOnSet(h, T) = SumFunctionOnSet(f, T) + SumFunctionOnSet(g, T)
        BY <2>5, <2>6, <2>8, <2>9
    <2> QED BY <2>10
<1> QED BY <1>1

LEMMA SumScale ==
    ASSUME NEW S, IsFiniteSet(S), NEW f, NEW g, NEW c \in Int,
           \A x \in S : f[x] \in Int /\ g[x] = c * f[x]
    PROVE  SumFunctionOnSet(g, S) = c * SumFunctionOnSet(f, S)
<1> DEFINE B == {T \in SUBSET S : SumFunctionOnSet(g, T) # c * SumFunctionOnSet(f, T)}
<1>1. ASSUME B # {} PROVE FALSE
    <2>1. PICK T \in B : \A U \in SUBSET T : U # T => U \notin B
        <3>1. B \subseteq SUBSET S OBVIOUS
        <3> HIDE DEF B
        <3> QED BY <1>1, <3>1, LeastSet
    <2>2. T \in SUBSET S /\ IsFiniteSet(T) BY FS_Subset
    <2> DEFINE p == Pick(T)
               R == T \ {p}
    <2>3. T # {}
        <3>1. SumFunctionOnSet(g, {}) = c * SumFunctionOnSet(f, {}) BY SumEmpty
        <3> QED BY <3>1
    <2>4. p \in T BY <2>3, PickIsIn
    <2>5. /\ SumFunctionOnSet(f, T) = f[p] + SumFunctionOnSet(f, R)
          /\ SumFunctionOnSet(g, T) = g[p] + SumFunctionOnSet(g, R)
        BY <2>2, <2>3, SumStep
    <2>6. SumFunctionOnSet(g, R) = c * SumFunctionOnSet(f, R)
        BY <2>1, <2>4
    <2>7. IsFiniteSet(R) BY <2>2, FS_Subset
    <2>8. SumFunctionOnSet(f, R) \in Int BY <2>2, <2>7, SumTakeOut
    <2>9. f[p] \in Int /\ g[p] = c * f[p] BY <2>2, <2>4
    <2> HIDE DEF p, R
    <2>10. \A a, b \in Int : c * (a + b) = c * a + c * b OBVIOUS
    <2>11. SumFunctionOnSet(g, T) = c * SumFunctionOnSet(f, T)
        BY <2>5, <2>6, <2>8, <2>9, <2>10
    <2> QED BY <2>11
<1> QED BY <1>1

\* Over a part of a set the sum is that of a function that is zero elsewhere.
LEMMA SumPart ==
    ASSUME NEW S, IsFiniteSet(S), NEW A \in SUBSET S, NEW f, NEW g,
           \A x \in A : f[x] \in Int,
           \A x \in S : g[x] = IF x \in A THEN f[x] ELSE 0
    PROVE  SumFunctionOnSet(g, S) = SumFunctionOnSet(f, A)
<1> DEFINE B == {T \in SUBSET S : SumFunctionOnSet(g, T) # SumFunctionOnSet(f, T \cap A)}
<1>1. ASSUME B # {} PROVE FALSE
    <2>1. PICK T \in B : \A U \in SUBSET T : U # T => U \notin B
        <3>1. B \subseteq SUBSET S OBVIOUS
        <3> HIDE DEF B
        <3> QED BY <1>1, <3>1, LeastSet
    <2>2. T \in SUBSET S /\ IsFiniteSet(T) /\ IsFiniteSet(T \cap A) BY FS_Subset
    <2> DEFINE p == Pick(T)
               R == T \ {p}
    <2>3. T # {}
        <3>1. SumFunctionOnSet(g, {}) = SumFunctionOnSet(f, {}) BY SumEmpty
        <3> QED BY <3>1
    <2>4. p \in T BY <2>3, PickIsIn
    <2>5. SumFunctionOnSet(g, T) = g[p] + SumFunctionOnSet(g, R) BY <2>2, <2>3, SumStep
    <2>6. SumFunctionOnSet(g, R) = SumFunctionOnSet(f, R \cap A) BY <2>1, <2>4
    <2>7. IsFiniteSet(R \cap A) BY <2>2, FS_Subset
    <2>8. SumFunctionOnSet(f, R \cap A) \in Int BY <2>2, <2>7, SumTakeOut
    <2>9. CASE p \in A
        <3>1. (T \cap A) \ {p} = R \cap A OBVIOUS
        <3> HIDE DEF p, R
        <3>2. SumFunctionOnSet(f, T \cap A) = f[p] + SumFunctionOnSet(f, (T \cap A) \ {p})
            BY <2>2, <2>4, <2>9, SumTakeOut
        <3>3. g[p] = f[p] BY <2>2, <2>4, <2>9
        <3> QED BY <2>5, <2>6, <3>1, <3>2, <3>3
    <2>10. CASE p \notin A
        <3>1. T \cap A = R \cap A BY <2>10
        <3>2. g[p] = 0 BY <2>2, <2>4, <2>10
        <3>3. SumFunctionOnSet(f, T \cap A) = SumFunctionOnSet(f, R \cap A) BY <3>1
        <3>4. SumFunctionOnSet(g, T) = SumFunctionOnSet(f, R \cap A)
            <4> DEFINE sum == SumFunctionOnSet(f, R \cap A)
            <4>1. sum \in Int /\ SumFunctionOnSet(g, T) = 0 + sum BY <2>5, <2>6, <2>8, <3>2
            <4> HIDE DEF sum
            <4>2. 0 + sum = sum BY <4>1
            <4>3. SumFunctionOnSet(g, T) = sum BY <4>1, <4>2
            <4> QED BY <4>3 DEF sum
        <3>5. SumFunctionOnSet(g, T) = SumFunctionOnSet(f, T \cap A) BY <3>3, <3>4
        <3> QED BY <3>5
    <2> QED BY <2>9, <2>10
<1>2. S \cap A = A OBVIOUS
<1>3. SumFunctionOnSet(g, S) = SumFunctionOnSet(f, S \cap A) BY <1>1
<1> QED BY <1>2, <1>3

LEMMA SumZero ==
    ASSUME NEW S, IsFiniteSet(S), NEW f, \A x \in S : f[x] = 0
    PROVE  SumFunctionOnSet(f, S) = 0
<1>1. SumFunctionOnSet(f, S) = SumFunctionOnSet(f, {}) BY SumPart
<1> QED BY <1>1, SumEmpty

--------------------------------------------------------------------------------
(* Comparing sums. *)

LEMMA SumMonotone ==
    ASSUME NEW S, IsFiniteSet(S), NEW f, NEW g,
           \A x \in S : f[x] \in Int /\ g[x] \in Int /\ f[x] <= g[x]
    PROVE  SumFunctionOnSet(f, S) <= SumFunctionOnSet(g, S)
<1> DEFINE d == [x \in S |-> g[x] - f[x]]
<1>1. \A x \in S : d[x] \in Nat /\ g[x] = f[x] + d[x] OBVIOUS
<1> HIDE DEF d
<1>2. SumFunctionOnSet(d, S) \in Nat BY <1>1, SumNat
<1>3. SumFunctionOnSet(g, S) = SumFunctionOnSet(f, S) + SumFunctionOnSet(d, S) BY <1>1, SumAdd
<1>4. SumFunctionOnSet(f, S) \in Int BY SumTakeOut
<1> QED BY <1>2, <1>3, <1>4

\* A larger set has the larger sum if nothing counts negative.
LEMMA SumGrows ==
    ASSUME NEW S, IsFiniteSet(S), NEW A \in SUBSET S, NEW f, \A x \in S : f[x] \in Nat
    PROVE  SumFunctionOnSet(f, A) <= SumFunctionOnSet(f, S)
<1> DEFINE g == [x \in S |-> IF x \in A THEN f[x] ELSE 0]
<1>1. \A x \in S : g[x] = IF x \in A THEN f[x] ELSE 0 OBVIOUS
<1> HIDE DEF g
<1>2. SumFunctionOnSet(g, S) = SumFunctionOnSet(f, A) BY <1>1, SumPart
<1>3. SumFunctionOnSet(g, S) <= SumFunctionOnSet(f, S) BY <1>1, SumMonotone
<1> QED BY <1>2, <1>3

\* Only the value at x changes.
LEMMA SumChange ==
    ASSUME NEW S, IsFiniteSet(S), NEW x \in S, NEW f, NEW g,
           \A y \in S : f[y] \in Int /\ g[y] \in Int,
           \A y \in S \ {x} : g[y] = f[y]
    PROVE  SumFunctionOnSet(g, S) = SumFunctionOnSet(f, S) + g[x] - f[x]
<1>1. IsFiniteSet(S \ {x}) BY FS_Subset
<1>2. SumFunctionOnSet(f, S \ {x}) = SumFunctionOnSet(g, S \ {x}) BY <1>1, SumSame
<1>3. /\ SumFunctionOnSet(f, S) = f[x] + SumFunctionOnSet(f, S \ {x})
      /\ SumFunctionOnSet(g, S) = g[x] + SumFunctionOnSet(g, S \ {x})
    BY SumTakeOut
<1>4. SumFunctionOnSet(f, S \ {x}) \in Int BY <1>1, SumTakeOut
<1> QED BY <1>2, <1>3, <1>4

\* The sum over two sets that have nothing in common.
LEMMA SumUnion ==
    ASSUME NEW S, IsFiniteSet(S), NEW A \in SUBSET S, NEW D \in SUBSET S, A \cap D = {},
           NEW f, \A x \in S : f[x] \in Int
    PROVE  SumFunctionOnSet(f, A \cup D) = SumFunctionOnSet(f, A) + SumFunctionOnSet(f, D)
<1> DEFINE a == [x \in S |-> IF x \in A THEN f[x] ELSE 0]
           d == [x \in S |-> IF x \in D THEN f[x] ELSE 0]
           u == [x \in S |-> IF x \in A \cup D THEN f[x] ELSE 0]
<1>1. /\ \A x \in S : a[x] = IF x \in A THEN f[x] ELSE 0
      /\ \A x \in S : d[x] = IF x \in D THEN f[x] ELSE 0
      /\ \A x \in S : u[x] = IF x \in A \cup D THEN f[x] ELSE 0
    OBVIOUS
<1>2. \A x \in S : a[x] \in Int /\ d[x] \in Int /\ u[x] = a[x] + d[x] OBVIOUS
<1> HIDE DEF a, d, u
<1>3. SumFunctionOnSet(a, S) = SumFunctionOnSet(f, A) BY <1>1, SumPart
<1>4. SumFunctionOnSet(d, S) = SumFunctionOnSet(f, D) BY <1>1, SumPart
<1>5. A \cup D \in SUBSET S OBVIOUS
<1>6. SumFunctionOnSet(u, S) = SumFunctionOnSet(f, A \cup D) BY <1>1, <1>5, SumPart
<1>7. SumFunctionOnSet(u, S) = SumFunctionOnSet(a, S) + SumFunctionOnSet(d, S) BY <1>2, SumAdd
<1> QED BY <1>3, <1>4, <1>6, <1>7

\* Only x counts.
LEMMA SumOnly ==
    ASSUME NEW S, IsFiniteSet(S), NEW x \in S, NEW f, f[x] \in Int, \A y \in S \ {x} : f[y] = 0
    PROVE  SumFunctionOnSet(f, S) = f[x]
<1>1. \A y \in S : f[y] \in Int OBVIOUS
<1>2. SumFunctionOnSet(f, S) = f[x] + SumFunctionOnSet(f, S \ {x}) BY <1>1, SumTakeOut
<1>3. SumFunctionOnSet(f, S \ {x}) = 0
    <2>1. IsFiniteSet(S \ {x}) BY FS_Subset
    <2> QED BY <2>1, SumZero
<1> QED BY <1>2, <1>3

\* The members of many sets.
AllOf(P, S) == UNION {P[a] : a \in S}

\* Each P[a] is finite, no two have anything in common, and q[a] is its sum.
SumsApart(D, f, S, P, q) ==
    /\ IsFiniteSet(S)
    /\ \A x \in D : f[x] \in Int
    /\ \A a \in S : P[a] \subseteq D /\ IsFiniteSet(P[a]) /\ q[a] = SumFunctionOnSet(f, P[a])
    /\ \A a, b \in S : a # b => P[a] \cap P[b] = {}

\* The sum over many sets of which no two have anything in common.
LEMMA SumDisjoint ==
    ASSUME NEW D, NEW f, NEW S, NEW P, NEW q, SumsApart(D, f, S, P, q)
    PROVE  /\ IsFiniteSet(AllOf(P, S)) /\ AllOf(P, S) \subseteq D
           /\ SumFunctionOnSet(f, AllOf(P, S)) = SumFunctionOnSet(q, S)
<1> USE DEF SumsApart
<1> DEFINE all(T) == UNION {P[a] : a \in T}
           Good(T) == IsFiniteSet(all(T)) /\ SumFunctionOnSet(f, all(T)) = SumFunctionOnSet(q, T)
           B == {T \in SUBSET S : ~Good(T)}
<1>1. ASSUME B # {} PROVE FALSE
    <2>1. PICK T \in B : \A U \in SUBSET T : U # T => U \notin B
        <3>1. B \subseteq SUBSET S OBVIOUS
        <3> HIDE DEF B
        <3> QED BY <1>1, <3>1, LeastSet
    <2>2. T \in SUBSET S /\ IsFiniteSet(T) BY FS_Subset
    <2> DEFINE p == Pick(T)
               R == T \ {p}
    <2>3. T # {}
        <3>1. all({}) = {} OBVIOUS
        <3>2. Good({}) BY <3>1, FS_EmptySet, SumEmpty
        <3> QED BY <3>2
    <2>4. p \in T BY <2>3, PickIsIn
    <2>5. SumFunctionOnSet(q, T) = q[p] + SumFunctionOnSet(q, R) BY <2>2, <2>3, SumStep
    <2>6. Good(R) BY <2>1, <2>4
    <2>7. all(T) = P[p] \cup all(R) /\ P[p] \cap all(R) = {} BY <2>2, <2>4
    <2>8. P[p] \subseteq D /\ IsFiniteSet(P[p]) /\ q[p] = SumFunctionOnSet(f, P[p]) BY <2>2, <2>4
    <2>9. all(R) \subseteq D BY <2>2
    <2> DEFINE A == P[p]
               Z == all(R)
               Y == all(T)
    <2>10. IsFiniteSet(A) /\ IsFiniteSet(Z) /\ Y = A \cup Z /\ A \cap Z = {} /\ A \subseteq D /\ Z \subseteq D
        BY <2>6, <2>7, <2>8, <2>9
    <2> HIDE DEF A, Z, Y
    <2>11. IsFiniteSet(Y) /\ Y \subseteq D BY <2>10, FS_Union
    <2>12. SumFunctionOnSet(f, A \cup Z) = SumFunctionOnSet(f, A) + SumFunctionOnSet(f, Z)
        BY <2>11, <2>10, SumUnion
    <2>13. SumFunctionOnSet(f, Y) = SumFunctionOnSet(q, T)
        BY <2>5, <2>6, <2>8, <2>10, <2>12 DEF A, Z
    <2>14. Good(T) BY <2>11, <2>13 DEF Y
    <2> QED BY <2>14
<1>2. Good(S) BY <1>1
<1>3. all(S) \subseteq D OBVIOUS
<1> QED BY <1>2, <1>3 DEF AllOf

\* Fewer, and each counts for less.
LEMMA SumShrinks ==
    ASSUME NEW S, IsFiniteSet(S), NEW A \in SUBSET S, NEW f, NEW g,
           \A x \in S : f[x] \in Nat, \A x \in A : g[x] \in Int /\ g[x] <= f[x]
    PROVE  SumFunctionOnSet(g, A) <= SumFunctionOnSet(f, S)
<1>1. IsFiniteSet(A) /\ \A x \in A : f[x] \in Int BY FS_Subset
<1>2. SumFunctionOnSet(g, A) <= SumFunctionOnSet(f, A) BY <1>1, SumMonotone
<1>3. SumFunctionOnSet(f, A) <= SumFunctionOnSet(f, S) BY SumGrows
<1>4. SumFunctionOnSet(g, A) \in Int /\ SumFunctionOnSet(f, A) \in Int BY <1>1, SumTakeOut
<1>5. SumFunctionOnSet(f, S) \in Int
    <2>1. \A x \in S : f[x] \in Int OBVIOUS
    <2> QED BY <2>1, SumTakeOut
<1> QED BY <1>2, <1>3, <1>4, <1>5

\* None counts for more than c.
LEMMA SumAtMost ==
    ASSUME NEW S, IsFiniteSet(S), NEW f, NEW c \in Nat, \A x \in S : f[x] \in Int /\ f[x] <= c
    PROVE  SumFunctionOnSet(f, S) <= Cardinality(S) * c
<1> DEFINE Good(T) == SumFunctionOnSet(f, T) <= Cardinality(T) * c
           B == {T \in SUBSET S : ~Good(T)}
<1>1. ASSUME B # {} PROVE FALSE
    <2>1. PICK T \in B : \A U \in SUBSET T : U # T => U \notin B
        <3>1. B \subseteq SUBSET S OBVIOUS
        <3> HIDE DEF B
        <3> QED BY <1>1, <3>1, LeastSet
    <2>2. T \in SUBSET S /\ IsFiniteSet(T) BY FS_Subset
    <2>3. T # {}
        <3>1. 0 * c = 0 OBVIOUS
        <3>2. Good({}) BY <3>1, FS_EmptySet, SumEmpty
        <3> QED BY <3>2
    <2>4. PICK p : p \in T BY <2>3
    <2> DEFINE R == T \ {p}
    <2>5. Good(R) BY <2>1, <2>4
    <2>6. IsFiniteSet(R) /\ Cardinality(R) = Cardinality(T) - 1 BY <2>2, <2>4, FS_RemoveElement
    <2>7. Cardinality(R) \in Nat /\ Cardinality(T) \in Nat BY <2>2, <2>6, FS_CardinalityType
    <2>8. SumFunctionOnSet(f, T) = f[p] + SumFunctionOnSet(f, R) BY <2>2, <2>4, SumTakeOut
    <2>9. SumFunctionOnSet(f, R) \in Int /\ f[p] \in Int /\ f[p] <= c BY <2>2, <2>4, <2>6, SumTakeOut
    <2> DEFINE few == Cardinality(R) * c
               all == Cardinality(T) * c
    <2>10. few = all - c /\ all \in Int
        <3>1. Cardinality(R) * c = (Cardinality(T) - 1) * c BY <2>6
        <3>2. (Cardinality(T) - 1) * c = Cardinality(T) * c - c BY <2>7
        <3> QED BY <2>7, <3>1, <3>2
    <2>11. SumFunctionOnSet(f, R) <= few BY <2>5
    <2> HIDE DEF few, all
    <2>12. SumFunctionOnSet(f, T) <= all BY <2>8, <2>9, <2>10, <2>11
    <2> QED BY <2>12 DEF all
<1> QED BY <1>1
================================================================================
