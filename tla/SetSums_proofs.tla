--------------------------- MODULE SetSums_proofs ---------------------------
(***************************************************************************)
(* Sums over finite sets.  MapThenSumSet takes the terms one by one, in    *)
(* the order CHOOSE happens to give; here it is proved to be a sum: any    *)
(* term can be taken out or put in, larger terms make it larger, and the   *)
(* members may be renamed.  The terms are those of a function, so that     *)
(* the facts can be cited about any of them.                               *)
(***************************************************************************)
EXTENDS FiniteSetsExt, FiniteSetTheorems, WellFoundedInduction, TLAPS

SetTotal(f, S) == MapThenSumSet(LAMBDA x : f[x], S)

Chosen(s) == CHOOSE x \in s : TRUE

Solves(g, f, S) ==
  g = [s \in SUBSET S |-> IF s = {} THEN 0 ELSE f[Chosen(s)] + g[s \ {Chosen(s)}]]

Solution(f, S) == CHOOSE g : Solves(g, f, S)

(* A total is what the solution of the fold's recursion says of the set.   *)
LEMMA TotalUnfolds ==
  ASSUME NEW f, NEW S
  PROVE  SetTotal(f, S) = Solution(f, S)[S]
BY DEF SetTotal, MapThenSumSet, MapThenFoldSet, Solves, Chosen, Solution

(* A set of natural numbers that is not empty has a least one.             *)
LEMMA LeastNumber ==
  ASSUME NEW S \in SUBSET Nat, S # {}
  PROVE  \E m \in S : \A n \in S : m <= n
<1> DEFINE Less == {ss \in Nat \X Nat : ss[1] < ss[2]}
<1>1. OpToRel(<, Nat) = Less
  BY DEF OpToRel
<1>2. IsWellFoundedOn(Less, Nat)
  BY <1>1, NatLessThanWellFounded, Zenon
<1>3. \A n, m \in Nat : n < m => <<n, m>> \in Less
  OBVIOUS
<1> HIDE DEF Less
<1>4. PICK m \in S : \A n \in S : ~(<<n, m>> \in Less)
  BY <1>2, WFMin
<1>5. \A n \in S : ~(n < m)
  BY <1>3, <1>4
<1> QED
  BY <1>5

(* Min says which.                                                         *)
LEMMA LeastOf ==
  ASSUME NEW S \in SUBSET Nat, S # {}
  PROVE  Min(S) \in S /\ \A n \in S : Min(S) <= n
BY LeastNumber DEF Min

(* And a set of the numbers up to n has a greatest, which Max says.        *)
LEMMA GreatestNumber ==
  ASSUME NEW n \in Nat, NEW S \in SUBSET (1..n), S # {}
  PROVE  Max(S) \in S /\ \A j \in S : j <= Max(S)
<1> DEFINE Gone == {n - j : j \in S}
<1>1. Gone \in SUBSET Nat /\ Gone # {}
  OBVIOUS
<1>2. PICK m \in Gone : \A k \in Gone : m <= k
  BY <1>1, LeastNumber
<1>3. PICK x \in S : m = n - x
  BY <1>2
<1>4. \A y \in S : n - y \in Gone
  OBVIOUS
<1>5. \A y \in S : x >= y
  <2> SUFFICES ASSUME NEW y \in S PROVE x >= y
    OBVIOUS
  <2>1. n - x <= n - y
    BY <1>2, <1>3, <1>4
  <2> HIDE DEF Gone
  <2>2. x \in 1..n /\ y \in 1..n
    OBVIOUS
  <2> QED
    BY <2>1, <2>2
<1> HIDE DEF Gone
<1>6. \E y \in S : \A z \in S : y >= z
  BY <1>3, <1>5
<1>7. Max(S) \in S /\ \A z \in S : Max(S) >= z
  BY <1>6 DEF Max
<1> QED
  BY <1>7

(* Natural induction over a set.                                           *)
LEMMA ByNumbers ==
  ASSUME NEW G, 0 \in G, \A n \in Nat : n \in G => n + 1 \in G
  PROVE  \A n \in Nat : n \in G
<1> SUFFICES ASSUME NEW b \in Nat, b \notin G PROVE FALSE
  OBVIOUS
<1> DEFINE Bad == {n \in Nat : n \notin G}
<1>1. PICK m \in Bad : \A n \in Bad : m <= n
  BY LeastNumber
<1>2. m # 0 /\ m - 1 \in Nat /\ m - 1 \in G
  BY <1>1
<1>3. (m - 1) + 1 = m
  BY <1>2
<1> QED
  BY <1>1, <1>2, <1>3

(* Induction over the subsets of a finite set: what holds of a set when it *)
(* holds of all smaller ones holds of all.                                 *)
LEMMA BySubsets ==
  ASSUME NEW S, IsFiniteSet(S), NEW G,
         \A T \in SUBSET S : (\A R \in SUBSET T : R # T => R \in G) => T \in G
  PROVE  \A T \in SUBSET S : T \in G
<1> SUFFICES ASSUME NEW B \in SUBSET S, B \notin G PROVE FALSE
  OBVIOUS
<1> DEFINE Bad == {T \in SUBSET S : T \notin G}
           Sizes == {Cardinality(T) : T \in Bad}
<1>1. \A T \in SUBSET S : IsFiniteSet(T) /\ Cardinality(T) \in Nat
  BY FS_Subset, FS_CardinalityType
<1>2. PICK T \in Bad : \A R \in Bad : Cardinality(T) <= Cardinality(R)
  <2>1. Sizes \in SUBSET Nat /\ Sizes # {}
    BY <1>1
  <2>2. PICK m \in Sizes : \A n \in Sizes : m <= n
    BY <2>1, LeastNumber
  <2> QED
    BY <2>2
<1>3. \A R \in SUBSET T : R # T => Cardinality(R) < Cardinality(T)
  BY <1>1, FS_Subset
<1>4. \A R \in SUBSET T : R # T => R \in G
  BY <1>1, <1>2, <1>3
<1> QED
  BY <1>4

LEMMA ChosenIn ==
  ASSUME NEW s, s # {}
  PROVE  Chosen(s) \in s
BY DEF Chosen

LEMMA SolvedAt ==
  ASSUME NEW f, NEW S, NEW g, Solves(g, f, S), NEW s \in SUBSET S
  PROVE  g[s] = IF s = {} THEN 0 ELSE f[Chosen(s)] + g[s \ {Chosen(s)}]
BY DEF Solves

LEMMA SolvesIfAt ==
  ASSUME NEW f, NEW S, NEW g, g = [s \in SUBSET S |-> g[s]],
         \A s \in SUBSET S : g[s] = IF s = {} THEN 0 ELSE f[Chosen(s)] + g[s \ {Chosen(s)}]
  PROVE  Solves(g, f, S)
BY DEF Solves

(* The recursion has one solution at most, whatever set it was set up for. *)
LEMMA SolutionsAgree ==
  ASSUME NEW f, NEW S, IsFiniteSet(S), NEW g, Solves(g, f, S),
         NEW T, NEW h, Solves(h, f, T)
  PROVE  \A R \in SUBSET (S \cap T) : g[R] = h[R]
<1> DEFINE G == {R \in SUBSET (S \cap T) : g[R] = h[R]}
<1>1. IsFiniteSet(S \cap T)
  BY FS_Subset
<1>2. ASSUME NEW R \in SUBSET (S \cap T), \A Q \in SUBSET R : Q # R => Q \in G
      PROVE  R \in G
  <2>1. CASE R = {}
    BY <2>1, SolvedAt
  <2>2. CASE R # {}
    <3>1. g[R \ {Chosen(R)}] = h[R \ {Chosen(R)}]
      BY <1>2, <2>2, ChosenIn
    <3> QED
      BY <2>2, <3>1, SolvedAt
  <2> QED
    BY <2>1, <2>2
<1> HIDE DEF G
<1>3. \A R \in SUBSET (S \cap T) : R \in G
  BY <1>1, <1>2, BySubsets
<1> QED
  BY <1>3 DEF G

(* It has a solution for every finite set.                                 *)
LEMMA SolutionExists ==
  ASSUME NEW f, NEW S, IsFiniteSet(S)
  PROVE  \A T \in SUBSET S : Solves(Solution(f, T), f, T)
<1> DEFINE G == {T \in SUBSET S : Solves(Solution(f, T), f, T)}
<1>1. ASSUME NEW T \in SUBSET S, \A R \in SUBSET T : R # T => R \in G
      PROVE  T \in G
  <2> DEFINE rest(s) == s \ {Chosen(s)}
             value(s) == IF s = {} THEN 0 ELSE f[Chosen(s)] + Solution(f, rest(s))[rest(s)]
             g == [s \in SUBSET T |-> value(s)]
  <2>1. ASSUME NEW s \in SUBSET T, s # {}
        PROVE  g[rest(s)] = Solution(f, rest(s))[rest(s)]
    <3>1. rest(s) \in SUBSET T /\ rest(s) # T /\ rest(s) \in SUBSET rest(s)
      BY <2>1, ChosenIn
    <3>2. Solves(Solution(f, rest(s)), f, rest(s)) /\ IsFiniteSet(rest(s))
      BY <1>1, <3>1, FS_Subset
    <3>3. CASE rest(s) = {}
      <4>1. Solution(f, rest(s))[rest(s)] = 0
        <5> DEFINE r == rest(s)
        <5>1. Solves(Solution(f, r), f, r) /\ r \in SUBSET r /\ r = {}
          BY <3>1, <3>2, <3>3
        <5> HIDE DEF r
        <5>2. Solution(f, r)[r] = 0
          BY <5>1, SolvedAt
        <5> QED
          BY <5>2 DEF r
      <4> QED
        BY <3>1, <3>3, <4>1
    <3>4. CASE rest(s) # {}
      <4> DEFINE r == rest(s)
      <4>1. Solution(f, r)[r] = f[Chosen(r)] + Solution(f, r)[rest(r)]
        <5>1. Solves(Solution(f, r), f, r) /\ r \in SUBSET r /\ r # {}
          BY <3>2, <3>4
        <5>2. \A q : rest(q) = q \ {Chosen(q)}
          OBVIOUS
        <5> HIDE DEF r, rest
        <5> QED
          BY <5>1, <5>2, SolvedAt
      <4>2. /\ rest(r) \in SUBSET T /\ rest(r) # T
            /\ rest(r) \in SUBSET (r \cap rest(r))
        BY <3>1, <3>4
      <4>3. Solves(Solution(f, rest(r)), f, rest(r))
        BY <1>1, <4>2
      <4>4. Solution(f, r)[rest(r)] = Solution(f, rest(r))[rest(r)]
        <5> HIDE DEF r, rest
        <5> QED
          BY <3>2, <4>2, <4>3, SolutionsAgree DEF r
      <4> QED
        BY <3>1, <3>4, <4>1, <4>4
    <3> QED
      BY <3>3, <3>4
  <2>2. Solves(g, f, T)
    <3>0. g = [s \in SUBSET T |-> g[s]] /\ \A s \in SUBSET T : g[s] = value(s)
      OBVIOUS
    <3> HIDE DEF g
    <3>1. \A s \in SUBSET T : s # {} => g[rest(s)] = Solution(f, rest(s))[rest(s)]
      BY <2>1
    <3>2. \A s \in SUBSET T :
            g[s] = IF s = {} THEN 0 ELSE f[Chosen(s)] + g[s \ {Chosen(s)}]
      BY <3>0, <3>1
    <3> QED
      BY <3>0, <3>2, SolvesIfAt
  <2> HIDE DEF g
  <2> QED
    BY <2>2 DEF Solution
<1> HIDE DEF G
<1>2. \A T \in SUBSET S : T \in G
  BY <1>1, BySubsets
<1> QED
  BY <1>2 DEF G

(* The recursion's two cases.                                              *)
LEMMA TotalOfNone ==
  ASSUME NEW f
  PROVE  SetTotal(f, {}) = 0
<1>1. Solves(Solution(f, {}), f, {})
  BY SolutionExists, FS_EmptySet
<1> QED
  BY <1>1, SolvedAt, TotalUnfolds

LEMMA TotalOfSome ==
  ASSUME NEW f, NEW S, IsFiniteSet(S), S # {}
  PROVE  SetTotal(f, S) = f[Chosen(S)] + SetTotal(f, S \ {Chosen(S)})
<1> DEFINE R == S \ {Chosen(S)}
<1>1. Solves(Solution(f, S), f, S) /\ Solves(Solution(f, R), f, R)
  BY SolutionExists
<1>2. Solution(f, S)[R] = Solution(f, R)[R]
  <2>1. R \in SUBSET (S \cap R)
    OBVIOUS
  <2> HIDE DEF R
  <2> QED
    BY <1>1, <2>1, SolutionsAgree
<1> QED
  BY <1>1, <1>2, SolvedAt, TotalUnfolds

(* A sum is a number, from which any of its terms can be taken away.       *)
LEMMA TotalRemoves ==
  ASSUME NEW S, IsFiniteSet(S), NEW f, \A x \in S : f[x] \in Int
  PROVE  /\ SetTotal(f, S) \in Int
         /\ \A x \in S : SetTotal(f, S) = f[x] + SetTotal(f, S \ {x})
<1> DEFINE G == {T \in SUBSET S : /\ SetTotal(f, T) \in Int
                                 /\ \A x \in T : SetTotal(f, T) = f[x] + SetTotal(f, T \ {x})}
<1>1. ASSUME NEW T \in SUBSET S, \A R \in SUBSET T : R # T => R \in G
      PROVE  T \in G
  <2>1. CASE T = {}
    BY <2>1, TotalOfNone
  <2>2. CASE T # {}
    <3> DEFINE c == Chosen(T)
    <3>1. c \in T /\ T \ {c} \in G
      BY <1>1, <2>2, ChosenIn
    <3>2. SetTotal(f, T) = f[c] + SetTotal(f, T \ {c})
      BY <2>2, FS_Subset, TotalOfSome
    <3>3. ASSUME NEW x \in T, x # c
          PROVE  SetTotal(f, T) = f[x] + SetTotal(f, T \ {x})
      <4>1. x \in T \ {c} /\ c \in T \ {x} /\ (T \ {c}) \ {x} = (T \ {x}) \ {c}
        BY <3>1, <3>3
      <4>2. T \ {x} \in G /\ (T \ {x}) \ {c} \in G
        BY <1>1, <3>1
      <4>3. /\ SetTotal(f, T \ {c}) = f[x] + SetTotal(f, (T \ {c}) \ {x})
            /\ SetTotal(f, T \ {x}) = f[c] + SetTotal(f, (T \ {x}) \ {c})
            /\ SetTotal(f, (T \ {x}) \ {c}) \in Int
        BY <3>1, <4>1, <4>2
      <4>4. f[x] \in Int /\ f[c] \in Int
        BY <3>1
      <4>5. SetTotal(f, T \ {c}) = f[x] + SetTotal(f, (T \ {x}) \ {c})
        BY <4>1, <4>3
      <4> HIDE DEF c, G
      <4> QED
        BY <3>2, <4>3, <4>4, <4>5
    <3> QED
      BY <3>1, <3>2, <3>3
  <2> QED
    BY <2>1, <2>2
<1> HIDE DEF G
<1>2. \A T \in SUBSET S : T \in G
  BY <1>1, BySubsets
<1> QED
  BY <1>2 DEF G

(* One more term adds its value.                                           *)
LEMMA TotalAdds ==
  ASSUME NEW S, IsFiniteSet(S), NEW f, \A x \in S : f[x] \in Int,
         NEW y, y \notin S, f[y] \in Int
  PROVE  SetTotal(f, S \cup {y}) = f[y] + SetTotal(f, S)
<1>1. IsFiniteSet(S \cup {y}) /\ (S \cup {y}) \ {y} = S
  BY FS_AddElement
<1> QED
  BY <1>1, TotalRemoves

(* The total of two sets that share nothing is the sum of theirs.          *)
LEMMA TotalOfBoth ==
  ASSUME NEW S, IsFiniteSet(S), NEW f, \A x \in S : f[x] \in Int,
         NEW A \in SUBSET S, NEW B \in SUBSET S, A \cap B = {}
  PROVE  SetTotal(f, A \cup B) = SetTotal(f, A) + SetTotal(f, B)
<1> DEFINE G == {T \in SUBSET B : SetTotal(f, A \cup T) = SetTotal(f, A) + SetTotal(f, T)}
<1>1. IsFiniteSet(B) /\ \A T \in SUBSET S : IsFiniteSet(T) /\ SetTotal(f, T) \in Int
  <2>1. ASSUME NEW T \in SUBSET S PROVE IsFiniteSet(T) /\ SetTotal(f, T) \in Int
    BY FS_Subset, TotalRemoves
  <2> QED
    BY <2>1
<1>2. ASSUME NEW T \in SUBSET B, \A R \in SUBSET T : R # T => R \in G
      PROVE  T \in G
  <2>1. CASE T = {}
    <3>1. A \cup T = A
      BY <2>1
    <3>2. SetTotal(f, T) = 0 /\ SetTotal(f, A) \in Int
      BY <1>1, <2>1, TotalOfNone
    <3>3. SetTotal(f, A \cup T) = SetTotal(f, A) + SetTotal(f, T)
      <4> HIDE DEF G
      <4> QED
        BY <3>1, <3>2
    <3> QED
      BY <3>3
  <2>2. CASE T # {}
    <3> DEFINE y == Chosen(T)
               R == T \ {y}
    <3>1. y \in T /\ y \in B /\ y \in S /\ y \notin R /\ y \notin A \cup R /\ R \cup {y} = T
      BY <2>2, ChosenIn
    <3>2. R \in SUBSET T /\ R # T
      BY <3>1
    <3>3. (A \cup R) \cup {y} = A \cup T
      BY <3>1
    <3> HIDE DEF y, R
    <3>4. SetTotal(f, A \cup R) = SetTotal(f, A) + SetTotal(f, R)
      BY <1>2, <3>2
    <3>5. /\ IsFiniteSet(R) /\ IsFiniteSet(A \cup R) /\ f[y] \in Int
          /\ \A x \in R : f[x] \in Int
          /\ \A x \in A \cup R : f[x] \in Int
      BY <1>1, <3>1, <3>2
    <3>6. SetTotal(f, T) = f[y] + SetTotal(f, R)
      BY <3>1, <3>5, TotalAdds
    <3>7. SetTotal(f, A \cup T) = f[y] + SetTotal(f, A \cup R)
      BY <3>1, <3>3, <3>5, TotalAdds
    <3>8. SetTotal(f, A) \in Int /\ SetTotal(f, R) \in Int
      BY <1>1, <3>2
    <3>9. SetTotal(f, A \cup T) = SetTotal(f, A) + SetTotal(f, T)
      <4> HIDE DEF G
      <4> QED
        BY <3>4, <3>5, <3>6, <3>7, <3>8
    <3> QED
      BY <3>9
  <2> QED
    BY <2>1, <2>2
<1> HIDE DEF G
<1>3. \A T \in SUBSET B : T \in G
  BY <1>1, <1>2, BySubsets
<1> QED
  BY <1>3 DEF G

(* Larger terms make a larger sum, equal ones the same.                    *)
LEMMA TotalMonotone ==
  ASSUME NEW S, IsFiniteSet(S), NEW f, NEW g,
         \A x \in S : f[x] \in Int /\ g[x] \in Int /\ f[x] <= g[x]
  PROVE  SetTotal(f, S) <= SetTotal(g, S)
<1> DEFINE G == {T \in SUBSET S : SetTotal(f, T) <= SetTotal(g, T)}
<1>1. ASSUME NEW T \in SUBSET S, \A R \in SUBSET T : R # T => R \in G
      PROVE  T \in G
  <2>1. CASE T = {}
    BY <2>1, TotalOfNone
  <2>2. CASE T # {}
    <3>1. PICK x \in T : TRUE
      BY <2>2
    <3>2. IsFiniteSet(T) /\ IsFiniteSet(T \ {x}) /\ T \ {x} \in G
      BY <1>1, <3>1, FS_Subset
    <3>3. /\ SetTotal(f, T) = f[x] + SetTotal(f, T \ {x})
          /\ SetTotal(g, T) = g[x] + SetTotal(g, T \ {x})
      BY <3>1, <3>2, TotalRemoves
    <3>4. SetTotal(f, T \ {x}) \in Int /\ SetTotal(g, T \ {x}) \in Int
      BY <3>2, TotalRemoves
    <3>5. SetTotal(f, T \ {x}) <= SetTotal(g, T \ {x})
      BY <3>2
    <3> QED
      BY <3>1, <3>3, <3>4, <3>5
  <2> QED
    BY <2>1, <2>2
<1> HIDE DEF G
<1>2. \A T \in SUBSET S : T \in G
  BY <1>1, BySubsets
<1> QED
  BY <1>2 DEF G

LEMMA TotalSame ==
  ASSUME NEW S, IsFiniteSet(S), NEW f, NEW g,
         \A x \in S : f[x] \in Int /\ f[x] = g[x]
  PROVE  SetTotal(f, S) = SetTotal(g, S)
<1>1. SetTotal(f, S) \in Int /\ SetTotal(g, S) \in Int
  BY TotalRemoves
<1>2. SetTotal(f, S) <= SetTotal(g, S) /\ SetTotal(g, S) <= SetTotal(f, S)
  BY TotalMonotone
<1> QED
  BY <1>1, <1>2

(* A sum of natural numbers is one.                                        *)
LEMMA TotalNatural ==
  ASSUME NEW S, IsFiniteSet(S), NEW f, \A x \in S : f[x] \in Nat
  PROVE  SetTotal(f, S) \in Nat
<1> DEFINE G == {T \in SUBSET S : SetTotal(f, T) \in Nat}
<1>1. ASSUME NEW T \in SUBSET S, \A R \in SUBSET T : R # T => R \in G
      PROVE  T \in G
  <2>1. CASE T = {}
    BY <2>1, TotalOfNone
  <2>2. CASE T # {}
    <3>1. PICK x \in T : TRUE
      BY <2>2
    <3>2. IsFiniteSet(T) /\ T \ {x} \in G
      BY <1>1, <3>1, FS_Subset
    <3>3. SetTotal(f, T) = f[x] + SetTotal(f, T \ {x})
      BY <3>1, <3>2, TotalRemoves
    <3> QED
      BY <3>1, <3>2, <3>3
  <2> QED
    BY <2>1, <2>2
<1> HIDE DEF G
<1>2. \A T \in SUBSET S : T \in G
  BY <1>1, BySubsets
<1> QED
  BY <1>2 DEF G

(* Renaming the members of the set leaves the sum alone.                   *)
LEMMA TotalRenamed ==
  ASSUME NEW S, IsFiniteSet(S), NEW f, NEW g, NEW h,
         \A x \in S : f[x] \in Int /\ g[h[x]] = f[x],
         \A x, y \in S : h[x] = h[y] => x = y
  PROVE  IsFiniteSet({h[x] : x \in S}) /\ SetTotal(g, {h[x] : x \in S}) = SetTotal(f, S)
<1> DEFINE Named(T) == {h[x] : x \in T}
           G == {T \in SUBSET S : IsFiniteSet(Named(T)) /\ SetTotal(g, Named(T)) = SetTotal(f, T)}
<1>1. ASSUME NEW T \in SUBSET S, \A R \in SUBSET T : R # T => R \in G
      PROVE  T \in G
  <2>1. CASE T = {}
    <3>1. Named(T) = {}
      BY <2>1
    <3> QED
      BY <2>1, <3>1, TotalOfNone, FS_EmptySet
  <2>2. CASE T # {}
    <3>1. PICK x \in T : TRUE
      BY <2>2
    <3>2. IsFiniteSet(T) /\ T \ {x} \in G
      BY <1>1, <3>1, FS_Subset
    <3>3. SetTotal(f, T) = f[x] + SetTotal(f, T \ {x})
      BY <3>1, <3>2, TotalRemoves
    <3>4. Named(T) = Named(T \ {x}) \cup {h[x]} /\ h[x] \notin Named(T \ {x})
      BY <3>1
    <3>5. \A y \in Named(T) : g[y] \in Int
      BY <3>1
    <3>6. IsFiniteSet(Named(T \ {x})) /\ SetTotal(g, Named(T \ {x})) = SetTotal(f, T \ {x})
      BY <3>2
    <3>7. IsFiniteSet(Named(T)) /\ SetTotal(g, Named(T)) = g[h[x]] + SetTotal(g, Named(T \ {x}))
      <4> DEFINE R == Named(T \ {x})
      <4>1. /\ IsFiniteSet(R) /\ h[x] \notin R /\ g[h[x]] \in Int
            /\ \A y \in R : g[y] \in Int
        BY <3>4, <3>5, <3>6
      <4>2. Named(T) = R \cup {h[x]}
        BY <3>4
      <4> HIDE DEF R, Named
      <4>3. SetTotal(g, R \cup {h[x]}) = g[h[x]] + SetTotal(g, R)
        BY <4>1, TotalAdds
      <4>4. IsFiniteSet(R \cup {h[x]})
        BY <4>1, FS_AddElement
      <4> QED
        BY <4>2, <4>3, <4>4 DEF R
    <3> HIDE DEF Named
    <3> QED
      BY <3>1, <3>3, <3>6, <3>7 DEF G
  <2> QED
    BY <2>1, <2>2
<1> HIDE DEF G
<1>2. \A T \in SUBSET S : T \in G
  BY <1>1, BySubsets
<1> QED
  BY <1>2 DEF G
=============================================================================
