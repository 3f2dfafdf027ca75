---------------------------- MODULE DataInduction ----------------------------
(***************************************************************************)
(* Induction and recursion over data, for the proofs about the scanner of  *)
(* the legacy format and about lists of operations.  The library states    *)
(* these principles for operators; here they are stated for sets and       *)
(* functions, and rest on FS_StrictSubsetOrderingWellFounded and WFMin.    *)
(***************************************************************************)
EXTENDS Integers, FiniteSetTheorems, TLAPS

(***************************************************************************)
(* Every set of natural numbers that is not empty has a least element.     *)
(***************************************************************************)
LEMMA NatLeast ==
    ASSUME NEW T \in SUBSET Nat, T # {}
    PROVE  \E n \in T : \A m \in T : n <= m
<1> DEFINE R == StrictSubsetOrdering(Nat)
           S == FiniteSubsetsOf(Nat)
           U == {1..n : n \in T}
<1>1. IsWellFoundedOn(R, S)
  BY FS_StrictSubsetOrderingWellFounded
<1>2. U \subseteq S /\ U # {}
  <2>1. \A n \in T : IsFiniteSet(1..n) /\ 1..n \subseteq Nat
    BY FS_Interval
  <2> QED
    BY <2>1 DEF FiniteSubsetsOf
<1>3. PICK x \in U : \A y \in U : ~(<<y, x>> \in R)
  <2> HIDE DEF R, S, U
  <2> QED
    BY <1>1, <1>2, WFMin
<1>4. PICK n \in T : x = 1..n
  OBVIOUS
<1>5. ASSUME NEW m \in T, m < n PROVE FALSE
  <2>1. n \in 1..n /\ n \notin 1..m
    BY <1>5
  <2>2. 1..m \subseteq 1..n /\ 1..m # 1..n
    BY <1>5, <2>1
  <2>3. <<1..m, 1..n>> \in R
    BY <2>2 DEF StrictSubsetOrdering
  <2> QED
    BY <1>3, <1>4, <2>3
<1> QED
  BY <1>5

(***************************************************************************)
(* A set of natural numbers that has 0, and the successor of each of its   *)
(* elements, is the set of all of them.                                    *)
(***************************************************************************)
LEMMA NatSetInduction ==
    ASSUME NEW P \in SUBSET Nat, 0 \in P, \A n \in P : n + 1 \in P
    PROVE  P = Nat
<1>1. SUFFICES ASSUME Nat \ P # {} PROVE FALSE
  OBVIOUS
<1>2. PICK n \in Nat \ P : \A m \in Nat \ P : n <= m
  BY <1>1, NatLeast
<1>3. n # 0 /\ n - 1 \in Nat /\ n - 1 < n
  OBVIOUS
<1> QED
  BY <1>2, <1>3

(***************************************************************************)
(* The same from all the smaller numbers at once.                          *)
(***************************************************************************)
LEMMA StrongNatSetInduction ==
    ASSUME NEW P \in SUBSET Nat, \A n \in Nat : (\A m \in 0..n - 1 : m \in P) => n \in P
    PROVE  P = Nat
<1>1. SUFFICES ASSUME Nat \ P # {} PROVE FALSE
  OBVIOUS
<1>2. PICK n \in Nat \ P : \A m \in Nat \ P : n <= m
  BY <1>1, NatLeast
<1>3. \A m \in 0..n - 1 : m \in P
  BY <1>2
<1> QED
  BY <1>2, <1>3
-----------------------------------------------------------------------------
(***************************************************************************)
(* Step[x, g] is the right-hand side of a recursive definition: the value  *)
(* for x if g holds the values for all arguments of a smaller rank.        *)
(***************************************************************************)
Recursive(D, R, rank, Step) ==
    /\ R # {}
    /\ rank \in [D -> Nat]
    /\ Step \in [D -> [[D -> R] -> R]]
    /\ \A x \in D, g, h \in [D -> R] :
         (\A y \in D : rank[y] < rank[x] => g[y] = h[y]) => Step[x][g] = Step[x][h]

\* f satisfies the definition for arguments of a rank below n.
SolvesBelow(D, rank, Step, f, n) == \A x \in D : rank[x] < n => f[x] = Step[x][f]

\* Below n there is only one solution.
LEMMA SolutionsAgree ==
    ASSUME NEW D, NEW R, NEW rank, NEW Step, Recursive(D, R, rank, Step), NEW n \in Nat,
           NEW g \in [D -> R], SolvesBelow(D, rank, Step, g, n),
           NEW h \in [D -> R], SolvesBelow(D, rank, Step, h, n)
    PROVE  \A x \in D : rank[x] < n => g[x] = h[x]
<1> DEFINE P == {k \in Nat : k <= n => \A x \in D : rank[x] < k => g[x] = h[x]}
<1>1. rank \in [D -> Nat]
  BY DEF Recursive
<1>2. 0 \in P
  BY <1>1
<1>3. ASSUME NEW k \in P PROVE k + 1 \in P
  <2> SUFFICES ASSUME k + 1 <= n, NEW x \in D, rank[x] < k + 1
               PROVE  g[x] = h[x]
    OBVIOUS
  <2>1. rank[x] \in Nat /\ rank[x] < n /\ rank[x] <= k
    BY <1>1
  <2>2. \A y \in D : rank[y] < rank[x] => g[y] = h[y]
    BY <1>1, <2>1
  <2>3. Step[x][g] = Step[x][h]
    BY <2>2 DEF Recursive
  <2> QED
    BY <2>1, <2>3 DEF SolvesBelow
<1>4. P = Nat
  <2> HIDE DEF P
  <2> QED
    BY <1>2, <1>3, NatSetInduction, P \in SUBSET Nat DEF P
<1> QED
  BY <1>4

\* For every n there is a solution below n.
LEMMA SolutionBelow ==
    ASSUME NEW D, NEW R, NEW rank, NEW Step, Recursive(D, R, rank, Step), NEW n \in Nat
    PROVE  \E f \in [D -> R] : SolvesBelow(D, rank, Step, f, n)
<1> DEFINE P == {k \in Nat : \E f \in [D -> R] : SolvesBelow(D, rank, Step, f, k)}
<1>1. rank \in [D -> Nat]
  BY DEF Recursive
<1>2. 0 \in P
  <2>1. PICK v \in R : TRUE
    BY DEF Recursive
  <2>2. [x \in D |-> v] \in [D -> R]
    OBVIOUS
  <2>3. SolvesBelow(D, rank, Step, [x \in D |-> v], 0)
    BY <1>1 DEF SolvesBelow
  <2> QED
    BY <2>2, <2>3
<1>3. ASSUME NEW k \in P PROVE k + 1 \in P
  <2>1. PICK f \in [D -> R] : SolvesBelow(D, rank, Step, f, k)
    OBVIOUS
  <2> DEFINE g == [x \in D |-> Step[x][f]]
  <2>2. g \in [D -> R]
    BY DEF Recursive
  <2>3. \A x \in D : rank[x] < k => g[x] = f[x]
    BY <2>1 DEF SolvesBelow
  <2>4. ASSUME NEW x \in D, rank[x] < k + 1 PROVE g[x] = Step[x][g]
    <3>1. \A y \in D : rank[y] < rank[x] => f[y] = g[y]
      BY <1>1, <2>3, <2>4
    <3>2. Step[x][f] = Step[x][g]
      <4> HIDE DEF g
      <4> QED
        BY <2>2, <3>1 DEF Recursive
    <3> QED
      BY <3>2
  <2>5. SolvesBelow(D, rank, Step, g, k + 1)
    BY <2>4 DEF SolvesBelow
  <2> QED
    BY <2>2, <2>5
<1>4. P = Nat
  <2> HIDE DEF P
  <2> QED
    BY <1>2, <1>3, NatSetInduction, P \in SUBSET Nat DEF P
<1> QED
  BY <1>4

(***************************************************************************)
(* A recursive definition whose calls have a smaller rank is satisfied by  *)
(* some function.                                                          *)
(***************************************************************************)
LEMMA RecursiveFunctionExists ==
    ASSUME NEW D, NEW R, NEW rank, NEW Step, Recursive(D, R, rank, Step)
    PROVE  \E f \in [D -> R] : \A x \in D : f[x] = Step[x][f]
<1> DEFINE Sol(n) == CHOOSE g \in [D -> R] : SolvesBelow(D, rank, Step, g, n)
           f == [x \in D |-> Sol(rank[x] + 1)[x]]
<1>1. rank \in [D -> Nat]
  BY DEF Recursive
<1>2. \A n \in Nat : Sol(n) \in [D -> R] /\ SolvesBelow(D, rank, Step, Sol(n), n)
  BY SolutionBelow
<1> HIDE DEF Sol
<1>3. f \in [D -> R]
  <2>1. \A x \in D : rank[x] + 1 \in Nat
    BY <1>1
  <2> QED
    BY <1>2, <2>1
<1>4. ASSUME NEW x \in D PROVE f[x] = Step[x][f]
  <2> DEFINE n == rank[x] + 1
  <2>1. n \in Nat
    BY <1>1
  <2>2. \A y \in D : rank[y] < rank[x] => Sol(n)[y] = f[y]
    <3> SUFFICES ASSUME NEW y \in D, rank[y] < rank[x]
                 PROVE  Sol(n)[y] = Sol(rank[y] + 1)[y]
      OBVIOUS
    <3>1. rank[y] + 1 \in Nat /\ rank[y] + 1 <= n /\ rank[y] < rank[y] + 1
      BY <1>1
    <3>2. SolvesBelow(D, rank, Step, Sol(n), rank[y] + 1)
      BY <1>1, <1>2, <2>1, <3>1 DEF SolvesBelow
    <3> QED
      BY <1>2, <2>1, <3>1, <3>2, SolutionsAgree
  <2>3. Step[x][Sol(n)] = Step[x][f]
    <3> HIDE DEF f, n
    <3> QED
      BY <1>2, <1>3, <2>1, <2>2 DEF Recursive
  <2>4. Sol(n)[x] = Step[x][Sol(n)]
    BY <1>1, <1>2, <2>1 DEF SolvesBelow
  <2> QED
    BY <2>3, <2>4
<1> QED
  BY <1>3, <1>4
=============================================================================
