------------------------------ MODULE Recursion ------------------------------
(***************************************************************************)
(* Induction and recursion for the proofs about functions that are defined *)
(* recursively.  A predicate is a set here, and the body of a definition a *)
(* function, so that the provers can instantiate them.                     *)
(***************************************************************************)
EXTENDS Integers, WellFoundedInduction, TLAPS

\* A set of naturals that has a member has a least one.
LEMMA Least ==
    ASSUME NEW T \in SUBSET Nat, T # {}
    PROVE  \E n \in T : \A m \in T : n <= m
<1> DEFINE less == OpToRel(<, Nat)
<1>1. \A m, n \in Nat : <<m, n>> \in less <=> m < n
  BY DEF OpToRel
<1>2. IsWellFoundedOn(less, Nat)
  BY NatLessThanWellFounded
<1> HIDE DEF less
<1>3. PICK n \in T : \A m \in T : ~(<<m, n>> \in less)
  BY <1>2, WFMin
<1>4. ASSUME NEW m \in T PROVE n <= m
  <2>1. ~(m < n)
    BY <1>1, <1>3
  <2> QED BY <2>1, SMT
<1> QED BY <1>3, <1>4

\* A set of naturals with 0 and the successors of its members has all of them.
LEMMA Induction ==
    ASSUME NEW P, 0 \in P, \A n \in Nat : n \in P => n + 1 \in P
    PROVE  \A n \in Nat : n \in P
<1> SUFFICES ASSUME NEW k \in Nat, k \notin P PROVE FALSE
  OBVIOUS
<1>1. PICK n \in Nat \ P : \A m \in Nat \ P : n <= m
  BY Least
<1>2. n # 0 /\ n - 1 \in Nat
  BY <1>1
<1>3. n - 1 \in P
  BY <1>1, <1>2
<1>4. (n - 1) + 1 \in P
  BY <1>2, <1>3
<1> QED BY <1>1, <1>2, <1>4

\* The members of an interval, from either end.
Upward(P, a, b) == a \in P /\ \A i \in a..(b - 1) : i \in P => i + 1 \in P

Downward(P, a, b) == b \in P /\ \A i \in (a + 1)..b : i \in P => i - 1 \in P

LEMMA UpwardInduction ==
    ASSUME NEW a \in Int, NEW b \in Int, NEW P, Upward(P, a, b)
    PROVE  \A i \in a..b : i \in P
<1> USE DEF Upward
<1> DEFINE Q == {n \in Nat : a + n <= b => a + n \in P}
<1>1. 0 \in Q
  OBVIOUS
<1>2. ASSUME NEW n \in Nat, n \in Q PROVE n + 1 \in Q
  <2> SUFFICES ASSUME a + (n + 1) <= b PROVE a + (n + 1) \in P
    OBVIOUS
  <2>1. a + n \in a..(b - 1) /\ a + n \in P
    BY <1>2
  <2>2. (a + n) + 1 \in P
    BY <2>1
  <2> QED BY <2>2
<1> HIDE DEF Q
<1>3. \A n \in Nat : n \in Q
  BY <1>1, <1>2, Induction
<1> SUFFICES ASSUME NEW i \in a..b PROVE i \in P
  OBVIOUS
<1>4. i - a \in Nat /\ a + (i - a) = i
  OBVIOUS
<1>5. i - a \in Q
  BY <1>3, <1>4
<1> QED BY <1>4, <1>5 DEF Q

LEMMA DownwardInduction ==
    ASSUME NEW a \in Int, NEW b \in Int, NEW P, Downward(P, a, b)
    PROVE  \A i \in a..b : i \in P
<1> USE DEF Downward
<1> DEFINE Q == {j \in Int : b - j \in P}
<1>1. 0 \in Q
  OBVIOUS
<1> DEFINE m == b - a
<1>2. ASSUME NEW j \in 0..(m - 1), j \in Q PROVE j + 1 \in Q
  <2>1. b - j \in (a + 1)..b /\ b - j \in P
    BY <1>2
  <2>2. (b - j) - 1 \in P
    BY <2>1
  <2> QED BY <2>2
<1>3. m \in Int
  OBVIOUS
<1> HIDE DEF Q, m
<1>4. \A j \in 0..m : j \in Q
  <2>1. Upward(Q, 0, m)
    BY <1>1, <1>2 DEF Upward
  <2> QED BY <1>3, <2>1, UpwardInduction
<1> SUFFICES ASSUME NEW i \in a..b PROVE i \in P
  OBVIOUS
<1>5. b - i \in 0..m /\ b - (b - i) = i
  BY DEF m
<1>6. b - i \in Q
  BY <1>4, <1>5
<1> QED BY <1>5, <1>6 DEF Q

\* step gives a value of S for an argument and the values at those of a lower rank.
IsRecursion(D, S, N, rank, step) ==
    /\ S # {} /\ N \in Nat /\ rank \in [D -> 0..N] /\ step \in [D -> [[D -> S] -> S]]
    /\ \A d \in D : \A g, h \in [D -> S] :
           (\A e \in D : rank[e] < rank[d] => g[e] = h[e]) => step[d][g] = step[d][h]

\* A function whose value at each argument depends on its values at the arguments
\* of a lower rank exists.
LEMMA RankedRecursion ==
    ASSUME NEW D, NEW S, NEW N, NEW rank, NEW step, IsRecursion(D, S, N, rank, step)
    PROVE  \E f \in [D -> S] : \A d \in D : f[d] = step[d][f]
<1> USE DEF IsRecursion
<1> DEFINE P == {n \in Nat : \E f \in [D -> S] :
                     \A d \in D : rank[d] < n => f[d] = step[d][f]}
<1>1. 0 \in P
  <2>1. PICK s \in S : TRUE
    OBVIOUS
  <2>2. PICK g \in [D -> S] : g = [d \in D |-> s]
    OBVIOUS
  <2>3. \A d \in D : ~(rank[d] < 0)
    OBVIOUS
  <2> QED BY <2>2, <2>3
<1>2. ASSUME NEW n \in Nat, n \in P PROVE n + 1 \in P
  <2>1. PICK g \in [D -> S] : \A d \in D : rank[d] < n => g[d] = step[d][g]
    BY <1>2
  <2> DEFINE h == [d \in D |-> step[d][g]]
  <2>2. h \in [D -> S] /\ \A d \in D : h[d] = step[d][g]
    OBVIOUS
  <2> HIDE DEF h
  <2>3. ASSUME NEW d \in D, rank[d] < n + 1 PROVE h[d] = step[d][h]
    <3>1. \A e \in D : rank[e] < rank[d] => g[e] = h[e]
      BY <2>1, <2>2, <2>3
    <3>2. step[d][g] = step[d][h]
      BY <2>2, <3>1
    <3> QED BY <2>2, <3>2
  <2> QED BY <2>2, <2>3
<1> HIDE DEF P
<1>3. N + 1 \in P
  BY <1>1, <1>2, Induction
<1> QED BY <1>3 DEF P

Follows(f, N, first, step) ==
    \A n \in 0..N : f[n] = IF n = 0 THEN first ELSE step[n][f[n - 1]]

\* Recursion over the naturals up to a bound, from a first value.
LEMMA Recursion ==
    ASSUME NEW N \in Nat, NEW S, NEW first \in S, NEW step \in [1..N -> [S -> S]]
    PROVE  \E f \in [0..N -> S] : Follows(f, N, first, step)
<1> DEFINE D == 0..N
           rank == [n \in D |-> n]
           full == [n \in D |-> [g \in [D -> S] |->
                        IF n = 0 THEN first ELSE step[n][g[n - 1]]]]
<1>1. ASSUME NEW n \in D, NEW g \in [D -> S]
      PROVE  /\ full[n][g] = IF n = 0 THEN first ELSE step[n][g[n - 1]]
             /\ full[n][g] \in S
  <2>1. full[n][g] = IF n = 0 THEN first ELSE step[n][g[n - 1]]
    OBVIOUS
  <2>2. n # 0 => n \in 1..N /\ g[n - 1] \in S
    OBVIOUS
  <2>3. n # 0 => step[n][g[n - 1]] \in S
    BY <2>2
  <2> QED BY <2>1, <2>3
<1>2. full \in [D -> [[D -> S] -> S]]
  BY <1>1
<1>3. rank \in [D -> 0..N]
  OBVIOUS
<1>4. ASSUME NEW n \in D, NEW g \in [D -> S], NEW h \in [D -> S],
             \A e \in D : rank[e] < rank[n] => g[e] = h[e]
      PROVE  full[n][g] = full[n][h]
  <2>1. n # 0 => n - 1 \in D /\ rank[n - 1] < rank[n]
    OBVIOUS
  <2> HIDE DEF full
  <2>2. n # 0 => g[n - 1] = h[n - 1]
    BY <1>4, <2>1
  <2> QED BY <1>1, <2>2
<1>5. S # {} /\ N \in Nat
  OBVIOUS
<1>6. IsRecursion(D, S, N, rank, full)
  BY <1>2, <1>3, <1>4, <1>5 DEF IsRecursion
<1> HIDE DEF full, rank, D
<1>7. \E f \in [D -> S] : \A n \in D : f[n] = full[n][f]
  BY <1>6, RankedRecursion
<1> QED BY <1>1, <1>7 DEF D, Follows

=============================================================================
