------------------------------ MODULE Inductions ------------------------------
(***************************************************************************)
(* Induction over naturals and over the folds of the community modules, in *)
(* a form the provers can use: a property is a set, not an operator.       *)
(***************************************************************************)
EXTENDS Naturals, FiniteSetsExt, SequencesExt, FiniteSetTheorems, WellFoundedInduction, TLAPS

(* A set of naturals has a least element. Induction is on sets, from the   *)
(* well-foundedness of <, so that no operator is a parameter.              *)
LEMMA Least ==
  ASSUME NEW T \in SUBSET Nat, T # {}
  PROVE  \E x \in T : \A y \in T : x <= y
<1>1. PICK x \in T : \A y \in T : ~(<<y, x>> \in OpToRel(<, Nat))
  BY NatLessThanWellFounded, WFMin
<1>2. \A y \in T : ~(y < x)  BY <1>1 DEF OpToRel
<1> QED  BY <1>2

(* A bounded set of naturals has a greatest element.                       *)
LEMMA Greatest ==
  ASSUME NEW T \in SUBSET Nat, T # {}, NEW n \in Nat, \A y \in T : y <= n
  PROVE  \E x \in T : \A y \in T : x >= y
<1> DEFINE B == {m \in Nat : \A y \in T : y <= m}
<1>0. B \in SUBSET Nat /\ B # {}  OBVIOUS
<1>1. PICK m \in B : \A k \in B : m <= k
  <2> HIDE DEF B
  <2> QED  BY <1>0, Least
<1>2. ASSUME m \notin T PROVE FALSE
  <2>0. PICK t \in T : t \in Nat /\ t <= m /\ t # m  BY <1>1, <1>2
  <2>1. m # 0  BY <1>1, <2>0
  <2>2. m - 1 \in B  BY <1>1, <1>2, <2>1
  <2> QED  BY <1>1, <2>2
<1> QED  BY <1>1, <1>2

(* Induction: a set that has 0 and the successor of each of its elements   *)
(* up to n has all of them.                                                *)
LEMMA UpTo ==
  ASSUME NEW n \in Nat, NEW P, 0 \in P, \A k \in 1 .. n : k - 1 \in P => k \in P
  PROVE  \A k \in 0 .. n : k \in P
<1> SUFFICES ASSUME NEW k \in 0 .. n, k \notin P PROVE FALSE  OBVIOUS
<1> DEFINE T == {i \in 0 .. n : i \notin P}
<1>0. T \in SUBSET Nat /\ T # {}  OBVIOUS
<1>1. PICK x \in T : \A y \in T : x <= y
  <2> HIDE DEF T
  <2> QED  BY <1>0, Least
<1>2. x # 0  BY <1>1
<1>3. x - 1 \in 0 .. n /\ x - 1 \notin T  BY <1>1, <1>2
<1> QED  BY <1>1, <1>2, <1>3

(* The element that no other exceeds is the maximum.                       *)
LEMMA MaxIs ==
  ASSUME NEW S, NEW x \in S, S \subseteq Nat, \A y \in S : y <= x
  PROVE  Max(S) = x
<1>1. \E z \in S : \A y \in S : z >= y  OBVIOUS
<1>2. Max(S) \in S /\ \A y \in S : Max(S) >= y  BY <1>1 DEF Max
<1>3. Max(S) \in Nat /\ x \in Nat /\ Max(S) >= x /\ Max(S) <= x  BY <1>2
<1> QED  BY <1>3

(* The maximum of a set of positions is one of them.                       *)
LEMMA MaxIn ==
  ASSUME NEW n \in Nat, NEW S \in SUBSET (1 .. n), S # {}
  PROVE  Max(S) \in S
<1>1. S \in SUBSET Nat /\ \A y \in S : y <= n  OBVIOUS
<1>2. \E x \in S : \A y \in S : x >= y  BY <1>1, Greatest
<1> QED  BY <1>2 DEF Max

(* The minimum of a set of naturals is in it and exceeds none.             *)
LEMMA MinIn ==
  ASSUME NEW S \in SUBSET Nat, S # {}
  PROVE  Min(S) \in S /\ \A y \in S : Min(S) <= y
<1>1. \E x \in S : \A y \in S : x <= y  BY Least
<1> QED  BY <1>1 DEF Min

(* The element that exceeds no other is the minimum.                       *)
LEMMA MinIs ==
  ASSUME NEW S, NEW x \in S, S \subseteq Nat, \A y \in S : x <= y
  PROVE  Min(S) = x
<1>1. \E z \in S : \A y \in S : z =< y  OBVIOUS
<1>2. Min(S) \in S /\ \A y \in S : Min(S) =< y  BY <1>1 DEF Min
<1>3. Min(S) \in Nat /\ x \in Nat /\ Min(S) >= x /\ Min(S) <= x  BY <1>2
<1> QED  BY <1>3

(* g is the function on sets of positions by which FoldLeft is defined:    *)
(* the last position is applied last.                                      *)
IsLeftFold(g, n, base, F) ==
  /\ g[{}] = base
  /\ \A s \in SUBSET (1 .. n) : s # {} => g[s] = F[Max(s)][g[s \ {Max(s)}]]

(* The recursive function that FoldLeft chooses exists, with values in A.  *)
LEMMA FoldsLeft ==
  ASSUME NEW n \in Nat, NEW A, NEW base \in A, NEW F \in [1 .. n -> [A -> A]]
  PROVE  \E g \in [SUBSET (1 .. n) -> A] : IsLeftFold(g, n, base, F)
<1> DEFINE Eq(g, k) == g = [s \in SUBSET (1 .. k) |->
                  IF s = {} THEN base ELSE F[Max(s)][g[s \ {Max(s)}]]]
           P == {k \in 0 .. n : \E g \in [SUBSET (1 .. k) -> A] : Eq(g, k)}
<1>1. 0 \in P
  <2> DEFINE g == [s \in SUBSET (1 .. 0) |-> base]
  <2>1. \A s \in SUBSET (1 .. 0) : s = {}  OBVIOUS
  <2>2. g \in [SUBSET (1 .. 0) -> A] /\ Eq(g, 0)  BY <2>1
  <2>3. 0 \in 0 .. n  OBVIOUS
  <2> HIDE DEF Eq, g
  <2> QED  BY <2>2, <2>3
<1>2. ASSUME NEW k \in 1 .. n, k - 1 \in P PROVE k \in P
  <2>1. PICK f \in [SUBSET (1 .. (k - 1)) -> A] : Eq(f, k - 1)  BY <1>2
  <2> DEFINE g == [s \in SUBSET (1 .. k) |->
                     IF k \in s THEN F[k][f[s \ {k}]] ELSE f[s]]
  <2>2. ASSUME NEW s \in SUBSET (1 .. k)
        PROVE  /\ k \in s => s \ {k} \in SUBSET (1 .. (k - 1))
               /\ k \notin s => s \in SUBSET (1 .. (k - 1))
    OBVIOUS
  <2>3. g \in [SUBSET (1 .. k) -> A]  BY <2>2
  <2>4. ASSUME NEW s \in SUBSET (1 .. k)
        PROVE  g[s] = IF s = {} THEN base ELSE F[Max(s)][g[s \ {Max(s)}]]
    <3>1. CASE k \in s
      <4>0. s \subseteq Nat /\ \A y \in s : y <= k  OBVIOUS
      <4>1. Max(s) = k  BY <3>1, <4>0, MaxIs
      <4>2. g[s \ {k}] = f[s \ {k}]  BY <2>2
      <4> QED  BY <3>1, <4>1, <4>2
    <3>2. CASE k \notin s
      <4>1. s \in SUBSET (1 .. (k - 1))  BY <2>2, <3>2
      <4>2. f[s] = IF s = {} THEN base ELSE F[Max(s)][f[s \ {Max(s)}]]
        BY <2>1, <4>1
      <4>3. g[s] = f[s]  BY <3>2
      <4>4. g[s \ {Max(s)}] = f[s \ {Max(s)}]  BY <3>2
      <4> QED  BY <4>2, <4>3, <4>4
    <3> QED  BY <3>1, <3>2
  <2>5. Eq(g, k)  BY <2>3, <2>4
  <2>6. k \in 0 .. n  OBVIOUS
  <2> HIDE DEF Eq, g
  <2> QED  BY <2>3, <2>5, <2>6
<1> HIDE DEF P
<1>3. \A k \in 0 .. n : k \in P  BY <1>1, <1>2, UpTo
<1>4. n \in P  BY <1>3
<1> QED  BY <1>4 DEF P, IsLeftFold

(* The one by which FoldRight is defined: the first position is applied    *)
(* last.                                                                   *)
IsRightFold(g, n, base, F) ==
  /\ g[{}] = base
  /\ \A s \in SUBSET (1 .. n) : s # {} => g[s] = F[Min(s)][g[s \ {Min(s)}]]

(* So does the one that FoldRight chooses.                                 *)
LEMMA FoldsRight ==
  ASSUME NEW n \in Nat, NEW A, NEW base \in A, NEW F \in [1 .. n -> [A -> A]]
  PROVE  \E g \in [SUBSET (1 .. n) -> A] : IsRightFold(g, n, base, F)
<1> DEFINE Eq(g, k) == g = [s \in SUBSET (n - k + 1 .. n) |->
                  IF s = {} THEN base ELSE F[Min(s)][g[s \ {Min(s)}]]]
           P == {k \in 0 .. n : \E g \in [SUBSET (n - k + 1 .. n) -> A] : Eq(g, k)}
<1>1. 0 \in P
  <2> DEFINE g == [s \in SUBSET (n - 0 + 1 .. n) |-> base]
  <2>1. \A s \in SUBSET (n - 0 + 1 .. n) : s = {}  OBVIOUS
  <2>2. g \in [SUBSET (n - 0 + 1 .. n) -> A] /\ Eq(g, 0)  BY <2>1
  <2>3. 0 \in 0 .. n  OBVIOUS
  <2> HIDE DEF Eq, g
  <2> QED  BY <2>2, <2>3
<1>2. ASSUME NEW k \in 1 .. n, k - 1 \in P PROVE k \in P
  <2>1. PICK f \in [SUBSET (n - (k - 1) + 1 .. n) -> A] : Eq(f, k - 1)  BY <1>2
  <2> DEFINE g == [s \in SUBSET (n - k + 1 .. n) |->
                     IF n - k + 1 \in s THEN F[n - k + 1][f[s \ {n - k + 1}]] ELSE f[s]]
  <2>2. ASSUME NEW s \in SUBSET (n - k + 1 .. n)
        PROVE  /\ n - k + 1 \in s => s \ {n - k + 1} \in SUBSET (n - (k - 1) + 1 .. n)
               /\ n - k + 1 \notin s => s \in SUBSET (n - (k - 1) + 1 .. n)
    OBVIOUS
  <2>3. g \in [SUBSET (n - k + 1 .. n) -> A]  BY <2>2
  <2>4. ASSUME NEW s \in SUBSET (n - k + 1 .. n)
        PROVE  g[s] = IF s = {} THEN base ELSE F[Min(s)][g[s \ {Min(s)}]]
    <3>1. CASE n - k + 1 \in s
      <4>0. s \subseteq Nat /\ \A y \in s : n - k + 1 <= y  OBVIOUS
      <4>1. Min(s) = n - k + 1  BY <3>1, <4>0, MinIs
      <4>2. g[s \ {n - k + 1}] = f[s \ {n - k + 1}]  BY <2>2
      <4> QED  BY <3>1, <4>1, <4>2
    <3>2. CASE n - k + 1 \notin s
      <4>1. s \in SUBSET (n - (k - 1) + 1 .. n)  BY <2>2, <3>2
      <4>2. f[s] = IF s = {} THEN base ELSE F[Min(s)][f[s \ {Min(s)}]]
        BY <2>1, <4>1
      <4>3. g[s] = f[s]  BY <3>2
      <4>4. g[s \ {Min(s)}] = f[s \ {Min(s)}]  BY <3>2
      <4> QED  BY <4>2, <4>3, <4>4
    <3> QED  BY <3>1, <3>2
  <2>5. Eq(g, k)  BY <2>3, <2>4
  <2>6. k \in 0 .. n  OBVIOUS
  <2> HIDE DEF Eq, g
  <2> QED  BY <2>3, <2>5, <2>6
<1> HIDE DEF P
<1>3. \A k \in 0 .. n : k \in P  BY <1>1, <1>2, UpTo
<1>4. n \in P  BY <1>3
<1>5. n - n + 1 = 1  OBVIOUS
<1> QED  BY <1>4, <1>5 DEF P, IsRightFold

(* The positions that FoldLeft has been through.                           *)
LEMMA Prefix ==
  ASSUME NEW n \in Nat, NEW k \in 1 .. n
  PROVE  /\ 1 .. k \in SUBSET (1 .. n) /\ 1 .. k # {}
         /\ Max(1 .. k) = k /\ (1 .. k) \ {k} = 1 .. (k - 1)
<1>1. k \in 1 .. k /\ 1 .. k \subseteq Nat /\ \A y \in 1 .. k : y <= k  OBVIOUS
<1>2. Max(1 .. k) = k  BY <1>1, MaxIs
<1> QED  BY <1>1, <1>2

(* The positions that FoldRight has been through.                          *)
LEMMA Suffix ==
  ASSUME NEW n \in Nat, NEW k \in 1 .. n
  PROVE  /\ k .. n \in SUBSET (1 .. n) /\ k .. n # {}
         /\ Min(k .. n) = k /\ (k .. n) \ {k} = (k + 1) .. n
<1>1. k \in k .. n /\ k .. n \subseteq Nat /\ \A y \in k .. n : k <= y  OBVIOUS
<1>2. Min(k .. n) = k  BY <1>1, MinIs
<1> QED  BY <1>1, <1>2

(* What the base has and each step of FoldLeft keeps, the result has.      *)
LEMMA FoldedLeft ==
  ASSUME NEW n \in Nat, NEW A, NEW h, h[{}] \in A,
         \A k \in 1 .. n : h[1 .. (k - 1)] \in A => h[1 .. k] \in A
  PROVE  h[1 .. n] \in A
<1> DEFINE P == {k \in 0 .. n : h[1 .. k] \in A}
<1>1. 1 .. 0 = {} /\ 0 \in 0 .. n  OBVIOUS
<1>2. 0 \in P  BY <1>1
<1>3. \A k \in 1 .. n : k - 1 \in P => k \in P  OBVIOUS
<1> HIDE DEF P
<1>4. \A k \in 0 .. n : k \in P  BY <1>2, <1>3, UpTo
<1>5. n \in P  BY <1>4
<1> QED  BY <1>5 DEF P

(* What the base has and each step of FoldRight keeps, the result has.     *)
LEMMA FoldedRight ==
  ASSUME NEW n \in Nat, NEW A, NEW h, h[{}] \in A,
         \A k \in 1 .. n : h[(k + 1) .. n] \in A => h[k .. n] \in A
  PROVE  h[1 .. n] \in A
<1> DEFINE P == {k \in 0 .. n : h[(n - k + 1) .. n] \in A}
<1>1. (n - 0 + 1) .. n = {} /\ 0 \in 0 .. n  OBVIOUS
<1>2. 0 \in P  BY <1>1
<1>3. ASSUME NEW k \in 1 .. n, k - 1 \in P PROVE k \in P
  <2>1. n - k + 1 \in 1 .. n /\ n - (k - 1) + 1 = n - k + 1 + 1 /\ k \in 0 .. n
    OBVIOUS
  <2>2. h[(n - k + 1 + 1) .. n] \in A  BY <1>3, <2>1
  <2>3. h[(n - k + 1) .. n] \in A  BY <2>1, <2>2
  <2> QED  BY <2>1, <2>3
<1> HIDE DEF P
<1>4. \A k \in 0 .. n : k \in P  BY <1>2, <1>3, UpTo
<1>5. n \in P /\ n - n + 1 = 1  BY <1>4
<1> QED  BY <1>5 DEF P

(* The same from above.                                                    *)
LEMMA DownTo ==
  ASSUME NEW n \in Nat, NEW P, n + 1 \in P, \A k \in 1 .. n : k + 1 \in P => k \in P
  PROVE  \A k \in 1 .. (n + 1) : k \in P
<1> DEFINE Q == {i \in 0 .. n : n + 1 - i \in P}
<1>1. 0 \in Q  OBVIOUS
<1>2. ASSUME NEW i \in 1 .. n, i - 1 \in Q PROVE i \in Q
  <2>1. n + 1 - i \in 1 .. n /\ n + 1 - (i - 1) = n + 1 - i + 1  OBVIOUS
  <2>2. n + 1 - i + 1 \in P  BY <1>2, <2>1
  <2> QED  BY <2>1, <2>2
<1>3. \A i \in 0 .. n : i \in Q
  <2> HIDE DEF Q
  <2> QED  BY <1>1, <1>2, UpTo
<1>4. ASSUME NEW k \in 1 .. (n + 1) PROVE k \in P
  <2>1. n + 1 - k \in 0 .. n /\ n + 1 - (n + 1 - k) = k  OBVIOUS
  <2> QED  BY <1>3, <2>1
<1> QED  BY <1>4

(* So have the values before: the steps of FoldLeft are a run from the     *)
(* base.                                                                   *)
LEMMA RunLeft ==
  ASSUME NEW n \in Nat, NEW A, NEW h, h[{}] \in A,
         \A k \in 1 .. n : h[1 .. (k - 1)] \in A => h[1 .. k] \in A
  PROVE  \A k \in 0 .. n : h[1 .. k] \in A
<1> DEFINE P == {k \in 0 .. n : h[1 .. k] \in A}
<1>1. 1 .. 0 = {} /\ 0 \in 0 .. n  OBVIOUS
<1>2. 0 \in P  BY <1>1
<1>3. \A k \in 1 .. n : k - 1 \in P => k \in P  OBVIOUS
<1> HIDE DEF P
<1>4. \A k \in 0 .. n : k \in P  BY <1>2, <1>3, UpTo
<1> QED  BY <1>4 DEF P

(* The steps of FoldRight are a run down from the base.                    *)
LEMMA RunRight ==
  ASSUME NEW n \in Nat, NEW A, NEW h, h[{}] \in A,
         \A k \in 1 .. n : h[(k + 1) .. n] \in A => h[k .. n] \in A
  PROVE  \A k \in 1 .. (n + 1) : h[k .. n] \in A
<1> DEFINE P == {k \in 0 .. n : h[(n - k + 1) .. n] \in A}
<1>1. (n - 0 + 1) .. n = {} /\ 0 \in 0 .. n  OBVIOUS
<1>2. 0 \in P  BY <1>1
<1>3. ASSUME NEW k \in 1 .. n, k - 1 \in P PROVE k \in P
  <2>1. n - k + 1 \in 1 .. n /\ n - (k - 1) + 1 = n - k + 1 + 1 /\ k \in 0 .. n
    OBVIOUS
  <2>2. h[(n - k + 1 + 1) .. n] \in A  BY <1>3, <2>1
  <2>3. h[(n - k + 1) .. n] \in A  BY <2>1, <2>2
  <2> QED  BY <2>1, <2>3
<1> HIDE DEF P
<1>4. \A k \in 0 .. n : k \in P  BY <1>2, <1>3, UpTo
<1>5. ASSUME NEW k \in 1 .. (n + 1) PROVE h[k .. n] \in A
  <2>1. n - k + 1 \in 0 .. n /\ n - (n - k + 1) + 1 = k  OBVIOUS
  <2>2. n - k + 1 \in P  BY <1>4, <2>1
  <2> QED  BY <2>1, <2>2 DEF P
<1> QED  BY <1>5

(* The running sums of a list exist.                                       *)
LEMMA Sums ==
  ASSUME NEW n \in Nat, NEW v \in [0 .. n -> Nat]
  PROVE  \E f \in [0 .. n -> Nat] :
           f = [h \in 0 .. n |-> v[h] + IF h = 0 THEN 0 ELSE f[h - 1]]
<1> DEFINE Eq(f, k) == f = [h \in 0 .. k |-> v[h] + IF h = 0 THEN 0 ELSE f[h - 1]]
           P == {k \in 0 .. n : \E f \in [0 .. k -> Nat] : Eq(f, k)}
<1>1. 0 \in P
  <2> DEFINE f == [h \in 0 .. 0 |-> v[h]]
  <2>1. f \in [0 .. 0 -> Nat] /\ Eq(f, 0)  OBVIOUS
  <2>2. 0 \in 0 .. n  OBVIOUS
  <2> HIDE DEF Eq, f
  <2> QED  BY <2>1, <2>2
<1>2. ASSUME NEW k \in 1 .. n, k - 1 \in P PROVE k \in P
  <2>1. PICK f \in [0 .. k - 1 -> Nat] : Eq(f, k - 1)  BY <1>2
  <2> DEFINE g == [h \in 0 .. k |-> IF h = k THEN v[h] + f[k - 1] ELSE f[h]]
  <2>2. g \in [0 .. k -> Nat]  OBVIOUS
  <2>3. ASSUME NEW h \in 0 .. k
        PROVE  g[h] = v[h] + IF h = 0 THEN 0 ELSE g[h - 1]
    <3>1. CASE h = k  BY <3>1
    <3>2. CASE h # k
      <4>1. f[h] = v[h] + IF h = 0 THEN 0 ELSE f[h - 1]  BY <2>1, <3>2
      <4> QED  BY <3>2, <4>1
    <3> QED  BY <3>1, <3>2
  <2>4. Eq(g, k)  BY <2>2, <2>3
  <2>5. k \in 0 .. n  OBVIOUS
  <2> HIDE DEF Eq, g
  <2> QED  BY <2>2, <2>4, <2>5
<1> HIDE DEF P
<1>3. \A k \in 0 .. n : k \in P  BY <1>1, <1>2, UpTo
<1>4. n \in P  BY <1>3
<1> QED  BY <1>4 DEF P
-----------------------------------------------------------------------------
(* Sums over finite sets.                                                  *)

(* A set is reached from the empty one by adding elements.                 *)
LEMMA FiniteInduction ==
  ASSUME NEW S, IsFiniteSet(S), NEW P, {} \in P,
         \A s \in SUBSET S : \A x \in S \ s : s \in P => s \cup {x} \in P
  PROVE  S \in P
<1> DEFINE n == Cardinality(S)
           Q == {k \in 0 .. n : \A s \in SUBSET S : Cardinality(s) = k => s \in P}
<1>0. n \in Nat  BY FS_CardinalityType
<1> HIDE DEF n
<1>1. 0 \in Q
  <2>1. ASSUME NEW s \in SUBSET S, Cardinality(s) = 0 PROVE s \in P
    <3>1. IsFiniteSet(s)  BY FS_Subset
    <3>2. s = {}  BY <2>1, <3>1, FS_EmptySet
    <3> QED  BY <3>2
  <2> QED  BY <1>0, <2>1
<1>2. ASSUME NEW k \in 1 .. n, k - 1 \in Q PROVE k \in Q
  <2>1. ASSUME NEW s \in SUBSET S, Cardinality(s) = k PROVE s \in P
    <3>1. IsFiniteSet(s)  BY FS_Subset
    <3>2. s # {}  BY <1>0, <2>1, <3>1, FS_EmptySet
    <3>3. PICK x \in s : TRUE  BY <3>2
    <3>4. Cardinality(s \ {x}) = k - 1  BY <2>1, <3>1, <3>3, FS_RemoveElement
    <3>5. s \ {x} \in SUBSET S /\ x \in S \ (s \ {x}) /\ (s \ {x}) \cup {x} = s  BY <3>3
    <3>6. s \ {x} \in P  BY <1>2, <3>4, <3>5
    <3>7. (s \ {x}) \cup {x} \in P  BY <3>5, <3>6
    <3> QED  BY <3>5, <3>7
  <2> QED  BY <1>0, <2>1
<1> HIDE DEF Q
<1>3. \A k \in 0 .. n : k \in Q  BY <1>0, <1>1, <1>2, UpTo
<1>4. n \in Q  BY <1>0, <1>3
<1> QED  BY <1>4 DEF Q, n

(* g is the function on sets by which the sum of f is defined.             *)
Some(s) == CHOOSE x \in s : TRUE
IsSum(g, S, f) ==
  g = [s \in SUBSET S |-> IF s = {} THEN 0 ELSE f[Some(s)] + g[s \ {Some(s)}]]

(* SumFunctionOnSet is the value of that function for the whole set.       *)
LEMMA SumDef ==
  ASSUME NEW f, NEW S
  PROVE  SumFunctionOnSet(f, S) = (CHOOSE g : IsSum(g, S, f))[S]
  BY DEF SumFunctionOnSet, FoldFunctionOnSet, MapThenFoldSet, IsSum, Some

(* It exists.                                                              *)
LEMMA SumExists ==
  ASSUME NEW S, IsFiniteSet(S), NEW f, \A x \in S : f[x] \in Nat
  PROVE  \E g \in [SUBSET S -> Nat] : IsSum(g, S, f)
<1> DEFINE n == Cardinality(S)
           Upto(k) == {s \in SUBSET S : Cardinality(s) <= k}
           Eq(g, k) == g = [s \in Upto(k) |->
                  IF s = {} THEN 0 ELSE f[Some(s)] + g[s \ {Some(s)}]]
           P == {k \in 0 .. n : \E g \in [Upto(k) -> Nat] : Eq(g, k)}
<1>0. n \in Nat  BY FS_CardinalityType
<1>a. ASSUME NEW s \in SUBSET S PROVE IsFiniteSet(s) /\ Cardinality(s) \in Nat /\ Cardinality(s) <= n
  <2>1. IsFiniteSet(s) /\ Cardinality(s) <= n  BY FS_Subset
  <2> QED  BY <2>1, FS_CardinalityType
<1>b. ASSUME NEW s \in SUBSET S, s # {}
      PROVE  /\ Some(s) \in s /\ Some(s) \in S /\ s \ {Some(s)} \in SUBSET S
             /\ Cardinality(s \ {Some(s)}) = Cardinality(s) - 1 /\ Cardinality(s) >= 1
  <2>1. Some(s) \in s  BY <1>b DEF Some
  <2>2. Cardinality(s \ {Some(s)}) = Cardinality(s) - 1  BY <1>a, <2>1, FS_RemoveElement
  <2>3. Cardinality(s) # 0  BY <1>a, <1>b, FS_EmptySet
  <2>4. Cardinality(s) >= 1  BY <1>a, <2>3
  <2> QED  BY <2>1, <2>2, <2>4
<1> HIDE DEF n
<1>1. 0 \in P
  <2> DEFINE g == [s \in Upto(0) |-> 0]
  <2>1. ASSUME NEW s \in Upto(0) PROVE s = {}
    <3>1. s \in SUBSET S /\ Cardinality(s) <= 0  OBVIOUS
    <3>2. ~(Cardinality(s) >= 1)  BY <1>a, <3>1
    <3> QED  BY <1>b, <3>1, <3>2
  <2>2. g \in [Upto(0) -> Nat] /\ Eq(g, 0)  BY <2>1
  <2>3. 0 \in 0 .. n  BY <1>0
  <2> HIDE DEF Eq, g, Upto
  <2> QED  BY <2>2, <2>3
<1>2. ASSUME NEW k \in 1 .. n, k - 1 \in P PROVE k \in P
  <2>1. PICK h \in [Upto(k - 1) -> Nat] : Eq(h, k - 1)  BY <1>2
  <2> DEFINE v(s) == IF s = {} THEN 0 ELSE f[Some(s)] + h[s \ {Some(s)}]
             g == [s \in Upto(k) |-> v(s)]
  <2>k. k \in Nat /\ k \in 0 .. n  BY <1>0
  <2>2. ASSUME NEW s \in Upto(k), s # {}
        PROVE  s \ {Some(s)} \in Upto(k - 1) /\ s \ {Some(s)} \in Upto(k) /\ f[Some(s)] \in Nat
    BY <1>a, <1>b, <2>k, <2>2
  <2>3. ASSUME NEW s \in Upto(k) PROVE v(s) \in Nat
    <3> HIDE DEF Upto
    <3>1. CASE s = {}  BY <3>1
    <3>2. CASE s # {}
      <4>1. h[s \ {Some(s)}] \in Nat /\ f[Some(s)] \in Nat  BY <2>1, <2>2, <3>2
      <4> QED  BY <3>2, <4>1
    <3> QED  BY <3>1, <3>2
  <2>4. g \in [Upto(k) -> Nat]  BY <2>3
  <2>5. \A s \in Upto(k - 1) : s \in Upto(k) /\ h[s] = v(s)
    <3>1. \A s \in Upto(k - 1) : h[s] = v(s)  BY <2>1
    <3>2. \A s \in Upto(k - 1) : s \in Upto(k)  BY <1>a, <2>k
    <3> QED  BY <3>1, <3>2
  <2>6. \A s \in Upto(k - 1) : g[s] = h[s]  BY <2>5
  <2>7. ASSUME NEW s \in Upto(k)
        PROVE  g[s] = IF s = {} THEN 0 ELSE f[Some(s)] + g[s \ {Some(s)}]
    BY <2>2, <2>6
  <2>8. Eq(g, k)  BY <2>4, <2>7
  <2> HIDE DEF Eq, g, Upto
  <2> QED  BY <2>4, <2>8, <2>k
<1> HIDE DEF P
<1>3. \A k \in 0 .. n : k \in P  BY <1>0, <1>1, <1>2, UpTo
<1>4. n \in P  BY <1>0, <1>3
<1>5. Upto(n) = SUBSET S  BY <1>a
<1> QED  BY <1>4, <1>5 DEF P, IsSum

(* The sum, with one chosen element taken out.                             *)
LEMMA SumChosen ==
  ASSUME NEW S, IsFiniteSet(S), NEW f, \A x \in S : f[x] \in Nat
  PROVE  /\ SumFunctionOnSet(f, S) \in Nat
         /\ S = {} => SumFunctionOnSet(f, S) = 0
         /\ S # {} => SumFunctionOnSet(f, S) =
                        f[Some(S)] + SumFunctionOnSet(f, S \ {Some(S)})
<1> DEFINE G(T) == CHOOSE g : IsSum(g, T, f)
<1>1. ASSUME NEW T \in SUBSET S
      PROVE  /\ IsSum(G(T), T, f) /\ IsFiniteSet(T)
             /\ \E g \in [SUBSET T -> Nat] : IsSum(g, T, f)
             /\ SumFunctionOnSet(f, T) = G(T)[T]
  <2>1. IsFiniteSet(T)  BY FS_Subset
  <2>2. \E g \in [SUBSET T -> Nat] : IsSum(g, T, f)  BY <2>1, SumExists
  <2>3. IsSum(G(T), T, f)  BY <2>2
  <2>4. SumFunctionOnSet(f, T) = G(T)[T]  BY SumDef
  <2> QED  BY <2>1, <2>2, <2>3, <2>4
<1> HIDE DEF G
<1>2. ASSUME NEW T \in SUBSET S, NEW g, IsSum(g, T, f)
      PROVE  \A s \in SUBSET T : g[s] = G(S)[s] /\ G(S)[s] \in Nat
  <2>f. IsFiniteSet(T)  BY <1>1
  <2>a. \A s \in SUBSET T : s \in SUBSET S  OBVIOUS
  <2>b. \A s \in SUBSET S : G(S)[s] = IF s = {} THEN 0 ELSE f[Some(s)] + G(S)[s \ {Some(s)}]
    <3>1. S \in SUBSET S  OBVIOUS
    <3>2. IsSum(G(S), S, f)  BY <1>1, <3>1
    <3> QED  BY <3>2 DEF IsSum
  <2>c. \A s \in SUBSET T : g[s] = IF s = {} THEN 0 ELSE f[Some(s)] + g[s \ {Some(s)}]
    BY <1>2 DEF IsSum
  <2> DEFINE n == Cardinality(T)
             Q == {k \in 0 .. n : \A s \in SUBSET T :
                     Cardinality(s) = k => g[s] = G(S)[s] /\ G(S)[s] \in Nat}
  <2>n. n \in Nat  BY <2>f, FS_CardinalityType
  <2>d. ASSUME NEW s \in SUBSET T
        PROVE  IsFiniteSet(s) /\ Cardinality(s) \in Nat /\ Cardinality(s) <= n
    <3>1. IsFiniteSet(s) /\ Cardinality(s) <= n  BY <2>f, FS_Subset
    <3> QED  BY <3>1, FS_CardinalityType
  <2> HIDE DEF n
  <2>1. 0 \in Q
    <3>1. ASSUME NEW s \in SUBSET T, Cardinality(s) = 0
          PROVE  g[s] = G(S)[s] /\ G(S)[s] \in Nat
      <4>1. s = {}  BY <2>d, <3>1, FS_EmptySet
      <4>2. g[{}] = 0 /\ G(S)[{}] = 0  BY <2>b, <2>c
      <4> QED  BY <4>1, <4>2
    <3> QED  BY <2>n, <3>1
  <2>2. ASSUME NEW k \in 1 .. n, k - 1 \in Q PROVE k \in Q
    <3>1. ASSUME NEW s \in SUBSET T, Cardinality(s) = k
          PROVE  g[s] = G(S)[s] /\ G(S)[s] \in Nat
      <4>1. s # {}  BY <2>d, <2>n, <3>1, FS_EmptySet
      <4>2. Some(s) \in s  BY <4>1 DEF Some
      <4>3. Cardinality(s \ {Some(s)}) = k - 1  BY <2>d, <3>1, <4>2, FS_RemoveElement
      <4>4. s \ {Some(s)} \in SUBSET T  OBVIOUS
      <4>5. g[s \ {Some(s)}] = G(S)[s \ {Some(s)}] /\ G(S)[s \ {Some(s)}] \in Nat  BY <2>2, <4>3, <4>4
      <4>6. f[Some(s)] \in Nat  BY <4>2
      <4>7. g[s] = f[Some(s)] + g[s \ {Some(s)}]  BY <2>c, <4>1
      <4>8. G(S)[s] = f[Some(s)] + G(S)[s \ {Some(s)}]  BY <2>a, <2>b, <4>1
      <4> QED  BY <4>5, <4>6, <4>7, <4>8
    <3> QED  BY <2>n, <3>1
  <2> HIDE DEF Q
  <2>3. \A k \in 0 .. n : k \in Q  BY <2>n, <2>1, <2>2, UpTo
  <2> QED  BY <2>3, <2>d, <2>n DEF Q
<1>3. ASSUME NEW T \in SUBSET S PROVE SumFunctionOnSet(f, T) = G(S)[T] /\ G(S)[T] \in Nat
  <2>1. T \in SUBSET T  OBVIOUS
  <2>2. IsSum(G(T), T, f) /\ SumFunctionOnSet(f, T) = G(T)[T]  BY <1>1
  <2>3. G(T)[T] = G(S)[T] /\ G(S)[T] \in Nat  BY <1>2, <2>1, <2>2
  <2> QED  BY <2>2, <2>3
<1>4. S \in SUBSET S /\ S \ {Some(S)} \in SUBSET S  OBVIOUS
<1>5. G(S)[S] = IF S = {} THEN 0 ELSE f[Some(S)] + G(S)[S \ {Some(S)}]
  BY <1>1, <1>4 DEF IsSum
<1> QED  BY <1>3, <1>4, <1>5

(* Any element may be taken out.                                           *)
LEMMA SumOne ==
  ASSUME NEW S, IsFiniteSet(S), NEW f, \A x \in S : f[x] \in Nat, NEW y \in S
  PROVE  /\ SumFunctionOnSet(f, S) = f[y] + SumFunctionOnSet(f, S \ {y})
         /\ SumFunctionOnSet(f, S \ {y}) \in Nat /\ SumFunctionOnSet(f, S) \in Nat
         /\ f[y] \in Nat
<1> DEFINE Sm(T) == SumFunctionOnSet(f, T)
           n == Cardinality(S)
           Q == {k \in 0 .. n : \A s \in SUBSET S : Cardinality(s) = k =>
                   \A x \in s : Sm(s) = f[x] + Sm(s \ {x})}
<1>n. n \in Nat  BY FS_CardinalityType
<1>a. ASSUME NEW s \in SUBSET S
      PROVE  IsFiniteSet(s) /\ Cardinality(s) \in Nat /\ Cardinality(s) <= n
  <2>1. IsFiniteSet(s) /\ Cardinality(s) <= n  BY FS_Subset
  <2> QED  BY <2>1, FS_CardinalityType
<1>b. ASSUME NEW s \in SUBSET S
      PROVE  Sm(s) \in Nat /\ (s # {} => Some(s) \in s /\ Sm(s) = f[Some(s)] + Sm(s \ {Some(s)}))
  <2>1. IsFiniteSet(s) /\ \A x \in s : f[x] \in Nat  BY <1>a
  <2>2. s # {} => Some(s) \in s  BY DEF Some
  <2> QED  BY <2>1, <2>2, SumChosen
<1> HIDE DEF n, Sm
<1>1. 0 \in Q
  <2>1. ASSUME NEW s \in SUBSET S, Cardinality(s) = 0 PROVE s = {}
    BY <1>a, <2>1, FS_EmptySet
  <2> QED  BY <1>n, <2>1
<1>2. ASSUME NEW k \in 1 .. n, k - 1 \in Q PROVE k \in Q
  <2>1. ASSUME NEW s \in SUBSET S, Cardinality(s) = k, NEW x \in s
        PROVE  Sm(s) = f[x] + Sm(s \ {x})
    <3> DEFINE z == Some(s)
    <3>1. z \in s /\ Sm(s) = f[z] + Sm(s \ {z})  BY <1>b, <2>1
    <3> HIDE DEF z
    <3>2. CASE x = z  BY <3>1, <3>2
    <3>3. CASE x # z
      <4>1. Cardinality(s \ {z}) = k - 1 /\ Cardinality(s \ {x}) = k - 1
        BY <1>a, <2>1, <3>1, FS_RemoveElement
      <4>2. s \ {z} \in SUBSET S /\ x \in s \ {z} /\ s \ {x} \in SUBSET S /\ z \in s \ {x}
        BY <3>1, <3>3
      <4>3. Sm(s \ {z}) = f[x] + Sm((s \ {z}) \ {x})  BY <1>2, <4>1, <4>2
      <4>4. Sm(s \ {x}) = f[z] + Sm((s \ {x}) \ {z})  BY <1>2, <4>1, <4>2
      <4>5. (s \ {z}) \ {x} = (s \ {x}) \ {z}  OBVIOUS
      <4>6. (s \ {x}) \ {z} \in SUBSET S  OBVIOUS
      <4>7. Sm((s \ {x}) \ {z}) \in Nat  BY <1>b, <4>6
      <4>8. f[x] \in Nat /\ f[z] \in Nat  BY <3>1
      <4> DEFINE e == Sm((s \ {x}) \ {z})
                 fx == f[x]
                 fz == f[z]
      <4>9. Sm(s) = fz + (fx + e) /\ Sm(s \ {x}) = fz + e  BY <3>1, <4>3, <4>4, <4>5
      <4>10. e \in Nat /\ fx \in Nat /\ fz \in Nat  BY <4>7, <4>8
      <4> HIDE DEF e, fx, fz
      <4>11. Sm(s) = fx + Sm(s \ {x})  BY <4>9, <4>10
      <4> QED  BY <4>11 DEF fx
    <3> QED  BY <3>2, <3>3
  <2> QED  BY <1>n, <2>1
<1> HIDE DEF Q
<1>3. \A k \in 0 .. n : k \in Q  BY <1>n, <1>1, <1>2, UpTo
<1>4. n \in Q /\ S \in SUBSET S  BY <1>n, <1>3
<1>5. Sm(S) = f[y] + Sm(S \ {y})  BY <1>4 DEF Q, n
<1>6. S \ {y} \in SUBSET S  OBVIOUS
<1> QED  BY <1>4, <1>5, <1>6, <1>b DEF Sm

(* The sum is a natural and that of nothing is zero.                       *)
LEMMA SumType ==
  ASSUME NEW S, IsFiniteSet(S), NEW f, \A x \in S : f[x] \in Nat
  PROVE  SumFunctionOnSet(f, S) \in Nat /\ (S = {} => SumFunctionOnSet(f, S) = 0)
  BY SumChosen

(* A sum with an element more.                                             *)
LEMMA SumMore ==
  ASSUME NEW S, IsFiniteSet(S), NEW f, NEW y, y \notin S,
         \A x \in S \cup {y} : f[x] \in Nat
  PROVE  SumFunctionOnSet(f, S \cup {y}) = f[y] + SumFunctionOnSet(f, S)
<1>1. IsFiniteSet(S \cup {y})  BY FS_AddElement
<1>2. y \in S \cup {y} /\ (S \cup {y}) \ {y} = S  OBVIOUS
<1> QED  BY <1>1, <1>2, SumOne

(* Sums of values that are not smaller.                                    *)
LEMMA SumLe ==
  ASSUME NEW S, IsFiniteSet(S), NEW f, NEW g,
         \A x \in S : f[x] \in Nat /\ g[x] \in Nat /\ f[x] <= g[x]
  PROVE  SumFunctionOnSet(f, S) <= SumFunctionOnSet(g, S)
<1> DEFINE P == {s \in SUBSET S : SumFunctionOnSet(f, s) <= SumFunctionOnSet(g, s)}
<1>1. ASSUME NEW s \in SUBSET S
      PROVE  /\ IsFiniteSet(s)
             /\ SumFunctionOnSet(f, s) \in Nat /\ SumFunctionOnSet(g, s) \in Nat
  <2>1. IsFiniteSet(s)  BY FS_Subset
  <2> QED  BY <2>1, SumType
<1>2. {} \in P
  <2>1. IsFiniteSet({})  BY FS_EmptySet
  <2>2. SumFunctionOnSet(f, {}) = 0 /\ SumFunctionOnSet(g, {}) = 0  BY <2>1, SumType
  <2> QED  BY <2>2
<1>3. ASSUME NEW s \in SUBSET S, NEW x \in S \ s, s \in P PROVE s \cup {x} \in P
  <2>1. /\ SumFunctionOnSet(f, s \cup {x}) = f[x] + SumFunctionOnSet(f, s)
        /\ SumFunctionOnSet(g, s \cup {x}) = g[x] + SumFunctionOnSet(g, s)
    BY <1>1, SumMore
  <2>2. f[x] \in Nat /\ g[x] \in Nat /\ f[x] <= g[x]  OBVIOUS
  <2>3. SumFunctionOnSet(f, s) <= SumFunctionOnSet(g, s)  BY <1>3
  <2>4. SumFunctionOnSet(f, s \cup {x}) <= SumFunctionOnSet(g, s \cup {x})
    BY <1>1, <2>1, <2>2, <2>3
  <2> QED  BY <2>4
<1> HIDE DEF P
<1>4. S \in P  BY <1>2, <1>3, FiniteInduction
<1> QED  BY <1>4 DEF P

(* Of the same values.                                                     *)
LEMMA SumSame ==
  ASSUME NEW S, IsFiniteSet(S), NEW f, NEW g,
         \A x \in S : f[x] \in Nat /\ g[x] = f[x]
  PROVE  SumFunctionOnSet(f, S) = SumFunctionOnSet(g, S)
<1>1. SumFunctionOnSet(f, S) <= SumFunctionOnSet(g, S)  BY SumLe
<1>2. SumFunctionOnSet(g, S) <= SumFunctionOnSet(f, S)  BY SumLe
<1>3. SumFunctionOnSet(g, S) \in Nat /\ SumFunctionOnSet(f, S) \in Nat  BY SumType
<1> QED  BY <1>1, <1>2, <1>3

(* Of fewer.                                                               *)
LEMMA SumSub ==
  ASSUME NEW S, IsFiniteSet(S), NEW f, \A x \in S : f[x] \in Nat,
         NEW T \in SUBSET S
  PROVE  SumFunctionOnSet(f, T) <= SumFunctionOnSet(f, S)
<1> DEFINE P == {s \in SUBSET S : SumFunctionOnSet(f, s \cap T) <= SumFunctionOnSet(f, s)}
<1>1. ASSUME NEW s \in SUBSET S
      PROVE  IsFiniteSet(s) /\ SumFunctionOnSet(f, s) \in Nat
  <2>1. IsFiniteSet(s)  BY FS_Subset
  <2> QED  BY <2>1, SumType
<1>2. {} \in P
  <2>1. {} \cap T = {}  OBVIOUS
  <2>2. SumFunctionOnSet(f, {}) \in Nat  BY <1>1
  <2> QED  BY <2>1, <2>2
<1>3. ASSUME NEW s \in SUBSET S, NEW x \in S \ s, s \in P PROVE s \cup {x} \in P
  <2>1. SumFunctionOnSet(f, s \cup {x}) = f[x] + SumFunctionOnSet(f, s)
    BY <1>1, SumMore
  <2>2. s \cap T \in SUBSET S /\ s \cup {x} \in SUBSET S  OBVIOUS
  <2>3. SumFunctionOnSet(f, s \cap T) <= SumFunctionOnSet(f, s)  BY <1>3
  <2>4. CASE x \in T
    <3>1. (s \cup {x}) \cap T = (s \cap T) \cup {x} /\ x \notin s \cap T  BY <2>4
    <3>2. SumFunctionOnSet(f, (s \cap T) \cup {x}) = f[x] + SumFunctionOnSet(f, s \cap T)
      BY <1>1, <2>2, <3>1, SumMore
    <3>3. f[x] \in Nat  OBVIOUS
    <3>4. SumFunctionOnSet(f, (s \cup {x}) \cap T) <= SumFunctionOnSet(f, s \cup {x})
      <4>1. SumFunctionOnSet(f, s \cap T) \in Nat /\ SumFunctionOnSet(f, s) \in Nat
        BY <1>1, <2>2
      <4>2. f[x] + SumFunctionOnSet(f, s \cap T) <= f[x] + SumFunctionOnSet(f, s)
        BY <2>3, <3>3, <4>1
      <4>3. SumFunctionOnSet(f, (s \cup {x}) \cap T) = f[x] + SumFunctionOnSet(f, s \cap T)
        BY <3>1, <3>2
      <4> QED  BY <2>1, <4>2, <4>3
    <3> QED  BY <3>4
  <2>5. CASE x \notin T
    <3>1. (s \cup {x}) \cap T = s \cap T  BY <2>5
    <3>3. f[x] \in Nat  OBVIOUS
    <3>4. SumFunctionOnSet(f, (s \cup {x}) \cap T) <= SumFunctionOnSet(f, s \cup {x})
      BY <1>1, <2>1, <2>2, <2>3, <3>1, <3>3
    <3> QED  BY <3>4
  <2> QED  BY <2>4, <2>5
<1> HIDE DEF P
<1>4. S \in P  BY <1>2, <1>3, FiniteInduction
<1>5. S \cap T = T  OBVIOUS
<1> QED  BY <1>4, <1>5 DEF P

(* The sum of f + g is at most the sum of both.                            *)
LEMMA SumBoth ==
  ASSUME NEW S, IsFiniteSet(S), NEW f, NEW g, NEW h,
         \A x \in S : f[x] \in Nat /\ g[x] \in Nat /\ h[x] \in Nat /\ h[x] <= f[x] + g[x]
  PROVE  SumFunctionOnSet(h, S) <= SumFunctionOnSet(f, S) + SumFunctionOnSet(g, S)
<1> DEFINE P == {s \in SUBSET S : SumFunctionOnSet(h, s) <=
                                  SumFunctionOnSet(f, s) + SumFunctionOnSet(g, s)}
<1>1. ASSUME NEW s \in SUBSET S
      PROVE  /\ IsFiniteSet(s) /\ SumFunctionOnSet(h, s) \in Nat
             /\ SumFunctionOnSet(f, s) \in Nat /\ SumFunctionOnSet(g, s) \in Nat
  <2>1. IsFiniteSet(s)  BY FS_Subset
  <2> QED  BY <2>1, SumType
<1>2. {} \in P
  <2>1. IsFiniteSet({})  BY FS_EmptySet
  <2>2. SumFunctionOnSet(f, {}) = 0 /\ SumFunctionOnSet(g, {}) = 0 /\ SumFunctionOnSet(h, {}) = 0
    BY <2>1, SumType
  <2> QED  BY <2>2
<1>3. ASSUME NEW s \in SUBSET S, NEW x \in S \ s, s \in P PROVE s \cup {x} \in P
  <2>1. /\ SumFunctionOnSet(f, s \cup {x}) = f[x] + SumFunctionOnSet(f, s)
        /\ SumFunctionOnSet(g, s \cup {x}) = g[x] + SumFunctionOnSet(g, s)
        /\ SumFunctionOnSet(h, s \cup {x}) = h[x] + SumFunctionOnSet(h, s)
    BY <1>1, SumMore
  <2>2. f[x] \in Nat /\ g[x] \in Nat /\ h[x] \in Nat /\ h[x] <= f[x] + g[x]  OBVIOUS
  <2>3. SumFunctionOnSet(h, s) <= SumFunctionOnSet(f, s) + SumFunctionOnSet(g, s)  BY <1>3
  <2>4. SumFunctionOnSet(h, s \cup {x}) <=
          SumFunctionOnSet(f, s \cup {x}) + SumFunctionOnSet(g, s \cup {x})
    BY <1>1, <2>1, <2>2, <2>3
  <2> QED  BY <2>4
<1> HIDE DEF P
<1>4. S \in P  BY <1>2, <1>3, FiniteInduction
<1> QED  BY <1>4 DEF P

(* The values of g are m times smaller than those of f.                    *)
LEMMA SumScaled ==
  ASSUME NEW S, IsFiniteSet(S), NEW f, NEW g, NEW m \in Nat, NEW r \in Nat,
         \A x \in S : f[x] \in Nat /\ g[x] \in Nat /\ m * g[x] <= r * f[x]
  PROVE  m * SumFunctionOnSet(g, S) <= r * SumFunctionOnSet(f, S)
<1> DEFINE P == {s \in SUBSET S : m * SumFunctionOnSet(g, s) <= r * SumFunctionOnSet(f, s)}
<1>1. ASSUME NEW s \in SUBSET S
      PROVE  /\ IsFiniteSet(s)
             /\ SumFunctionOnSet(f, s) \in Nat /\ SumFunctionOnSet(g, s) \in Nat
  <2>1. IsFiniteSet(s)  BY FS_Subset
  <2> QED  BY <2>1, SumType
<1>2. {} \in P
  <2>1. IsFiniteSet({})  BY FS_EmptySet
  <2>2. SumFunctionOnSet(f, {}) = 0 /\ SumFunctionOnSet(g, {}) = 0  BY <2>1, SumType
  <2>3. m * 0 = 0 /\ r * 0 = 0  OBVIOUS
  <2> QED  BY <2>2, <2>3
<1>3. ASSUME NEW s \in SUBSET S, NEW x \in S \ s, s \in P PROVE s \cup {x} \in P
  <2>1. /\ SumFunctionOnSet(f, s \cup {x}) = f[x] + SumFunctionOnSet(f, s)
        /\ SumFunctionOnSet(g, s \cup {x}) = g[x] + SumFunctionOnSet(g, s)
    BY <1>1, SumMore
  <2>2. f[x] \in Nat /\ g[x] \in Nat /\ m * g[x] <= r * f[x]  OBVIOUS
  <2>3. m * SumFunctionOnSet(g, s) <= r * SumFunctionOnSet(f, s)  BY <1>3
  <2>4. ASSUME NEW a \in Nat, NEW b \in Nat, NEW c \in Nat, NEW d \in Nat,
               m * a <= r * b, m * c <= r * d
        PROVE  m * (a + c) <= r * (b + d)
    <3>1. m * (a + c) = m * a + m * c /\ r * (b + d) = r * b + r * d  OBVIOUS
    <3>2. m * a \in Nat /\ m * c \in Nat /\ r * b \in Nat /\ r * d \in Nat  OBVIOUS
    <3> QED  BY <2>4, <3>1, <3>2
  <2>5. m * (g[x] + SumFunctionOnSet(g, s)) <= r * (f[x] + SumFunctionOnSet(f, s))
    BY <1>1, <2>2, <2>3, <2>4
  <2> QED  BY <2>1, <2>5
<1> HIDE DEF P
<1>4. S \in P  BY <1>2, <1>3, FiniteInduction
<1> QED  BY <1>4 DEF P

(* Shares of a whole, rounded down, are not more than it.                  *)
LEMMA SumShares ==
  ASSUME NEW S, IsFiniteSet(S), NEW f, \A x \in S : f[x] \in Nat, NEW r \in Nat,
         NEW m \in Nat \ {0}, SumFunctionOnSet(f, S) <= m,
         NEW g, \A x \in S : g[x] \in Nat /\ g[x] <= (r * f[x]) \div m
  PROVE  SumFunctionOnSet(g, S) <= r
<1>1. ASSUME NEW x \in S PROVE m * g[x] <= r * f[x]
  <2>1. ASSUME NEW a \in Nat, NEW b \in Nat, b <= a \div m PROVE m * b <= a
    <3>1. a \div m \in Nat /\ m * (a \div m) <= a  OBVIOUS
    <3>2. m * b <= m * (a \div m)  BY <2>1, <3>1
    <3>3. m * b \in Nat /\ m * (a \div m) \in Nat  BY <3>1
    <3> QED  BY <3>1, <3>2, <3>3
  <2>2. r * f[x] \in Nat /\ g[x] \in Nat /\ g[x] <= (r * f[x]) \div m  OBVIOUS
  <2> QED  BY <2>1, <2>2
<1>2. m * SumFunctionOnSet(g, S) <= r * SumFunctionOnSet(f, S)  BY <1>1, SumScaled
<1>3. SumFunctionOnSet(g, S) \in Nat /\ SumFunctionOnSet(f, S) \in Nat  BY SumType
<1>4. ASSUME NEW a \in Nat, NEW b \in Nat, m * a <= r * b, b <= m PROVE a <= r
  <2>1. r * b <= r * m  BY <1>4
  <2>2. m * a <= m * r  BY <1>4, <2>1
  <2>3. CASE a > r
    <3>1. a >= r + 1  BY <2>3
    <3>2. m * a >= m * (r + 1)  BY <3>1
    <3>3. m * (r + 1) = m * r + m  OBVIOUS
    <3>4. m * r \in Nat /\ m * a \in Nat  OBVIOUS
    <3> QED  BY <2>2, <3>2, <3>3, <3>4
  <2> QED  BY <2>3
<1> QED  BY <1>2, <1>3, <1>4

(* The elements of a list.                                                 *)
LEMMA Elements ==
  ASSUME NEW S, NEW s \in Seq(S)
  PROVE  /\ Len(s) \in Nat /\ DOMAIN s = 1 .. Len(s)
         /\ \A i \in 1 .. Len(s) : s[i] \in S
         /\ ToSet(s) \subseteq S
         /\ \A x : x \in ToSet(s) <=> \E i \in 1 .. Len(s) : s[i] = x
<1>1. Len(s) \in Nat /\ DOMAIN s = 1 .. Len(s) /\ \A i \in 1 .. Len(s) : s[i] \in S
  OBVIOUS
<1> QED  BY <1>1 DEF ToSet
=============================================================================
