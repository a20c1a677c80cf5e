----------------------------- MODULE StratumProofs -----------------------------
(***************************************************************************)
(* The invariant of the stratum service and what follows from it, for any  *)
(* number of sessions, workers, coins and blocks.                          *)
(*                                                                         *)
(* The hard part is PaidFromRewards: what was sent and is owed in a coin   *)
(* is at most what its blocks have brought. It is not inductive, because   *)
(* check_payout may divide the last mature block although nothing in       *)
(* PaidFromRewards says that it was not divided before. BooksIn has what   *)
(* is missing: paid and owed together are covered by the blocks up to      *)
(* last_payout_hash, in the order of the wallet, so that a block after it  *)
(* is always new money; a restart forgets last_payout_hash and every       *)
(* balance with it.                                                        *)
(***************************************************************************)
EXTENDS Stratum, Inductions, SequenceTheorems

(* Lists.                                                                  *)

(* The elements of a list.                                                 *)
LEMMA InList ==
  ASSUME NEW X, NEW s \in Seq(X)
  PROVE  /\ Len(s) \in Nat /\ DOMAIN s = 1 .. Len(s)
         /\ \A i \in 1 .. Len(s) : s[i] \in X
         /\ ToSet(s) \subseteq X /\ IsFiniteSet(ToSet(s))
<1>1. Len(s) \in Nat /\ DOMAIN s = 1 .. Len(s) /\ \A i \in 1 .. Len(s) : s[i] \in X
  OBVIOUS
<1>2. ToSet(s) \subseteq X  BY <1>1 DEF ToSet
<1>3. s \in [1 .. Len(s) -> ToSet(s)]  BY <1>1 DEF ToSet
<1>4. s \in Surjection(1 .. Len(s), ToSet(s))  BY <1>1, <1>3 DEF Surjection, ToSet
<1>5. IsFiniteSet(1 .. Len(s))  BY <1>1, FS_Interval
<1>6. IsFiniteSet(ToSet(s))  BY <1>4, <1>5, FS_Surjection
<1> QED  BY <1>1, <1>2, <1>6

(* A finite set as a list.                                                 *)
LEMMA AsList ==
  ASSUME NEW S, IsFiniteSet(S)
  PROVE  SetToSeq(S) \in Seq(S) /\ IsInjective(SetToSeq(S)) /\ ToSet(SetToSeq(S)) \subseteq S
<1> DEFINE n == Cardinality(S)
<1>1. n \in Nat /\ ExistsBijection(1 .. n, S)  BY FS_CardinalityType
<1>2. \E f \in [1 .. n -> S] : IsInjective(f)
  BY <1>1 DEF ExistsBijection, Bijection, Injection
<1>3. SetToSeq(S) \in [1 .. n -> S] /\ IsInjective(SetToSeq(S))  BY <1>2 DEF SetToSeq
<1>4. SetToSeq(S) \in Seq(S)  BY <1>1, <1>3
<1>5. ToSet(SetToSeq(S)) \subseteq S  BY <1>4, InList
<1> QED  BY <1>3, <1>4, <1>5

(* Two lists that have nothing in common, one after the other.             *)
LEMMA Joined ==
  ASSUME NEW X, NEW s \in Seq(X), NEW t \in Seq(X)
  PROVE  /\ s \o t \in Seq(X) /\ ToSet(s \o t) = ToSet(s) \cup ToSet(t)
         /\ IsInjective(s) /\ IsInjective(t) /\ ToSet(s) \cap ToSet(t) = {} =>
              IsInjective(s \o t)
<1> DEFINE m == Len(s)
           n == Len(t)
           u == s \o t
<1>1. m \in Nat /\ n \in Nat /\ DOMAIN s = 1 .. m /\ DOMAIN t = 1 .. n
  OBVIOUS
<1>2. u \in Seq(X) /\ Len(u) = m + n /\ DOMAIN u = 1 .. (m + n)
  OBVIOUS
<1>3. /\ \A i \in 1 .. m : i \in 1 .. (m + n) /\ u[i] = s[i]
      /\ \A i \in 1 .. n : m + i \in 1 .. (m + n) /\ u[m + i] = t[i]
  BY <1>1
<1>4. \A i \in 1 .. (m + n) : i \in 1 .. m \/ (i - m \in 1 .. n /\ m + (i - m) = i)
  BY <1>1
<1> HIDE DEF m, n, u
<1>5. ToSet(u) = ToSet(s) \cup ToSet(t)
  <2>1. ASSUME NEW x \in ToSet(u) PROVE x \in ToSet(s) \cup ToSet(t)
    <3>1. PICK i \in 1 .. (m + n) : x = u[i]  BY <1>2 DEF ToSet
    <3>2. CASE i \in 1 .. m  BY <1>1, <1>3, <3>1, <3>2 DEF ToSet
    <3>3. CASE i - m \in 1 .. n /\ m + (i - m) = i
      <4>1. x = t[i - m]  BY <1>3, <3>1, <3>3
      <4> QED  BY <1>1, <3>3, <4>1 DEF ToSet
    <3> QED  BY <1>4, <3>2, <3>3
  <2>2. ASSUME NEW x \in ToSet(s) PROVE x \in ToSet(u)  BY <1>1, <1>2, <1>3 DEF ToSet
  <2>3. ASSUME NEW x \in ToSet(t) PROVE x \in ToSet(u)
    <3>1. PICK i \in 1 .. n : x = t[i]  BY <1>1 DEF ToSet
    <3>2. m + i \in DOMAIN u /\ u[m + i] = x  BY <1>2, <1>3, <3>1
    <3> QED  BY <3>2 DEF ToSet
  <2> QED  BY <2>1, <2>2, <2>3
<1>6. ASSUME IsInjective(s), IsInjective(t), ToSet(s) \cap ToSet(t) = {}
      PROVE  IsInjective(u)
  <2> SUFFICES ASSUME NEW i \in 1 .. (m + n), NEW j \in 1 .. (m + n), u[i] = u[j]
               PROVE  i = j
    BY <1>2 DEF IsInjective
  <2>1. ASSUME NEW k \in 1 .. m PROVE u[k] \in ToSet(s)  BY <1>1, <1>3 DEF ToSet
  <2>2. ASSUME NEW k \in 1 .. (m + n), k - m \in 1 .. n, m + (k - m) = k
        PROVE  u[k] \in ToSet(t) /\ u[k] = t[k - m]
    <3>1. u[k] = t[k - m]  BY <1>3, <2>2
    <3> QED  BY <1>1, <2>2, <3>1 DEF ToSet
  <2>3. CASE i \in 1 .. m /\ j \in 1 .. m  BY <1>1, <1>3, <1>6, <2>3 DEF IsInjective
  <2>4. CASE i \notin 1 .. m /\ j \notin 1 .. m
    <3>1. t[i - m] = t[j - m] /\ i - m \in 1 .. n /\ j - m \in 1 .. n  BY <1>4, <2>2, <2>4
    <3>2. i - m = j - m  BY <1>1, <1>6, <3>1 DEF IsInjective
    <3> QED  BY <1>1, <3>2
  <2>5. CASE i \in 1 .. m /\ j \notin 1 .. m  BY <1>4, <1>6, <2>1, <2>2, <2>5
  <2>6. CASE i \notin 1 .. m /\ j \in 1 .. m  BY <1>4, <1>6, <2>1, <2>2, <2>6
  <2> QED  BY <2>3, <2>4, <2>5, <2>6
<1> QED  BY <1>2, <1>5, <1>6 DEF u

(* A list with one element.                                                *)
LEMMA Single ==
  ASSUME NEW X, NEW x \in X
  PROVE  <<x>> \in Seq(X) /\ ToSet(<<x>>) = {x} /\ IsInjective(<<x>>)
<1>1. <<x>> \in Seq(X) /\ DOMAIN <<x>> = 1 .. 1 /\ <<x>>[1] = x  OBVIOUS
<1>2. DOMAIN <<x>> = {1}  BY <1>1
<1> QED  BY <1>1, <1>2 DEF ToSet, IsInjective

(* The list that is empty.                                                 *)
LEMMA Empty ==
  ASSUME NEW X
  PROVE  <<>> \in Seq(X) /\ ToSet(<<>>) = {} /\ IsInjective(<<>>)
<1>1. <<>> \in Seq(X) /\ DOMAIN <<>> = {}  OBVIOUS
<1> QED  BY <1>1 DEF ToSet, IsInjective
-----------------------------------------------------------------------------
(* Every session, the server's own too.                                    *)
Sessions == Session \cup {Sys}

(* The fields of one session.                                              *)
User == [worker : Worker \cup {Sys, None}, fresh : BOOLEAN, tot : Nat, avg : Nat,
         bal : [Coins -> Nat]]
(* The sessions: only the server's own has its name, and it is owed        *)
(* nothing.                                                                *)
Users == {u \in [Sessions -> User] :
            /\ \A s \in Session : u[s].worker \in Worker \cup {None}
            /\ \A c \in Coins : u[Sys].bal[c] = 0}

(* What the sessions in L are owed in c.                                   *)
Bal(L, u, c) == [s \in L |-> u[s].bal[c]]
OwedIn(L, u, c) == SumFunctionOnSet(Bal(L, u, c), L)

(* The balances of sessions.                                               *)
LEMMA Balances ==
  ASSUME NEW L \in SUBSET Sessions, NEW u \in Users, NEW c \in Coins
  PROVE  \A s \in L : Bal(L, u, c)[s] = u[s].bal[c] /\ Bal(L, u, c)[s] \in Nat
  BY DEF Bal, Users, User

(* What is owed is a natural, and nothing to nobody.                       *)
LEMMA OwedType ==
  ASSUME NEW L \in SUBSET Sessions, IsFiniteSet(L), NEW u \in Users, NEW c \in Coins
  PROVE  OwedIn(L, u, c) \in Nat /\ (L = {} => OwedIn(L, u, c) = 0)
  BY Balances, SumType DEF OwedIn

(* It does not depend on anything else.                                    *)
LEMMA OwedSame ==
  ASSUME NEW L \in SUBSET Sessions, IsFiniteSet(L), NEW u \in Users, NEW v \in Users,
         NEW c \in Coins, \A s \in L : v[s].bal[c] = u[s].bal[c]
  PROVE  OwedIn(L, v, c) = OwedIn(L, u, c)
<1>1. \A s \in L : /\ Bal(L, u, c)[s] = u[s].bal[c] /\ Bal(L, u, c)[s] \in Nat
                   /\ Bal(L, v, c)[s] = v[s].bal[c]
  BY Balances
<1>2. \A s \in L : Bal(L, u, c)[s] \in Nat /\ Bal(L, v, c)[s] = Bal(L, u, c)[s]
  BY <1>1
<1> QED  BY <1>2, SumSame DEF OwedIn

(* One balance changes.                                                    *)
LEMMA OwedChange ==
  ASSUME NEW L \in SUBSET Sessions, IsFiniteSet(L), NEW u \in Users, NEW v \in Users,
         NEW c \in Coins, NEW s \in L, \A t \in L \ {s} : v[t].bal[c] = u[t].bal[c]
  PROVE  OwedIn(L, v, c) + u[s].bal[c] = OwedIn(L, u, c) + v[s].bal[c]
<1> DEFINE f == Bal(L, u, c)
           g == Bal(L, v, c)
<1>1. \A t \in L : f[t] = u[t].bal[c] /\ f[t] \in Nat  BY Balances
<1>2. \A t \in L : g[t] = v[t].bal[c] /\ g[t] \in Nat  BY Balances
<1>3. \A t \in L \ {s} : f[t] \in Nat /\ g[t] = f[t]  BY <1>1, <1>2
<1> HIDE DEF f, g
<1>4. IsFiniteSet(L \ {s})  BY FS_RemoveElement
<1>5. SumFunctionOnSet(f, L \ {s}) = SumFunctionOnSet(g, L \ {s})  BY <1>3, <1>4, SumSame
<1>6. /\ SumFunctionOnSet(f, L) = f[s] + SumFunctionOnSet(f, L \ {s})
      /\ SumFunctionOnSet(f, L \ {s}) \in Nat /\ f[s] \in Nat
  BY <1>1, SumOne
<1>7. SumFunctionOnSet(g, L) = g[s] + SumFunctionOnSet(g, L \ {s}) /\ g[s] \in Nat
  BY <1>2, SumOne
<1>8. SumFunctionOnSet(g, L) + f[s] = SumFunctionOnSet(f, L) + g[s]
  BY <1>5, <1>6, <1>7
<1> QED  BY <1>1, <1>2, <1>8 DEF OwedIn, f, g

(* A session is added to the list, or taken off.                           *)
LEMMA OwedMore ==
  ASSUME NEW L \in SUBSET Sessions, IsFiniteSet(L), NEW u \in Users, NEW c \in Coins,
         NEW s \in Sessions \ L
  PROVE  OwedIn(L \cup {s}, u, c) = u[s].bal[c] + OwedIn(L, u, c)
<1> DEFINE M == L \cup {s}
           f == Bal(L, u, c)
           g == Bal(M, u, c)
<1>0. M \in SUBSET Sessions  OBVIOUS
<1>1. \A t \in L : f[t] = u[t].bal[c] /\ f[t] \in Nat  BY Balances
<1>2. \A t \in M : g[t] = u[t].bal[c] /\ g[t] \in Nat  BY <1>0, Balances
<1>3. \A t \in L : f[t] \in Nat /\ g[t] = f[t]  BY <1>1, <1>2
<1> HIDE DEF f, g
<1>4. SumFunctionOnSet(f, L) = SumFunctionOnSet(g, L)  BY <1>3, SumSame
<1>5. SumFunctionOnSet(g, M) = g[s] + SumFunctionOnSet(g, L)  BY <1>2, SumMore
<1>6. g[s] = u[s].bal[c]  BY <1>2
<1> QED  BY <1>4, <1>5, <1>6 DEF OwedIn, f, g

(* Fewer sessions are owed no more.                                        *)
LEMMA OwedFewer ==
  ASSUME NEW L \in SUBSET Sessions, IsFiniteSet(L), NEW u \in Users, NEW c \in Coins,
         NEW M \in SUBSET L
  PROVE  OwedIn(M, u, c) <= OwedIn(L, u, c)
<1> DEFINE f == Bal(L, u, c)
           g == Bal(M, u, c)
<1>0. M \in SUBSET Sessions /\ IsFiniteSet(M)  BY FS_Subset
<1>1. \A t \in L : f[t] = u[t].bal[c] /\ f[t] \in Nat  BY Balances
<1>2. \A t \in M : g[t] = u[t].bal[c] /\ g[t] \in Nat  BY <1>0, Balances
<1>3. \A t \in M : g[t] \in Nat /\ f[t] = g[t]  BY <1>1, <1>2
<1> HIDE DEF f, g
<1>4. SumFunctionOnSet(g, M) = SumFunctionOnSet(f, M)  BY <1>0, <1>3, SumSame
<1>5. SumFunctionOnSet(f, M) <= SumFunctionOnSet(f, L)  BY <1>1, SumSub
<1> QED  BY <1>4, <1>5 DEF OwedIn, f, g

(* One session takes over what another has.                                *)
LEMMA OwedMoved ==
  ASSUME NEW L \in SUBSET Sessions, IsFiniteSet(L), NEW u \in Users, NEW v \in Users,
         NEW c \in Coins, NEW s \in L, NEW t \in L, s # t,
         \A x \in L \ {s, t} : v[x].bal[c] = u[x].bal[c],
         v[s].bal[c] = u[s].bal[c] + u[t].bal[c], v[t].bal[c] = 0
  PROVE  OwedIn(L, v, c) = OwedIn(L, u, c)
<1> DEFINE f == Bal(L, u, c)
           g == Bal(L, v, c)
<1>1. \A x \in L : f[x] = u[x].bal[c] /\ f[x] \in Nat  BY Balances
<1>2. \A x \in L : g[x] = v[x].bal[c] /\ g[x] \in Nat  BY Balances
<1>3. \A x \in (L \ {s}) \ {t} : f[x] \in Nat /\ g[x] = f[x]  BY <1>1, <1>2
<1>e. g[s] = f[s] + f[t] /\ g[t] = 0 /\ f[s] \in Nat /\ f[t] \in Nat  BY <1>1, <1>2
<1> HIDE DEF f, g
<1> DEFINE K == L \ {s}
<1>4. IsFiniteSet(K) /\ IsFiniteSet(K \ {t})
  <2>1. K \in SUBSET L /\ K \ {t} \in SUBSET L  OBVIOUS
  <2> QED  BY <2>1, FS_Subset
<1>5. SumFunctionOnSet(f, K \ {t}) = SumFunctionOnSet(g, K \ {t})  BY <1>3, <1>4, SumSame
<1>6. t \in K /\ \A x \in K : f[x] \in Nat /\ g[x] \in Nat  BY <1>1, <1>2
<1>7. /\ SumFunctionOnSet(f, L) = f[s] + SumFunctionOnSet(f, K)
      /\ SumFunctionOnSet(g, L) = g[s] + SumFunctionOnSet(g, K)
  <2>1. \A x \in L : f[x] \in Nat  BY <1>1
  <2>2. \A x \in L : g[x] \in Nat  BY <1>2
  <2> QED  BY <2>1, <2>2, SumOne
<1> HIDE DEF K
<1>8. /\ SumFunctionOnSet(f, K) = f[t] + SumFunctionOnSet(f, K \ {t})
      /\ SumFunctionOnSet(g, K) = g[t] + SumFunctionOnSet(g, K \ {t})
      /\ SumFunctionOnSet(f, K \ {t}) \in Nat
  BY <1>4, <1>6, SumOne
<1>9. SumFunctionOnSet(g, L) = SumFunctionOnSet(f, L)
  BY <1>5, <1>7, <1>8, <1>e
<1> QED  BY <1>9 DEF OwedIn, f, g
-----------------------------------------------------------------------------
(* merge_idle_worker moves what is owed, and loses none of it.             *)

(* merge_idle_worker for one idle session.                                 *)
LEMMA TakeOverIs ==
  ASSUME NEW u \in Users, NEW s \in Session, NEW t \in Session, s # t
  PROVE  /\ TakeOver(s, u, t) \in Users
         /\ \A x \in Sessions \ {s, t} : TakeOver(s, u, t)[x] = u[x]
         /\ \A c \in Coins : /\ TakeOver(s, u, t)[s].bal[c] = u[s].bal[c] + u[t].bal[c]
                             /\ TakeOver(s, u, t)[t].bal[c] = 0
<1> DEFINE v == TakeOver(s, u, t)
           B == [c \in Coins |-> u[s].bal[c] + u[t].bal[c]]
           Z == [c \in Coins |-> 0]
           us == [u[s] EXCEPT !.avg = @ + u[t].avg, !.tot = @ + u[t].tot, !.bal = B]
           ut == [u[t] EXCEPT !.avg = 0, !.tot = 0, !.fresh = FALSE, !.bal = Z]
<1>0. u \in [Sessions -> User] /\ s \in Sessions /\ t \in Sessions  BY DEF Users, Sessions
<1>1. u[s] \in User /\ u[t] \in User  BY <1>0
<1>2. u[s].bal \in [Coins -> Nat] /\ u[t].bal \in [Coins -> Nat]  BY <1>1 DEF User
<1>3. B \in [Coins -> Nat] /\ Z \in [Coins -> Nat]  BY <1>2
<1>4. v = [u EXCEPT ![s] = us, ![t] = ut]
  BY DEF TakeOver, Both
<1>b. \A c \in Coins : B[c] = u[s].bal[c] + u[t].bal[c] /\ Z[c] = 0  OBVIOUS
<1> HIDE DEF B, Z
<1>5. us \in User /\ us.bal = B /\ us.worker = u[s].worker
  <2>1. u[s].avg + u[t].avg \in Nat /\ u[s].tot + u[t].tot \in Nat  BY <1>1 DEF User
  <2> QED  BY <1>1, <1>3, <2>1 DEF User
<1>6. ut \in User /\ ut.bal = Z /\ ut.worker = u[t].worker
  BY <1>1, <1>3 DEF User
<1> HIDE DEF us, ut, v
<1>7. v \in [Sessions -> User] /\ v[s] = us /\ v[t] = ut /\ \A x \in Sessions \ {s, t} : v[x] = u[x]
  BY <1>0, <1>4, <1>5, <1>6
<1>8. Sys \in Sessions \ {s, t}  BY StratumAssumption DEF Sessions
<1>9. \A x \in Session : v[x].worker \in Worker \cup {None}
  <2>1. \A x \in Session : u[x].worker \in Worker \cup {None}  BY DEF Users
  <2>2. ASSUME NEW x \in Session PROVE v[x].worker = u[x].worker
    BY <1>5, <1>6, <1>7 DEF Sessions
  <2> QED  BY <2>1, <2>2
<1>10. \A c \in Coins : v[Sys].bal[c] = 0
  BY <1>7, <1>8 DEF Users
<1>11. v \in Users  BY <1>7, <1>9, <1>10 DEF Users
<1> QED  BY <1>11, <1>7, <1>5, <1>6, <1>b DEF v

(* The sessions of L with other balances, of the same sum.                 *)
SameOwed(L, u) == {v \in Users : \A c \in Coins : OwedIn(L, v, c) = OwedIn(L, u, c)}

(* A session takes over what an idle one has, and the sum stays.           *)
LEMMA TakeOverOwed ==
  ASSUME NEW L \in SUBSET Sessions, IsFiniteSet(L), NEW o \in Users, NEW u \in SameOwed(L, o),
         NEW s \in Session \cap L, NEW t \in Session \cap L, s # t
  PROVE  TakeOver(s, u, t) \in SameOwed(L, o)
<1> DEFINE v == TakeOver(s, u, t)
<1>0. u \in Users /\ \A c \in Coins : OwedIn(L, u, c) = OwedIn(L, o, c)  BY DEF SameOwed
<1>1. /\ v \in Users /\ \A x \in Sessions \ {s, t} : v[x] = u[x]
      /\ \A c \in Coins : v[s].bal[c] = u[s].bal[c] + u[t].bal[c] /\ v[t].bal[c] = 0
  BY <1>0, TakeOverIs
<1> HIDE DEF v
<1>2. ASSUME NEW c \in Coins PROVE OwedIn(L, v, c) = OwedIn(L, u, c)
  <2>1. \A x \in L \ {s, t} : v[x].bal[c] = u[x].bal[c]  BY <1>1
  <2>2. v[s].bal[c] = u[s].bal[c] + u[t].bal[c] /\ v[t].bal[c] = 0 /\ s \in L /\ t \in L  BY <1>1
  <2> QED  BY <1>0, <1>1, <2>1, <2>2, OwedMoved
<1>3. \A c \in Coins : OwedIn(L, v, c) = OwedIn(L, o, c)  BY <1>0, <1>2
<1>4. v \in SameOwed(L, o)  BY <1>1, <1>3 DEF SameOwed
<1> QED  BY <1>4 DEF v

(* merge_idle_worker.                                                      *)
LEMMA Merged ==
  ASSUME NEW L \in SUBSET Sessions, IsFiniteSet(L), L = ToSet(list), NEW o \in Users,
         NEW s0 \in Session \cap L, NEW w \in Worker, s0 \in conn,
         [user EXCEPT ![s0].worker = w] \in SameOwed(L, o)
  PROVE  Merge(s0, w) \in SameOwed(L, o)
<1> DEFINE b0 == [user EXCEPT ![s0].worker = w]
           s == SetToSeq(Idle(s0, w))
           n == Len(s)
           Fold(h) == h = [x \in SUBSET DOMAIN s |-> IF x = {} THEN b0
                             ELSE TakeOver(s0, h[x \ {Max(x)}], s[Max(x)])]
           I == CHOOSE h : Fold(h)
           F == [i \in 1 .. n |-> [a \in SameOwed(L, o) |-> TakeOver(s0, a, s[i])]]
<1>d. /\ IsFiniteSet(Idle(s0, w))
      /\ \A t \in Idle(s0, w) : t \in Session \cap L /\ t # s0
  <2>1. Idle(s0, w) \in SUBSET L  BY DEF Idle
  <2>2. \A t \in Idle(s0, w) : t \in Session \cap L /\ t # s0
    BY <2>1 DEF Idle, Sessions
  <2> QED  BY <2>1, <2>2, FS_Subset
<1>1. Merge(s0, w) = I[DOMAIN s]
  BY DEF Merge, FoldLeft, MapThenFoldSet
<1>2. s \in Seq(Idle(s0, w))  BY <1>d, AsList
<1> HIDE DEF s, b0
<1>3. n \in Nat /\ DOMAIN s = 1 .. n /\ \A i \in 1 .. n : s[i] \in Idle(s0, w)
  BY <1>2, InList
<1>n. n \in Nat  BY <1>3
<1> HIDE DEF n
<1>b. b0 \in SameOwed(L, o)  BY DEF b0
<1>c. ASSUME NEW i \in 1 .. n, NEW a \in SameOwed(L, o)
      PROVE  TakeOver(s0, a, s[i]) \in SameOwed(L, o)
  <2>1. s[i] \in Session \cap L /\ s[i] # s0  BY <1>3, <1>d
  <2> QED  BY <2>1, TakeOverOwed
<1>4. F \in [1 .. n -> [SameOwed(L, o) -> SameOwed(L, o)]]  BY <1>c
<1>5. \A i \in 1 .. n : \A a \in SameOwed(L, o) : F[i][a] = TakeOver(s0, a, s[i])
  OBVIOUS
<1> HIDE DEF F, Fold, I
<1>6. PICK g \in [SUBSET (1 .. n) -> SameOwed(L, o)] : IsLeftFold(g, n, b0, F)
  BY <1>n, <1>b, <1>4, FoldsLeft
<1>7. ASSUME NEW x \in SUBSET (1 .. n), x # {}
      PROVE  Max(x) \in 1 .. n /\ x \ {Max(x)} \in SUBSET (1 .. n)
  BY <1>n, <1>7, MaxIn
<1>8. Fold(g)
  <2>1. \A x \in SUBSET (1 .. n) : x # {} =>
          g[x] = TakeOver(s0, g[x \ {Max(x)}], s[Max(x)])
    BY <1>5, <1>6, <1>7 DEF IsLeftFold
  <2>2. g[{}] = b0  BY <1>6 DEF IsLeftFold
  <2> QED  BY <1>3, <1>6, <2>1, <2>2 DEF Fold
<1>9. Fold(I)  BY <1>8 DEF I
<1>10. I[{}] = b0 /\ \A x \in SUBSET (1 .. n) : x # {} =>
         I[x] = TakeOver(s0, I[x \ {Max(x)}], s[Max(x)])
  BY <1>3, <1>9 DEF Fold
<1>11. ASSUME NEW k \in 1 .. n, I[1 .. (k - 1)] \in SameOwed(L, o)
       PROVE  I[1 .. k] \in SameOwed(L, o)
  <2>1. /\ 1 .. k \in SUBSET (1 .. n) /\ 1 .. k # {}
        /\ Max(1 .. k) = k /\ (1 .. k) \ {k} = 1 .. (k - 1)
    BY <1>n, Prefix
  <2>2. I[1 .. k] = TakeOver(s0, I[1 .. (k - 1)], s[k])  BY <1>10, <2>1
  <2> QED  BY <1>c, <1>11, <2>2
<1>12. I[DOMAIN s] \in SameOwed(L, o)  BY <1>3, <1>b, <1>10, <1>11, FoldedLeft
<1> QED  BY <1>1, <1>12
-----------------------------------------------------------------------------
(* stratum_close_free keeps every session that is open.                    *)

(* stratum_close_free after the sessions in P.                             *)
Lists == [kept : Seq(Sessions), skipped : Seq(Sessions)]
Walked(r, P) ==
  /\ IsInjective(r.kept) /\ IsInjective(r.skipped)
  /\ ToSet(r.kept) \cap ToSet(r.skipped) = {}
  /\ ToSet(r.kept) \cup ToSet(r.skipped) \subseteq P
  /\ conn \cap P \subseteq ToSet(r.kept)
Walk(P) == {r \in Lists : Walked(r, P)}

(* A step of the walk keeps its two lists of sessions.                     *)
LEMMA VisitTyped ==
  ASSUME NEW r \in Lists, NEW s \in Sessions
  PROVE  Visit(r, s) \in Lists
<1>0. r.kept \in Seq(Sessions) /\ r.skipped \in Seq(Sessions)  BY DEF Lists
<1>1. <<s>> \in Seq(Sessions) /\ <<>> \in Seq(Sessions)  BY Single, Empty
<1>2. r.kept \o r.skipped \in Seq(Sessions)  BY <1>0, Joined
<1>3. r.kept \o r.skipped \o <<s>> \in Seq(Sessions)  BY <1>1, <1>2, Joined
<1>4. Append(r.skipped, s) \in Seq(Sessions)  BY <1>0
<1>5. CASE s \in conn
  <2>1. Visit(r, s) = [kept |-> r.kept \o r.skipped \o <<s>>, skipped |-> <<>>]
    BY <1>5 DEF Visit
  <2> QED  BY <1>1, <1>3, <2>1 DEF Lists
<1>6. CASE s \notin conn /\ (s = Sys \/ user[s].fresh)
  <2>1. Visit(r, s) = [r EXCEPT !.skipped = Append(@, s)]  BY <1>6 DEF Visit
  <2> QED  BY <1>4, <2>1 DEF Lists
<1>7. CASE s \notin conn /\ ~(s = Sys \/ user[s].fresh)
  <2>1. Visit(r, s) = [r EXCEPT !.skipped = <<>>]  BY <1>7 DEF Visit
  <2> QED  BY <1>1, <2>1 DEF Lists
<1> QED  BY <1>5, <1>6, <1>7

(* An open session is kept with all before it, and no session comes twice. *)
LEMMA VisitWalks ==
  ASSUME NEW P, NEW r \in Walk(P), NEW s \in Sessions, s \notin P
  PROVE  Visit(r, s) \in Walk(P \cup {s})
<1> DEFINE K == r.kept
           S == r.skipped
           v == Visit(r, s)
           O == <<s>>
           E == <<>>
<1>0. /\ r \in Lists /\ K \in Seq(Sessions) /\ S \in Seq(Sessions)
      /\ IsInjective(K) /\ IsInjective(S)
      /\ ToSet(K) \cap ToSet(S) = {} /\ ToSet(K) \cup ToSet(S) \subseteq P
      /\ conn \cap P \subseteq ToSet(K)
  BY DEF Walk, Walked, Lists
<1>1. O \in Seq(Sessions) /\ ToSet(O) = {s} /\ IsInjective(O)  BY Single
<1>2. E \in Seq(Sessions) /\ ToSet(E) = {} /\ IsInjective(E)  BY Empty
<1>3. v \in Lists  BY <1>0, VisitTyped
<1>5. CASE s \in conn
  <2>1. v = [kept |-> K \o S \o O, skipped |-> E]  BY <1>5 DEF Visit
  <2> HIDE DEF K, S, v, O, E
  <2>2. v.kept = K \o S \o O /\ v.skipped = E  BY <2>1
  <2>3. K \o S \in Seq(Sessions) /\ ToSet(K \o S) = ToSet(K) \cup ToSet(S) /\ IsInjective(K \o S)
    BY <1>0, Joined
  <2> DEFINE J == K \o S
  <2>4. s \notin ToSet(J) /\ J \in Seq(Sessions) /\ IsInjective(J)  BY <1>0, <2>3
  <2>5. v.kept = J \o O  BY <2>2
  <2> HIDE DEF J
  <2>6. ToSet(J) \cap ToSet(O) = {}  BY <1>1, <2>4
  <2>7. IsInjective(J \o O) /\ ToSet(J \o O) = ToSet(J) \cup {s}
    BY <1>1, <2>4, <2>6, Joined
  <2>8. ToSet(J) = ToSet(K) \cup ToSet(S)  BY <2>3 DEF J
  <2>9. /\ IsInjective(v.kept) /\ IsInjective(v.skipped) /\ ToSet(v.skipped) = {}
        /\ ToSet(v.kept) = ToSet(K) \cup ToSet(S) \cup {s}
    BY <1>2, <2>2, <2>5, <2>7, <2>8
  <2>10. conn \cap (P \cup {s}) \subseteq ToSet(v.kept)  BY <1>0, <2>9
  <2>11. ToSet(v.kept) \subseteq P \cup {s}  BY <1>0, <2>9
  <2>12. Walked(v, P \cup {s})  BY <2>9, <2>10, <2>11 DEF Walked
  <2> QED  BY <1>3, <2>12 DEF Walk, v
<1>6. CASE s \notin conn /\ (s = Sys \/ user[s].fresh)
  <2>1. v = [r EXCEPT !.skipped = Append(@, s)]  BY <1>6 DEF Visit
  <2>2. v.kept = K /\ v.skipped = Append(S, s)  BY <1>0, <2>1 DEF Lists
  <2> HIDE DEF K, S, v, O, E
  <2>3. Append(S, s) = S \o O  BY <1>0, AppendIsConcat DEF O
  <2>4. ToSet(S) \cap ToSet(O) = {}  BY <1>0, <1>1
  <2>5. IsInjective(S \o O) /\ ToSet(S \o O) = ToSet(S) \cup {s}
    BY <1>0, <1>1, <2>4, Joined
  <2>6. /\ IsInjective(v.kept) /\ IsInjective(v.skipped)
        /\ ToSet(v.kept) = ToSet(K) /\ ToSet(v.skipped) = ToSet(S) \cup {s}
    BY <1>0, <2>2, <2>3, <2>5
  <2>7. ToSet(v.kept) \cap ToSet(v.skipped) = {}  BY <1>0, <2>6
  <2>8. ToSet(v.kept) \cup ToSet(v.skipped) \subseteq P \cup {s}  BY <1>0, <2>6
  <2>9. conn \cap (P \cup {s}) \subseteq ToSet(v.kept)  BY <1>0, <1>6, <2>6
  <2>10. Walked(v, P \cup {s})  BY <2>6, <2>7, <2>8, <2>9 DEF Walked
  <2> QED  BY <1>3, <2>10 DEF Walk, v
<1>7. CASE s \notin conn /\ ~(s = Sys \/ user[s].fresh)
  <2>1. v = [r EXCEPT !.skipped = E]  BY <1>7 DEF Visit
  <2>2. v.kept = K /\ v.skipped = E  BY <1>0, <2>1 DEF Lists
  <2> HIDE DEF K, S, v, O, E
  <2>3. /\ IsInjective(v.kept) /\ IsInjective(v.skipped)
        /\ ToSet(v.kept) = ToSet(K) /\ ToSet(v.skipped) = {}
    BY <1>0, <1>2, <2>2
  <2>4. ToSet(v.kept) \cup ToSet(v.skipped) \subseteq P \cup {s}  BY <1>0, <2>3
  <2>5. conn \cap (P \cup {s}) \subseteq ToSet(v.kept)  BY <1>0, <1>7, <2>3
  <2>6. Walked(v, P \cup {s})  BY <2>3, <2>4, <2>5 DEF Walked
  <2> QED  BY <1>3, <2>6 DEF Walk, v
<1> QED  BY <1>5, <1>6, <1>7 DEF v

(* The list that stratum_close_free leaves.                                *)
LEMMA CloseFreeIs ==
  ASSUME NEW l \in Seq(Sessions), IsInjective(l)
  PROVE  /\ CloseFree(l) \in Seq(Sessions) /\ IsInjective(CloseFree(l))
         /\ ToSet(CloseFree(l)) \subseteq ToSet(l)
         /\ conn \cap ToSet(l) \subseteq ToSet(CloseFree(l))
<1> DEFINE b0 == [kept |-> <<>>, skipped |-> <<>>]
           s == l
           n == Len(s)
           Fold(h) == h = [x \in SUBSET DOMAIN s |-> IF x = {} THEN b0
                             ELSE Visit(h[x \ {Max(x)}], s[Max(x)])]
           I == CHOOSE h : Fold(h)
           F == [i \in 1 .. n |-> [a \in Lists |-> Visit(a, s[i])]]
<1>1. CloseFree(l) = I[DOMAIN s].kept \o I[DOMAIN s].skipped
  BY DEF CloseFree, FoldLeft, MapThenFoldSet
<1>2. s \in Seq(Sessions)  OBVIOUS
<1>i. IsInjective(s)  OBVIOUS
<1>e. s = l  OBVIOUS
<1> HIDE DEF s, b0
<1>3. n \in Nat /\ DOMAIN s = 1 .. n /\ \A i \in 1 .. n : s[i] \in Sessions
  BY <1>2, InList
<1>n. n \in Nat  BY <1>3
<1> HIDE DEF n
<1>b. b0 \in Lists  BY Empty DEF b0, Lists
<1>c. ASSUME NEW i \in 1 .. n, NEW a \in Lists
      PROVE  Visit(a, s[i]) \in Lists
  BY <1>3, VisitTyped
<1>4. F \in [1 .. n -> [Lists -> Lists]]  BY <1>c
<1>5. \A i \in 1 .. n : \A a \in Lists : F[i][a] = Visit(a, s[i])
  OBVIOUS
<1> HIDE DEF F, Fold, I
<1>6. PICK g \in [SUBSET (1 .. n) -> Lists] : IsLeftFold(g, n, b0, F)
  BY <1>n, <1>b, <1>4, FoldsLeft
<1>7. ASSUME NEW x \in SUBSET (1 .. n), x # {}
      PROVE  Max(x) \in 1 .. n /\ x \ {Max(x)} \in SUBSET (1 .. n)
  BY <1>n, <1>7, MaxIn
<1>8. Fold(g)
  <2>1. \A x \in SUBSET (1 .. n) : x # {} =>
          g[x] = Visit(g[x \ {Max(x)}], s[Max(x)])
    BY <1>5, <1>6, <1>7 DEF IsLeftFold
  <2>2. g[{}] = b0  BY <1>6 DEF IsLeftFold
  <2> QED  BY <1>3, <1>6, <2>1, <2>2 DEF Fold
<1>9. Fold(I)  BY <1>8 DEF I
<1>10. I[{}] = b0 /\ \A x \in SUBSET (1 .. n) : x # {} =>
         I[x] = Visit(I[x \ {Max(x)}], s[Max(x)])
  BY <1>3, <1>9 DEF Fold
<1> DEFINE Before0(k) == {s[i] : i \in 1 .. k}
           Q == {k \in 0 .. n : I[1 .. k] \in Walk(Before0(k))}
<1>13. 0 \in Q
  <2>1. 1 .. 0 = {} /\ Before0(0) = {} /\ 0 \in 0 .. n  BY <1>n
  <2>2. <<>> \in Seq(Sessions) /\ ToSet(<<>>) = {} /\ IsInjective(<<>>)  BY Empty
  <2>3. b0 \in Walk({})
    <3>1. b0.kept = <<>> /\ b0.skipped = <<>>  BY DEF b0
    <3> QED  BY <1>b, <2>2, <3>1 DEF Walk, Walked
  <2> QED  BY <1>10, <2>1, <2>3
<1>14. ASSUME NEW k \in 1 .. n, k - 1 \in Q PROVE k \in Q
  <2>1. /\ 1 .. k \in SUBSET (1 .. n) /\ 1 .. k # {}
        /\ Max(1 .. k) = k /\ (1 .. k) \ {k} = 1 .. (k - 1)
    BY <1>n, Prefix
  <2>2. I[1 .. k] = Visit(I[1 .. (k - 1)], s[k])  BY <1>10, <2>1
  <2>3. Before0(k) = Before0(k - 1) \cup {s[k]}
    <3>1. 1 .. k = (1 .. (k - 1)) \cup {k}  BY <1>n
    <3> QED  BY <3>1
  <2>4. s[k] \notin Before0(k - 1)
    <3>1. ASSUME NEW i \in 1 .. (k - 1) PROVE s[i] # s[k]
      BY <1>3, <1>n, <1>i DEF IsInjective
    <3> QED  BY <3>1
  <2>5. s[k] \in Sessions /\ k \in 0 .. n  BY <1>3, <1>n
  <2>6. I[1 .. (k - 1)] \in Walk(Before0(k - 1))  BY <1>14
  <2> HIDE DEF Before0
  <2> QED  BY <2>2, <2>3, <2>4, <2>5, <2>6, VisitWalks
<1> HIDE DEF Q
<1>15. \A k \in 0 .. n : k \in Q  BY <1>n, <1>13, <1>14, UpTo
<1>16. n \in Q  BY <1>n, <1>15
<1>17. Before0(n) = ToSet(s)  BY <1>3 DEF ToSet
<1> HIDE DEF Before0
<1> DEFINE r == I[DOMAIN s]
<1>18. r \in Walk(ToSet(s))  BY <1>3, <1>16, <1>17 DEF Q
<1> HIDE DEF r
<1>19. /\ r.kept \in Seq(Sessions) /\ r.skipped \in Seq(Sessions)
       /\ IsInjective(r.kept) /\ IsInjective(r.skipped)
       /\ ToSet(r.kept) \cap ToSet(r.skipped) = {}
       /\ ToSet(r.kept) \cup ToSet(r.skipped) \subseteq ToSet(s)
       /\ conn \cap ToSet(s) \subseteq ToSet(r.kept)
  BY <1>18 DEF Walk, Walked, Lists
<1> DEFINE c == r.kept \o r.skipped
<1>20. /\ c \in Seq(Sessions) /\ ToSet(c) = ToSet(r.kept) \cup ToSet(r.skipped)
       /\ IsInjective(c)
  BY <1>19, Joined
<1>21. CloseFree(l) = c  BY <1>1 DEF r
<1> HIDE DEF c
<1> QED  BY <1>19, <1>20, <1>21, <1>e
-----------------------------------------------------------------------------
(* Ledgers: the wallet, what its blocks are worth and what is owed.        *)

(* The maximum of a set of positions exceeds the others.                   *)
LEMMA MaxTop ==
  ASSUME NEW n \in Nat, NEW S \in SUBSET (1 .. n), S # {}
  PROVE  Max(S) \in S /\ \A y \in S : y <= Max(S)
<1>1. S \in SUBSET Nat /\ \A y \in S : y <= n  OBVIOUS
<1>2. \E x \in S : \A y \in S : x >= y  BY <1>1, Greatest
<1>3. Max(S) \in S /\ \A y \in S : Max(S) >= y  BY <1>2 DEF Max
<1> QED  BY <1>1, <1>3

(* The wallet lists every coinbase once, mature ones among them.           *)
WalletInv ==
  mined \in Seq(Mine) /\ IsInjective(mined) /\ mature \subseteq ToSet(mined)

(* x is in the wallet after b.                                             *)
After(x, b) == \E i, j \in DOMAIN mined : j < i /\ mined[i] = x /\ mined[j] = b
MatureOf(c) == {b \in mature : CoinOf[b] = c}
(* The mature blocks of c that will not be divided any more when b has     *)
(* been the last.                                                          *)
Past(b, c) == {x \in MatureOf(c) : b # None => ~After(x, b)}
Worth(S) == SumFunctionOnSet(Reward, S)

(* Mature coinbases are finitely many and have their rewards.              *)
LEMMA Mined ==
  ASSUME WalletInv, NEW S \in SUBSET mature
  PROVE  IsFiniteSet(S) /\ S \subseteq Mine /\ \A b \in S : Reward[b] \in Nat
<1>1. ToSet(mined) \subseteq Mine /\ IsFiniteSet(ToSet(mined))  BY InList DEF WalletInv
<1>2. S \in SUBSET ToSet(mined)  BY DEF WalletInv
<1>3. IsFiniteSet(S)  BY <1>1, <1>2, FS_Subset
<1>4. \A b \in Mine : Reward[b] \in Nat  BY StratumAssumption
<1> QED  BY <1>1, <1>2, <1>3, <1>4

(* What mature blocks are worth is a natural,                              *)
LEMMA WorthType ==
  ASSUME WalletInv, NEW S \in SUBSET mature
  PROVE  Worth(S) \in Nat
  BY Mined, SumType DEF Worth

(* and more blocks are worth no less,                                      *)
LEMMA WorthLess ==
  ASSUME WalletInv, NEW S \in SUBSET mature, NEW T \in SUBSET S
  PROVE  Worth(T) <= Worth(S)
  BY Mined, SumSub DEF Worth

(* and with one more block, at least its reward more.                      *)
LEMMA WorthMore ==
  ASSUME WalletInv, NEW S \in SUBSET mature, NEW T \in SUBSET S, NEW b \in S \ T
  PROVE  Worth(T) + Reward[b] <= Worth(S)
<1>1. IsFiniteSet(S) /\ \A x \in S : Reward[x] \in Nat  BY Mined
<1>2. T \in SUBSET mature /\ IsFiniteSet(T)  BY Mined
<1>3. T \cup {b} \in SUBSET S  OBVIOUS
<1>4. Worth(T \cup {b}) = Reward[b] + Worth(T)  BY <1>1, <1>2, SumMore DEF Worth
<1>5. Worth(T \cup {b}) <= Worth(S)  BY <1>3, WorthLess
<1>6. Worth(T) \in Nat /\ Reward[b] \in Nat  BY <1>1, <1>2, WorthType
<1> QED  BY <1>4, <1>5, <1>6

(* What a coin has earned is what its mature blocks are worth.             *)
LEMMA EarnedIs ==
  ASSUME NEW c
  PROVE  Earned(c) = Worth(MatureOf(c)) /\ MatureOf(c) \in SUBSET mature
         /\ \A b : Past(b, c) \in SUBSET MatureOf(c)
  BY DEF Earned, Worth, MatureOf, Past

(* stratum_miner_lastminerblock finds the block after all others.          *)
LEMMA LastIs ==
  ASSUME WalletInv, NEW c \in Coins, LastMinerBlock(c) # None
  PROVE  /\ LastMinerBlock(c) \in MatureOf(c)
         /\ \A x \in MatureOf(c) : ~After(x, LastMinerBlock(c))
         /\ \A x \in MatureOf(c) : x # LastMinerBlock(c) => After(LastMinerBlock(c), x)
<1> DEFINE at == {i \in DOMAIN mined : mined[i] \in mature /\ CoinOf[mined[i]] = c}
           m == Max(at)
           b == LastMinerBlock(c)
           n == Len(mined)
<1>1. n \in Nat /\ DOMAIN mined = 1 .. n  BY InList DEF WalletInv
<1>2. at # {} /\ b = mined[m]  BY DEF LastMinerBlock
<1>3. at \in SUBSET (1 .. n)  BY <1>1
<1>4. \A i \in at : mined[i] \in MatureOf(c) /\ i \in DOMAIN mined  BY DEF MatureOf
<1>5. \A i \in DOMAIN mined : mined[i] \in MatureOf(c) => i \in at  BY DEF MatureOf
<1> HIDE DEF at, n
<1>6. m \in at /\ \A y \in at : y <= m  BY <1>1, <1>2, <1>3, MaxTop
<1> HIDE DEF m, b
<1>7. m \in Nat /\ m \in DOMAIN mined  BY <1>1, <1>3, <1>4, <1>6
<1>8. b \in MatureOf(c)  BY <1>2, <1>4, <1>6
<1>9. ASSUME NEW x \in MatureOf(c), After(x, b) PROVE FALSE
  <2>1. PICK i, j \in DOMAIN mined : j < i /\ mined[i] = x /\ mined[j] = b  BY <1>9 DEF After
  <2>2. j = m  BY <1>2, <1>7, <2>1 DEF WalletInv, IsInjective
  <2>3. i \in at  BY <1>5, <2>1
  <2> QED  BY <1>1, <1>6, <1>7, <2>1, <2>2, <2>3
<1>10. ASSUME NEW x \in MatureOf(c), x # b PROVE After(b, x)
  <2>1. x \in ToSet(mined)  BY DEF MatureOf, WalletInv
  <2>2. PICK i \in DOMAIN mined : mined[i] = x  BY <2>1 DEF ToSet
  <2>3. i \in at /\ i # m  BY <1>2, <1>5, <1>10, <2>2
  <2>4. i < m  BY <1>1, <1>6, <1>7, <2>2, <2>3
  <2> QED  BY <1>2, <1>7, <2>2, <2>4 DEF After
<1> QED  BY <1>8, <1>9, <1>10 DEF b
-----------------------------------------------------------------------------
(* What payouts work on.                                                   *)
Ledgers == [user : Users, last : [Coins -> Mine \cup {None}],
            fund : [Coins -> Nat], paid : [Coins -> Nat]]
Listed == ToSet(list)

(* The books of a coin: what came in is there or was paid, and what was    *)
(* paid and is owed came from blocks up to the last one that was divided.  *)
BalancedIn(r, c) ==
  /\ r.fund[c] + r.paid[c] = Earned(c)
  /\ r.last[c] # None => r.last[c] \in MatureOf(c)
  /\ r.paid[c] + OwedIn(Listed, r.user, c) <= Worth(Past(r.last[c], c))
Balanced == {r \in Ledgers : \A c \in Coins : BalancedIn(r, c)}

(* The fields of a ledger.                                                 *)
LEMMA LedgerFields ==
  ASSUME NEW r \in Ledgers
  PROVE  /\ r.user \in Users /\ r.last \in [Coins -> Mine \cup {None}]
         /\ r.fund \in [Coins -> Nat] /\ r.paid \in [Coins -> Nat]
  BY DEF Ledgers

(* client_list has no session twice.                                       *)
ListInv == list \in Seq(Sessions) /\ IsInjective(list)
LEMMA ListedIs ==
  ASSUME ListInv PROVE Listed \in SUBSET Sessions /\ IsFiniteSet(Listed)
  BY InList DEF ListInv, Listed

(* The share of each worker.                                               *)
LEMMA ShareType ==
  ASSUME ListInv, NEW r \in Ledgers, NEW b \in Mine
  PROVE  /\ \A s \in Listed : Share(r, b, s) \in Nat
         /\ SumFunctionOnSet([s \in Listed |-> Share(r, b, s)], Listed) <= Reward[b] - Fee[b]
         /\ Reward[b] - Fee[b] \in Nat /\ Reward[b] \in Nat /\ Reward[b] - Fee[b] <= Reward[b]
<1> DEFINE f == [s \in Listed |-> r.user[s].avg]
           g == [s \in Listed |-> Share(r, b, s)]
           T == Shares(r)
           m == Max({1, T})
           d == Reward[b] - Fee[b]
<1>1. Listed \in SUBSET Sessions /\ IsFiniteSet(Listed)  BY ListedIs
<1>2. Reward[b] \in Nat /\ Fee[b] \in Nat /\ Fee[b] <= Reward[b]
  BY StratumAssumption
<1>3. d \in Nat /\ d <= Reward[b]  BY <1>2
<1>4. \A s \in Listed : r.user[s].avg \in Nat
  <2>1. r.user \in [Sessions -> User]  BY LedgerFields DEF Users
  <2>2. ASSUME NEW s \in Listed PROVE r.user[s] \in User  BY <1>1, <2>1
  <2> QED  BY <2>2 DEF User
<1>5. \A s \in Listed : f[s] = r.user[s].avg /\ f[s] \in Nat  BY <1>4
<1>6. T = SumFunctionOnSet(f, Listed)  BY DEF Shares, SumFunction, Listed
<1> HIDE DEF f
<1>7. T \in Nat  BY <1>1, <1>5, <1>6, SumType
<1> HIDE DEF T
<1>8. m \in Nat \ {0} /\ T <= m
  <2>1. CASE T <= 1
    <3>1. 1 \in {1, T} /\ {1, T} \subseteq Nat /\ \A y \in {1, T} : y <= 1  BY <1>7, <2>1
    <3>2. m = 1  BY <3>1, MaxIs
    <3> QED  BY <2>1, <3>2
  <2>2. CASE T > 1
    <3>1. T \in {1, T} /\ {1, T} \subseteq Nat /\ \A y \in {1, T} : y <= T  BY <1>7, <2>2
    <3>2. m = T  BY <3>1, MaxIs
    <3> QED  BY <1>7, <2>2, <3>2
  <2> QED  BY <1>7, <2>1, <2>2
<1>9. ASSUME NEW s \in Listed
      PROVE  Share(r, b, s) = (d * f[s]) \div m
  BY <1>5 DEF Share, T
<1> HIDE DEF m, d
<1>10. ASSUME NEW s \in Listed
      PROVE  Share(r, b, s) \in Nat /\ Share(r, b, s) <= (d * f[s]) \div m
  <2>1. \A x \in Nat : x \div m \in Nat  BY <1>8
  <2>2. d * f[s] \in Nat  BY <1>3, <1>5
  <2>3. Share(r, b, s) = (d * f[s]) \div m  BY <1>9
  <2> QED  BY <2>1, <2>2, <2>3
<1>11. \A s \in Listed : g[s] \in Nat /\ g[s] <= (d * f[s]) \div m  BY <1>10
<1> HIDE DEF g
<1>12. SumFunctionOnSet(g, Listed) <= d
  <2>1. \A s \in Listed : f[s] \in Nat  BY <1>5
  <2>2. SumFunctionOnSet(f, Listed) <= m  BY <1>6, <1>8
  <2> QED  BY <1>1, <1>3, <1>8, <1>11, <2>1, <2>2, SumShares
<1> QED  BY <1>2, <1>3, <1>10, <1>12 DEF g, d
-----------------------------------------------------------------------------
(* check_payout divides no more than the block is worth.                   *)

(* The sessions with more in one coin.                                     *)
LEMMA PaidMore ==
  ASSUME NEW x \in User, NEW c \in Coins, NEW k \in Nat
  PROVE  /\ [x EXCEPT !.bal[c] = k] \in User
         /\ [x EXCEPT !.bal[c] = k].bal[c] = k
         /\ \A d \in Coins \ {c} : [x EXCEPT !.bal[c] = k].bal[d] = x.bal[d]
         /\ [x EXCEPT !.bal[c] = k].worker = x.worker
<1> DEFINE B == [x.bal EXCEPT ![c] = k]
           y == [x EXCEPT !.bal = B]
<1>1. x.bal \in [Coins -> Nat]  BY DEF User
<1>2. B \in [Coins -> Nat] /\ B[c] = k /\ \A d \in Coins \ {c} : B[d] = x.bal[d]  BY <1>1
<1>3. [x EXCEPT !.bal[c] = k] = y  BY DEF User
<1> HIDE DEF B
<1>4. y \in User /\ y.bal = B /\ y.worker = x.worker  BY <1>2 DEF User
<1> HIDE DEF y
<1> QED  BY <1>2, <1>3, <1>4

(* Every session has its fields.                                           *)
LEMMA UserIn ==
  ASSUME NEW u \in Users, NEW s \in Sessions
  PROVE  /\ u[s] \in User /\ u \in [Sessions -> User]
         /\ \A c \in Coins : u[s].bal[c] \in Nat
  BY DEF Users, User

(* check_payout divides the reward of b.                                   *)
LEMMA DividedIs ==
  ASSUME ListInv, NEW r \in Ledgers, NEW c \in Coins, NEW b \in Mine
  PROVE  /\ Divided(r, c, b) \in Ledgers
         /\ Divided(r, c, b).last = r.last /\ Divided(r, c, b).fund = r.fund
         /\ Divided(r, c, b).paid = r.paid
         /\ OwedIn(Listed, Divided(r, c, b).user, c) <= OwedIn(Listed, r.user, c) + Reward[b]
         /\ \A d \in Coins \ {c} :
              OwedIn(Listed, Divided(r, c, b).user, d) = OwedIn(Listed, r.user, d)
<1> DEFINE u == r.user
           D == Divided(r, c, b)
           new(s) == [u[s] EXCEPT !.bal[c] = @ + Share(r, b, s)]
           out(s) == s \notin Listed \ {Sys} \/ u[s].worker = None
           v == [s \in DOMAIN u |-> IF out(s) THEN u[s] ELSE new(s)]
           g == [s \in Listed |-> Share(r, b, s)]
<1>0. /\ u \in Users /\ u \in [Sessions -> User] /\ r.last \in [Coins -> Mine \cup {None}]
      /\ r.fund \in [Coins -> Nat] /\ r.paid \in [Coins -> Nat]
  BY LedgerFields, UserIn DEF Users
<1>1. D = [r EXCEPT !.user = v]  BY DEF Divided, Listed
<1>2. /\ \A s \in Listed : Share(r, b, s) \in Nat
      /\ SumFunctionOnSet(g, Listed) <= Reward[b] - Fee[b]
      /\ Reward[b] - Fee[b] \in Nat /\ Reward[b] \in Nat /\ Reward[b] - Fee[b] <= Reward[b]
  BY ShareType
<1>3. Listed \in SUBSET Sessions /\ IsFiniteSet(Listed)  BY ListedIs
<1>4. \A s \in Listed : g[s] = Share(r, b, s) /\ g[s] \in Nat  BY <1>2
<1> HIDE DEF g
<1>5. ASSUME NEW s \in Sessions, ~out(s)
      PROVE  /\ new(s) \in User /\ new(s).bal[c] = u[s].bal[c] + Share(r, b, s)
             /\ \A d \in Coins \ {c} : new(s).bal[d] = u[s].bal[d]
             /\ new(s).worker = u[s].worker /\ s \in Listed /\ s # Sys
  <2>1. s \in Listed /\ s # Sys  BY <1>5
  <2>2. u[s] \in User /\ u[s].bal[c] \in Nat  BY <1>0, UserIn
  <2> DEFINE k == u[s].bal[c] + Share(r, b, s)
  <2>3. k \in Nat  BY <1>2, <2>1, <2>2
  <2>4. new(s) = [u[s] EXCEPT !.bal[c] = k]  OBVIOUS
  <2>k. k = u[s].bal[c] + Share(r, b, s)  OBVIOUS
  <2> HIDE DEF k, new
  <2>5. /\ new(s) \in User /\ new(s).bal[c] = k
        /\ \A d \in Coins \ {c} : new(s).bal[d] = u[s].bal[d]
        /\ new(s).worker = u[s].worker
    BY <2>2, <2>3, <2>4, PaidMore
  <2> QED  BY <2>1, <2>5, <2>k
<1>6. ASSUME NEW s \in Sessions
      PROVE  v[s] = IF out(s) THEN u[s] ELSE new(s)
  BY <1>0
<1>d. DOMAIN u = Sessions  BY <1>0
<1> HIDE DEF new
<1>7. ASSUME NEW s \in Sessions
      PROVE  /\ v[s] \in User /\ v[s].worker = u[s].worker
             /\ \A d \in Coins \ {c} : v[s].bal[d] = u[s].bal[d]
             /\ s = Sys => v[s] = u[s]
             /\ s \in Listed => v[s].bal[c] <= u[s].bal[c] + g[s] /\ v[s].bal[c] \in Nat
  <2>1. CASE out(s)
    <3>1. v[s] = u[s]  BY <1>6, <2>1
    <3>2. u[s] \in User /\ u[s].bal[c] \in Nat  BY <1>0, UserIn
    <3>3. s \in Listed => u[s].bal[c] <= u[s].bal[c] + g[s]  BY <1>4, <3>2
    <3> QED  BY <3>1, <3>2, <3>3
  <2>2. CASE ~out(s)
    <3>1. v[s] = new(s)  BY <1>6, <2>2
    <3> HIDE DEF v, out
    <3>2. /\ v[s] \in User /\ v[s].bal[c] = u[s].bal[c] + Share(r, b, s)
          /\ \A d \in Coins \ {c} : v[s].bal[d] = u[s].bal[d]
          /\ v[s].worker = u[s].worker /\ s \in Listed /\ s # Sys
      BY <1>5, <2>2, <3>1
    <3>3. u[s].bal[c] \in Nat /\ g[s] = Share(r, b, s) /\ g[s] \in Nat  BY <1>0, <1>4, <3>2, UserIn
    <3>4. v[s].bal[c] = u[s].bal[c] + g[s]  BY <3>2, <3>3
    <3>5. v[s].bal[c] <= u[s].bal[c] + g[s] /\ v[s].bal[c] \in Nat  BY <3>3, <3>4
    <3> QED  BY <3>2, <3>5
  <2> QED  BY <2>1, <2>2
<1>8. v \in [Sessions -> User]
  <2>1. \A s \in Sessions : v[s] \in User  BY <1>7
  <2>2. v = [s \in Sessions |-> v[s]]  BY <1>d
  <2> HIDE DEF v
  <2> QED  BY <2>1, <2>2
<1> HIDE DEF v, D
<1>9. v \in Users
  <2>1. \A s \in Session : v[s].worker \in Worker \cup {None}
    BY <1>0, <1>7 DEF Users, Sessions
  <2>2. v[Sys] = u[Sys]  BY <1>7 DEF Sessions
  <2>3. \A d \in Coins : v[Sys].bal[d] = 0  BY <1>0, <2>2 DEF Users
  <2> QED  BY <1>8, <2>1, <2>3 DEF Users
<1>10. /\ D \in Ledgers /\ D.user = v /\ D.last = r.last /\ D.fund = r.fund /\ D.paid = r.paid
  BY <1>0, <1>1, <1>9 DEF Ledgers
<1>11. OwedIn(Listed, v, c) <= OwedIn(Listed, u, c) + Reward[b]
  <2> DEFINE f == Bal(Listed, u, c)
             h == Bal(Listed, v, c)
  <2>1. \A s \in Listed : f[s] = u[s].bal[c] /\ f[s] \in Nat  BY <1>0, <1>3, Balances
  <2>2. \A s \in Listed : h[s] = v[s].bal[c] /\ h[s] \in Nat  BY <1>3, <1>9, Balances
  <2>3. \A s \in Listed : v[s].bal[c] <= u[s].bal[c] + g[s]  BY <1>3, <1>7
  <2>4. \A s \in Listed : f[s] \in Nat /\ g[s] \in Nat /\ h[s] \in Nat /\ h[s] <= f[s] + g[s]
    BY <1>4, <2>1, <2>2, <2>3
  <2> HIDE DEF f, h
  <2>5. SumFunctionOnSet(h, Listed) <= SumFunctionOnSet(f, Listed) + SumFunctionOnSet(g, Listed)
    BY <1>3, <2>4, SumBoth
  <2>6. SumFunctionOnSet(h, Listed) \in Nat /\ SumFunctionOnSet(f, Listed) \in Nat
    BY <1>3, <2>4, SumType
  <2>7. SumFunctionOnSet(g, Listed) \in Nat  BY <1>3, <2>4, SumType
  <2>8. SumFunctionOnSet(h, Listed) <= SumFunctionOnSet(f, Listed) + Reward[b]
    BY <1>2, <2>5, <2>6, <2>7
  <2> QED  BY <2>8 DEF OwedIn, f, h
<1>12. ASSUME NEW d \in Coins \ {c} PROVE OwedIn(Listed, v, d) = OwedIn(Listed, u, d)
  <2>1. \A s \in Listed : v[s].bal[d] = u[s].bal[d]  BY <1>3, <1>7
  <2> QED  BY <1>0, <1>3, <1>9, <2>1, OwedSame
<1> QED  BY <1>10, <1>11, <1>12 DEF D

(* check_payout.                                                           *)
LEMMA CheckPayoutBalanced ==
  ASSUME ListInv, WalletInv, NEW r \in Balanced, NEW c \in Coins
  PROVE  CheckPayout(c, r) \in Balanced
<1> DEFINE b == LastMinerBlock(c)
           z == [r EXCEPT !.last[c] = b]
<1>0. r \in Ledgers /\ \A d \in Coins : BalancedIn(r, d)  BY DEF Balanced
<1>1. /\ r.user \in Users /\ r.last \in [Coins -> Mine \cup {None}]
      /\ r.fund \in [Coins -> Nat] /\ r.paid \in [Coins -> Nat]
  BY <1>0, LedgerFields
<1>a. Listed \in SUBSET Sessions /\ IsFiniteSet(Listed)  BY ListedIs
<1>2. CASE b = None \/ b = r.last[c]
  <2>1. CheckPayout(c, r) = r  BY <1>2 DEF CheckPayout
  <2> QED  BY <2>1
<1>3. CASE b # None /\ b # r.last[c]
  <2>1. /\ b \in MatureOf(c) /\ \A x \in MatureOf(c) : ~After(x, b)
        /\ \A x \in MatureOf(c) : x # b => After(b, x)
    BY <1>3, LastIs
  <2>2. b \in Mine /\ MatureOf(c) \in SUBSET mature
    <3>1. MatureOf(c) \in SUBSET mature  BY EarnedIs
    <3>2. MatureOf(c) \subseteq Mine  BY <3>1, Mined
    <3> QED  BY <2>1, <3>1, <3>2
  <2>3. Past(b, c) = MatureOf(c)  BY <1>3, <2>1 DEF Past
  <2> DEFINE l == [r.last EXCEPT ![c] = b]
  <2>4. z = [r EXCEPT !.last = l]  BY <1>0 DEF Ledgers
  <2>5. l \in [Coins -> Mine \cup {None}] /\ l[c] = b /\ \A d \in Coins \ {c} : l[d] = r.last[d]
    BY <1>1, <2>2
  <2> HIDE DEF z, l
  <2>6. /\ z \in Ledgers /\ z.user = r.user /\ z.fund = r.fund /\ z.paid = r.paid /\ z.last = l
    BY <1>0, <1>1, <2>4, <2>5 DEF Ledgers
  <2>7. Past(r.last[c], c) \in SUBSET MatureOf(c) /\ Earned(c) = Worth(MatureOf(c))  BY EarnedIs
  <2> HIDE DEF b
  <2>8. \A d \in Coins \ {c} : Past(r.last[d], d) = Past(l[d], d)  BY <2>5
  <2>9. /\ r.fund[c] + r.paid[c] = Earned(c)
        /\ r.paid[c] + OwedIn(Listed, r.user, c) <= Worth(Past(r.last[c], c))
        /\ r.last[c] # None => r.last[c] \in MatureOf(c)
    BY <1>0 DEF BalancedIn
  <2>10. OwedIn(Listed, r.user, c) \in Nat /\ r.paid[c] \in Nat  BY <1>1, <1>a, OwedType
  <2>11. /\ Worth(Past(r.last[c], c)) \in Nat /\ Worth(MatureOf(c)) \in Nat
         /\ Worth(Past(r.last[c], c)) <= Worth(MatureOf(c))
    <3>1. Past(r.last[c], c) \in SUBSET mature  BY <2>2, <2>7
    <3> QED  BY <2>2, <2>7, <3>1, WorthType, WorthLess
  <2>12. CASE r.last[c] = None \/ Reward[b] < MinReward
    <3>1. CheckPayout(c, r) = z  BY <1>3, <2>12 DEF CheckPayout, z, b
    <3>2. r.paid[c] + OwedIn(Listed, r.user, c) <= Worth(MatureOf(c))
      BY <2>9, <2>10, <2>11
    <3>3. BalancedIn(z, c)
      BY <2>1, <2>3, <2>5, <2>6, <2>9, <3>2 DEF BalancedIn
    <3>4. ASSUME NEW d \in Coins \ {c} PROVE BalancedIn(z, d)
      <4>1. BalancedIn(r, d)  BY <1>0
      <4> QED  BY <2>5, <2>6, <4>1 DEF BalancedIn
    <3> QED  BY <2>6, <3>1, <3>3, <3>4 DEF Balanced
  <2>13. CASE ~(r.last[c] = None \/ Reward[b] < MinReward)
    <3> DEFINE D == Divided(z, c, b)
    <3>1. CheckPayout(c, r) = D  BY <1>3, <2>13 DEF CheckPayout, z, b
    <3>2. Reward[b] \in Nat  BY <2>2, StratumAssumption
    <3>3. /\ D \in Ledgers /\ D.last = z.last /\ D.fund = z.fund /\ D.paid = z.paid
          /\ OwedIn(Listed, D.user, c) <= OwedIn(Listed, z.user, c) + Reward[b]
          /\ \A d \in Coins \ {c} : OwedIn(Listed, D.user, d) = OwedIn(Listed, z.user, d)
      BY <2>2, <2>6, DividedIs
    <3> HIDE DEF D
    <3>4. D.user \in Users  BY <3>3, LedgerFields
    <3>5. OwedIn(Listed, D.user, c) \in Nat  BY <1>a, <3>4, OwedType
    <3>6. b \notin Past(r.last[c], c)
      <4>1. r.last[c] # None /\ r.last[c] \in MatureOf(c) /\ r.last[c] # b  BY <1>3, <2>9, <2>13
      <4>2. After(b, r.last[c])  BY <2>1, <4>1
      <4> QED  BY <4>1, <4>2 DEF Past
    <3>7. Worth(Past(r.last[c], c)) + Reward[b] <= Worth(MatureOf(c))
      BY <2>1, <2>2, <2>7, <3>6, WorthMore
    <3>8. r.paid[c] + OwedIn(Listed, D.user, c) <= Worth(MatureOf(c))
      <4>1. OwedIn(Listed, D.user, c) <= OwedIn(Listed, r.user, c) + Reward[b]  BY <2>6, <3>3
      <4> QED  BY <2>9, <2>10, <2>11, <3>2, <3>5, <3>7, <4>1
    <3>9. BalancedIn(D, c)
      BY <2>1, <2>3, <2>5, <2>6, <2>9, <3>3, <3>8 DEF BalancedIn
    <3>10. ASSUME NEW d \in Coins \ {c} PROVE BalancedIn(D, d)
      <4>1. BalancedIn(r, d)  BY <1>0
      <4>2. OwedIn(Listed, D.user, d) = OwedIn(Listed, r.user, d)  BY <2>6, <3>3
      <4> QED  BY <2>5, <2>6, <3>3, <4>1, <4>2 DEF BalancedIn
    <3> QED  BY <3>1, <3>3, <3>9, <3>10 DEF Balanced
  <2> QED  BY <2>12, <2>13
<1> QED  BY <1>2, <1>3
-----------------------------------------------------------------------------
(* commit_payout pays no more than was owed.                               *)

(* The sum of the queue that accounts with an address have.                *)
Sum(q) == SumFunctionOnSet(q, Known)
(* The queue vecRewardSend and what is left in the account.                *)
Queues == [user : Users, left : Nat, queue : [Accounts -> Nat]]
(* While the queue of c is made from r: what is in it was owed, and the    *)
(* fund has it.                                                            *)
QueuedFrom(q, c, r) ==
  /\ q.left + Sum(q.queue) <= r.fund[c]
  /\ OwedIn(Listed, q.user, c) + Sum(q.queue) <= OwedIn(Listed, r.user, c)
  /\ \A d \in Coins \ {c} : OwedIn(Listed, q.user, d) = OwedIn(Listed, r.user, d)
Queued(c, r) == {q \in Queues : QueuedFrom(q, c, r)}

(* What is queued for accounts with an address is a natural.               *)
LEMMA SumQueue ==
  ASSUME NEW q \in [Accounts -> Nat]
  PROVE  Sum(q) \in Nat
  BY StratumAssumption, SumType DEF Sum

(* Queueing an amount adds no more than that amount.                       *)
LEMMA SumAdded ==
  ASSUME NEW q \in [Accounts -> Nat], NEW a \in Accounts, NEW x \in Nat
  PROVE  Sum([q EXCEPT ![a] = @ + x]) <= Sum(q) + x
<1> DEFINE p == [q EXCEPT ![a] = @ + x]
<1>0. IsFiniteSet(Known) /\ Known \subseteq Accounts  BY StratumAssumption
<1>1. p \in [Accounts -> Nat] /\ p[a] = q[a] + x /\ \A y \in Accounts \ {a} : p[y] = q[y]
  OBVIOUS
<1>2. /\ \A y \in Known : p[y] \in Nat
      /\ \A y \in Known : q[y] \in Nat
      /\ \A y \in Known \ {a} : q[y] \in Nat /\ p[y] = q[y]
  BY <1>0, <1>1
<1> HIDE DEF p
<1>3. CASE a \in Known
  <2>1. Sum(p) = p[a] + SumFunctionOnSet(p, Known \ {a})  BY <1>0, <1>2, <1>3, SumOne DEF Sum
  <2>2. /\ Sum(q) = q[a] + SumFunctionOnSet(q, Known \ {a})
        /\ SumFunctionOnSet(q, Known \ {a}) \in Nat
    BY <1>0, <1>2, <1>3, SumOne DEF Sum
  <2>3. IsFiniteSet(Known \ {a})  BY <1>0, FS_RemoveElement
  <2>4. SumFunctionOnSet(q, Known \ {a}) = SumFunctionOnSet(p, Known \ {a})
    BY <1>2, <2>3, SumSame
  <2>5. q[a] \in Nat  OBVIOUS
  <2>6. Sum(p) = Sum(q) + x  BY <1>1, <2>1, <2>2, <2>4, <2>5
  <2>7. Sum(p) <= Sum(q) + x  BY <2>6, SumQueue
  <2> QED  BY <2>7 DEF p
<1>4. CASE a \notin Known
  <2>1. \A y \in Known : q[y] \in Nat /\ p[y] = q[y]  BY <1>2, <1>4
  <2>2. Sum(q) = Sum(p)  BY <1>0, <2>1, SumSame DEF Sum
  <2>3. Sum(p) <= Sum(q) + x  BY <2>2, SumQueue
  <2> QED  BY <2>3 DEF p
<1> QED  BY <1>3, <1>4

(* A session is no longer owed anything in c.                              *)
Settled(u, s, c) == [u EXCEPT ![s].bal[c] = 0]
LEMMA Emptied ==
  ASSUME NEW u \in Users, NEW s \in Session, NEW c \in Coins
  PROVE  /\ Settled(u, s, c) \in Users
         /\ Settled(u, s, c)[s].bal[c] = 0
         /\ \A d \in Coins \ {c} : \A t \in Sessions :
              Settled(u, s, c)[t].bal[d] = u[t].bal[d]
         /\ \A t \in Sessions \ {s} : Settled(u, s, c)[t] = u[t]
<1> DEFINE x == [u[s] EXCEPT !.bal[c] = 0]
           v == [u EXCEPT ![s] = x]
<1>0. s \in Sessions /\ u \in [Sessions -> User] /\ u[s] \in User  BY UserIn DEF Sessions
<1>1. Settled(u, s, c) = v  BY <1>0 DEF Settled
<1>2. /\ x \in User /\ x.bal[c] = 0 /\ \A d \in Coins \ {c} : x.bal[d] = u[s].bal[d]
      /\ x.worker = u[s].worker
  BY <1>0, PaidMore
<1> HIDE DEF x
<1>3. v \in [Sessions -> User] /\ v[s] = x /\ \A t \in Sessions \ {s} : v[t] = u[t]
  BY <1>0, <1>2
<1> HIDE DEF v
<1>4. \A t \in Session : v[t].worker \in Worker \cup {None}
  BY <1>2, <1>3 DEF Users, Sessions
<1>5. Sys \in Sessions \ {s}  BY StratumAssumption DEF Sessions
<1>6. \A d \in Coins : v[Sys].bal[d] = 0  BY <1>3, <1>5 DEF Users
<1>7. v \in Users  BY <1>3, <1>4, <1>6 DEF Users
<1>8. \A d \in Coins \ {c} : \A t \in Sessions : v[t].bal[d] = u[t].bal[d]  BY <1>2, <1>3
<1> QED  BY <1>1, <1>2, <1>3, <1>7, <1>8

(* addblockreward.                                                         *)
LEMMA AddRewardQueued ==
  ASSUME ListInv, NEW r \in Ledgers, NEW c \in Coins, NEW q \in Queued(c, r), NEW s \in Listed
  PROVE  AddReward(c, q, s) \in Queued(c, r)
<1> DEFINE u == q.user
           x == u[s].bal[c]
           a == Account[u[s].worker]
           stay == s = Sys \/ u[s].worker = None \/ x <= MinFee \/ x >= q.left
           w == Settled(u, s, c)
           p == [q.queue EXCEPT ![a] = @ + x]
           z == AddReward(c, q, s)
<1>0. q \in Queues /\ QueuedFrom(q, c, r)  BY DEF Queued
<1>1. u \in Users /\ q.left \in Nat /\ q.queue \in [Accounts -> Nat]  BY <1>0 DEF Queues
<1>2. Listed \in SUBSET Sessions /\ IsFiniteSet(Listed) /\ s \in Sessions  BY ListedIs
<1>3. u[s] \in User /\ x \in Nat  BY <1>1, <1>2, UserIn
<1>4. CASE stay
  <2>1. z = q  BY <1>4 DEF AddReward
  <2> QED  BY <2>1
<1>5. CASE ~stay
  <2>1. s \in Session /\ u[s].worker # None  BY <1>2, <1>5 DEF Sessions
  <2>2. x < q.left
    <3>1. ~(x >= q.left)  BY <1>5
    <3> QED  BY <1>1, <1>3, <3>1
  <2>3. a \in Accounts
    <3>1. u[s].worker \in Worker  BY <1>1, <2>1 DEF Users
    <3> QED  BY <3>1, StratumAssumption
  <2>4. z = [q EXCEPT !.user[s].bal[c] = 0, !.left = q.left - x, !.queue[a] = @ + x]
    BY <1>5 DEF AddReward
  <2>5. z = [q EXCEPT !.user = w, !.left = q.left - x, !.queue = p]
    BY <1>0, <2>4 DEF Queues, Settled
  <2>6. /\ w \in Users /\ w[s].bal[c] = 0
        /\ \A d \in Coins \ {c} : \A t \in Sessions : w[t].bal[d] = u[t].bal[d]
        /\ \A t \in Sessions \ {s} : w[t] = u[t]
    BY <1>1, <2>1, Emptied
  <2>7. Sum(p) <= Sum(q.queue) + x  BY <1>1, <1>3, <2>3, SumAdded
  <2>8. p \in [Accounts -> Nat]  BY <1>1, <1>3, <2>3
  <2> HIDE DEF w, p, z
  <2>9. q.left - x \in Nat  BY <1>1, <1>3, <2>2
  <2>10. z \in Queues /\ z.user = w /\ z.left = q.left - x /\ z.queue = p
    BY <1>0, <2>5, <2>6, <2>8, <2>9 DEF Queues
  <2>11. OwedIn(Listed, w, c) + x = OwedIn(Listed, u, c)
    <3>1. \A t \in Listed \ {s} : w[t].bal[c] = u[t].bal[c]  BY <1>2, <2>6
    <3>2. OwedIn(Listed, w, c) + x = OwedIn(Listed, u, c) + w[s].bal[c]
      BY <1>1, <1>2, <2>6, <3>1, OwedChange
    <3>3. OwedIn(Listed, u, c) \in Nat  BY <1>1, <1>2, OwedType
    <3> QED  BY <2>6, <3>2, <3>3
  <2>12. ASSUME NEW d \in Coins \ {c} PROVE OwedIn(Listed, w, d) = OwedIn(Listed, r.user, d)
    <3>1. \A t \in Listed : w[t].bal[d] = u[t].bal[d]  BY <1>2, <2>6
    <3>2. OwedIn(Listed, w, d) = OwedIn(Listed, u, d)  BY <1>1, <1>2, <2>6, <3>1, OwedSame
    <3> QED  BY <1>0, <3>2 DEF QueuedFrom
  <2>13. /\ OwedIn(Listed, w, c) \in Nat /\ OwedIn(Listed, r.user, c) \in Nat
         /\ Sum(p) \in Nat /\ Sum(q.queue) \in Nat /\ r.fund[c] \in Nat
    BY <1>1, <1>2, <2>6, <2>8, LedgerFields, OwedType, SumQueue
  <2>14. /\ q.left + Sum(q.queue) <= r.fund[c]
         /\ OwedIn(Listed, u, c) + Sum(q.queue) <= OwedIn(Listed, r.user, c)
    BY <1>0 DEF QueuedFrom
  <2> HIDE DEF u, x
  <2>15. /\ (q.left - x) + Sum(p) <= r.fund[c]
         /\ OwedIn(Listed, w, c) + Sum(p) <= OwedIn(Listed, r.user, c)
    BY <1>1, <1>3, <2>7, <2>11, <2>13, <2>14
  <2>16. QueuedFrom(z, c, r)  BY <2>10, <2>12, <2>15 DEF QueuedFrom
  <2> QED  BY <2>10, <2>16 DEF Queued, z
<1> QED  BY <1>4, <1>5

(* commit_payout goes through the list.                                    *)
LEMMA RewardsQueued ==
  ASSUME ListInv, NEW r \in Ledgers, NEW c \in Coins
  PROVE  FoldLeft(LAMBDA q, y : AddReward(c, q, y),
                  [user |-> r.user, left |-> r.fund[c], queue |-> [a \in Accounts |-> 0]], list)
           \in Queued(c, r)
<1> DEFINE b0 == [user |-> r.user, left |-> r.fund[c], queue |-> [a \in Accounts |-> 0]]
           s == list
           n == Len(s)
           Fold(h) == h = [x \in SUBSET DOMAIN s |-> IF x = {} THEN b0
                             ELSE AddReward(c, h[x \ {Max(x)}], s[Max(x)])]
           I == CHOOSE h : Fold(h)
           F == [i \in 1 .. n |-> [a \in Queued(c, r) |-> AddReward(c, a, s[i])]]
<1>1. FoldLeft(LAMBDA q, y : AddReward(c, q, y), b0, list) = I[DOMAIN s]
  BY DEF FoldLeft, MapThenFoldSet
<1>2. s \in Seq(Sessions)  BY DEF ListInv
<1>e. \A i \in DOMAIN s : s[i] \in Listed  BY DEF Listed, ToSet
<1> HIDE DEF s, b0
<1>3. n \in Nat /\ DOMAIN s = 1 .. n /\ \A i \in 1 .. n : s[i] \in Sessions
  BY <1>2, InList
<1>n. n \in Nat  BY <1>3
<1> HIDE DEF n
<1>b. b0 \in Queued(c, r)  
  <2> DEFINE q0 == [a \in Accounts |-> 0]
  <2>1. r.user \in Users /\ r.fund[c] \in Nat  BY LedgerFields
  <2>2. q0 \in [Accounts -> Nat] /\ \A a \in Accounts : q0[a] = 0  OBVIOUS
  <2>3. b0 = [user |-> r.user, left |-> r.fund[c], queue |-> q0]  BY DEF b0
  <2> HIDE DEF q0
  <2>4. b0 \in Queues /\ b0.user = r.user /\ b0.left = r.fund[c] /\ b0.queue = q0
    BY <2>1, <2>2, <2>3 DEF Queues
  <2>5. Sum(q0) = 0
    <3>1. IsFiniteSet(Known) /\ Known \subseteq Accounts  BY StratumAssumption
    <3> DEFINE P == {S \in SUBSET Known : SumFunctionOnSet(q0, S) = 0}
    <3>2. {} \in P
      <4>1. IsFiniteSet({})  BY FS_EmptySet
      <4>2. SumFunctionOnSet(q0, {}) = 0  BY <4>1, SumType
      <4> QED  BY <4>2
    <3>3. ASSUME NEW S \in SUBSET Known, NEW y \in Known \ S, S \in P PROVE S \cup {y} \in P
      <4>1. IsFiniteSet(S)  BY <3>1, FS_Subset
      <4>2. \A z \in S \cup {y} : q0[z] \in Nat  BY <2>2, <3>1
      <4>3. SumFunctionOnSet(q0, S \cup {y}) = q0[y] + SumFunctionOnSet(q0, S)
        BY <4>1, <4>2, SumMore
      <4>4. q0[y] = 0 /\ SumFunctionOnSet(q0, S) = 0  BY <2>2, <3>1, <3>3
      <4>5. SumFunctionOnSet(q0, S \cup {y}) = 0  BY <4>3, <4>4
      <4> QED  BY <4>5
    <3> HIDE DEF P
    <3>4. Known \in P  BY <3>1, <3>2, <3>3, FiniteInduction
    <3> QED  BY <3>4 DEF P, Sum
  <2>6. OwedIn(Listed, r.user, c) \in Nat  BY <2>1, ListedIs, OwedType
  <2>7. QueuedFrom(b0, c, r)  BY <2>1, <2>4, <2>5, <2>6 DEF QueuedFrom
  <2> QED  BY <2>4, <2>7 DEF Queued
<1>c. ASSUME NEW i \in 1 .. n, NEW a \in Queued(c, r)
      PROVE  AddReward(c, a, s[i]) \in Queued(c, r)
  <2>1. s[i] \in Listed  BY <1>3, <1>e
  <2> QED  BY <2>1, AddRewardQueued
<1>4. F \in [1 .. n -> [Queued(c, r) -> Queued(c, r)]]  BY <1>c
<1>5. \A i \in 1 .. n : \A a \in Queued(c, r) : F[i][a] = AddReward(c, a, s[i])
  OBVIOUS
<1> HIDE DEF F, Fold, I
<1>6. PICK g \in [SUBSET (1 .. n) -> Queued(c, r)] : IsLeftFold(g, n, b0, F)
  BY <1>n, <1>b, <1>4, FoldsLeft
<1>7. ASSUME NEW x \in SUBSET (1 .. n), x # {}
      PROVE  Max(x) \in 1 .. n /\ x \ {Max(x)} \in SUBSET (1 .. n)
  BY <1>n, <1>7, MaxIn
<1>8. Fold(g)
  <2>1. \A x \in SUBSET (1 .. n) : x # {} =>
          g[x] = AddReward(c, g[x \ {Max(x)}], s[Max(x)])
    BY <1>5, <1>6, <1>7 DEF IsLeftFold
  <2>2. g[{}] = b0  BY <1>6 DEF IsLeftFold
  <2> QED  BY <1>3, <1>6, <2>1, <2>2 DEF Fold
<1>9. Fold(I)  BY <1>8 DEF I
<1>10. I[{}] = b0 /\ \A x \in SUBSET (1 .. n) : x # {} =>
         I[x] = AddReward(c, I[x \ {Max(x)}], s[Max(x)])
  BY <1>3, <1>9 DEF Fold
<1>11. ASSUME NEW k \in 1 .. n, I[1 .. (k - 1)] \in Queued(c, r)
       PROVE  I[1 .. k] \in Queued(c, r)
  <2>1. /\ 1 .. k \in SUBSET (1 .. n) /\ 1 .. k # {}
        /\ Max(1 .. k) = k /\ (1 .. k) \ {k} = 1 .. (k - 1)
    BY <1>n, Prefix
  <2>2. I[1 .. k] = AddReward(c, I[1 .. (k - 1)], s[k])  BY <1>10, <2>1
  <2> QED  BY <1>c, <1>11, <2>2
<1>12. I[DOMAIN s] \in Queued(c, r)  BY <1>3, <1>b, <1>10, <1>11, FoldedLeft
<1> QED  BY <1>1, <1>12 DEF b0

(* commit_payout: what is sent was owed, and leaves the fund.              *)
LEMMA CommitPayoutBalanced ==
  ASSUME ListInv, WalletInv, NEW r \in Balanced, NEW c \in Coins, NEW pay
  PROVE  CommitPayout(c, r, pay) \in Balanced
<1> DEFINE all == FoldLeft(LAMBDA q, y : AddReward(c, q, y),
                  [user |-> r.user, left |-> r.fund[c], queue |-> [a \in Accounts |-> 0]], list)
           w == [r EXCEPT !.user = all.user]
           sent == IF pay = "sent" THEN SumFunctionOnSet(all.queue, Known) ELSE 0
           f == [w.fund EXCEPT ![c] = @ - sent]
           p == [w.paid EXCEPT ![c] = @ + sent]
           z == [w EXCEPT !.fund = f, !.paid = p]
<1>0. r \in Ledgers /\ \A d \in Coins : BalancedIn(r, d)  BY DEF Balanced
<1>1. /\ r.user \in Users /\ r.last \in [Coins -> Mine \cup {None}]
      /\ r.fund \in [Coins -> Nat] /\ r.paid \in [Coins -> Nat]
  BY <1>0, LedgerFields
<1>2. Listed \in SUBSET Sessions /\ IsFiniteSet(Listed)  BY ListedIs
<1>3. CASE pay = "none" \/ ~Due(c, r)
  <2>1. CommitPayout(c, r, pay) = r  BY <1>3 DEF CommitPayout
  <2> QED  BY <2>1
<1>4. CASE ~(pay = "none" \/ ~Due(c, r))
  <2>1. CommitPayout(c, r, pay) = SendReward(c, w, all.queue, pay)  BY <1>4 DEF CommitPayout
  <2>2. all \in Queued(c, r)  BY <1>0, RewardsQueued
  <2> HIDE DEF all
  <2>3. all \in Queues /\ QueuedFrom(all, c, r)  BY <2>2 DEF Queued
  <2>4. all.user \in Users /\ all.left \in Nat /\ all.queue \in [Accounts -> Nat]
    BY <2>3 DEF Queues
  <2>5. w \in Ledgers /\ w.user = all.user /\ w.fund = r.fund /\ w.paid = r.paid /\ w.last = r.last
    BY <1>0, <1>1, <2>4 DEF Ledgers
  <2>6. SendReward(c, w, all.queue, pay) = [w EXCEPT !.fund[c] = @ - sent, !.paid[c] = @ + sent]
    BY DEF SendReward
  <2>7. Sum(all.queue) \in Nat  BY <2>4, SumQueue
  <2>8. sent \in Nat /\ sent <= Sum(all.queue)  BY <2>7 DEF Sum
  <2> HIDE DEF w, sent
  <2>9. SendReward(c, w, all.queue, pay) = z  BY <2>5, <2>6 DEF Ledgers
  <2>10. /\ all.left + Sum(all.queue) <= r.fund[c]
         /\ OwedIn(Listed, all.user, c) + Sum(all.queue) <= OwedIn(Listed, r.user, c)
         /\ \A d \in Coins \ {c} : OwedIn(Listed, all.user, d) = OwedIn(Listed, r.user, d)
    BY <2>3 DEF QueuedFrom
  <2>11. r.fund[c] \in Nat /\ r.paid[c] \in Nat  BY <1>1
  <2>12. r.fund[c] - sent \in Nat /\ r.paid[c] + sent \in Nat
    BY <2>4, <2>7, <2>8, <2>10, <2>11
  <2>13. /\ f \in [Coins -> Nat] /\ f[c] = r.fund[c] - sent /\ \A d \in Coins \ {c} : f[d] = r.fund[d]
         /\ p \in [Coins -> Nat] /\ p[c] = r.paid[c] + sent /\ \A d \in Coins \ {c} : p[d] = r.paid[d]
    BY <1>1, <2>5, <2>12
  <2> HIDE DEF f, p
  <2>14. z \in Ledgers /\ z.user = all.user /\ z.fund = f /\ z.paid = p /\ z.last = r.last
    BY <2>5, <2>13 DEF Ledgers
  <2> HIDE DEF z
  <2>15. BalancedIn(z, c)
    <3>1. /\ r.fund[c] + r.paid[c] = Earned(c)
          /\ r.last[c] # None => r.last[c] \in MatureOf(c)
          /\ r.paid[c] + OwedIn(Listed, r.user, c) <= Worth(Past(r.last[c], c))
      BY <1>0 DEF BalancedIn
    <3>2. OwedIn(Listed, all.user, c) \in Nat /\ OwedIn(Listed, r.user, c) \in Nat
      BY <1>1, <1>2, <2>4, OwedType
    <3>3. f[c] + p[c] = r.fund[c] + r.paid[c]  BY <2>8, <2>11, <2>13
    <3>4. Worth(Past(r.last[c], c)) \in Nat
      <4>1. Past(r.last[c], c) \in SUBSET mature  BY EarnedIs
      <4> QED  BY <4>1, WorthType
    <3>5. p[c] + OwedIn(Listed, all.user, c) <= Worth(Past(r.last[c], c))
      BY <2>7, <2>8, <2>10, <2>11, <2>13, <3>1, <3>2, <3>4
    <3> QED  BY <2>14, <3>1, <3>3, <3>5 DEF BalancedIn
  <2>16. ASSUME NEW d \in Coins \ {c} PROVE BalancedIn(z, d)
    <3>1. BalancedIn(r, d)  BY <1>0
    <3> QED  BY <2>10, <2>13, <2>14, <3>1 DEF BalancedIn
  <2>17. z \in Balanced  BY <2>14, <2>15, <2>16 DEF Balanced
  <2> QED  BY <2>1, <2>9, <2>17
<1> QED  BY <1>3, <1>4

(* The payouts of all coins.                                               *)
LEMMA PayBalanced ==
  ASSUME ListInv, WalletInv, NEW r \in Balanced, NEW S, NEW pay
  PROVE  Pay(S, pay, r) \in Balanced
<1> DEFINE s == Coin
           n == Len(s)
           Fold(h) == h = [x \in SUBSET DOMAIN s |-> IF x = {} THEN r
                             ELSE PayCoin(S, pay, h[x \ {Max(x)}], s[Max(x)])]
           I == CHOOSE h : Fold(h)
           F == [i \in 1 .. n |-> [a \in Balanced |-> PayCoin(S, pay, a, s[i])]]
<1>1. Pay(S, pay, r) = I[DOMAIN s]
  BY DEF Pay, FoldLeft, MapThenFoldSet
<1>2. s \in Seq(Coins)  BY StratumAssumption
<1> HIDE DEF s
<1>3. n \in Nat /\ DOMAIN s = 1 .. n /\ \A i \in 1 .. n : s[i] \in Coins
  BY <1>2, InList
<1>n. n \in Nat  BY <1>3
<1> HIDE DEF n
<1>b. r \in Balanced  OBVIOUS
<1>c. ASSUME NEW i \in 1 .. n, NEW a \in Balanced
      PROVE  PayCoin(S, pay, a, s[i]) \in Balanced
  <2> DEFINE e == s[i]
  <2>1. e \in Coins  BY <1>3
  <2>2. PayCoin(S, pay, a, e) \in {a, CommitPayout(e, CheckPayout(e, a), pay)}  BY DEF PayCoin
  <2> HIDE DEF e
  <2>3. CheckPayout(e, a) \in Balanced  BY <2>1, CheckPayoutBalanced
  <2>4. CommitPayout(e, CheckPayout(e, a), pay) \in Balanced  BY <2>1, <2>3, CommitPayoutBalanced
  <2>5. PayCoin(S, pay, a, e) \in Balanced  BY <2>2, <2>4
  <2> QED  BY <2>5 DEF e
<1>4. F \in [1 .. n -> [Balanced -> Balanced]]  BY <1>c
<1>5. \A i \in 1 .. n : \A a \in Balanced : F[i][a] = PayCoin(S, pay, a, s[i])
  OBVIOUS
<1> HIDE DEF F, Fold, I
<1>6. PICK g \in [SUBSET (1 .. n) -> Balanced] : IsLeftFold(g, n, r, F)
  BY <1>n, <1>b, <1>4, FoldsLeft
<1>7. ASSUME NEW x \in SUBSET (1 .. n), x # {}
      PROVE  Max(x) \in 1 .. n /\ x \ {Max(x)} \in SUBSET (1 .. n)
  BY <1>n, <1>7, MaxIn
<1>8. Fold(g)
  <2>1. \A x \in SUBSET (1 .. n) : x # {} =>
          g[x] = PayCoin(S, pay, g[x \ {Max(x)}], s[Max(x)])
    BY <1>5, <1>6, <1>7 DEF IsLeftFold
  <2>2. g[{}] = r  BY <1>6 DEF IsLeftFold
  <2> QED  BY <1>3, <1>6, <2>1, <2>2 DEF Fold
<1>9. Fold(I)  BY <1>8 DEF I
<1>10. I[{}] = r /\ \A x \in SUBSET (1 .. n) : x # {} =>
         I[x] = PayCoin(S, pay, I[x \ {Max(x)}], s[Max(x)])
  BY <1>3, <1>9 DEF Fold
<1>11. ASSUME NEW k \in 1 .. n, I[1 .. (k - 1)] \in Balanced
       PROVE  I[1 .. k] \in Balanced
  <2>1. /\ 1 .. k \in SUBSET (1 .. n) /\ 1 .. k # {}
        /\ Max(1 .. k) = k /\ (1 .. k) \ {k} = 1 .. (k - 1)
    BY <1>n, Prefix
  <2>2. I[1 .. k] = PayCoin(S, pay, I[1 .. (k - 1)], s[k])  BY <1>10, <2>1
  <2> QED  BY <1>c, <1>11, <2>2
<1>12. I[DOMAIN s] \in Balanced  BY <1>3, <1>b, <1>10, <1>11, FoldedLeft
<1> QED  BY <1>1, <1>12
-----------------------------------------------------------------------------
(* The same books, as a relation between the variables.                    *)

(* The blocks of a set are worth a natural.                                *)
LEMMA WorthIs ==
  ASSUME NEW S \in SUBSET Mine
  PROVE  IsFiniteSet(S) /\ Worth(S) \in Nat /\ \A b \in S : Reward[b] \in Nat
<1>1. IsFiniteSet(S)  BY StratumAssumption, FS_Subset
<1>2. \A b \in S : Reward[b] \in Nat  BY StratumAssumption
<1> QED  BY <1>1, <1>2, SumType DEF Worth

(* The books for sessions L, the wallet m with the mature blocks M and the *)
(* fields of a ledger.                                                     *)
Of(M, c) == {b \in M : CoinOf[b] = c}
AfterIn(m, x, b) == \E i, j \in DOMAIN m : j < i /\ m[i] = x /\ m[j] = b
PastOf(m, M, b, c) == {x \in Of(M, c) : b # None => ~AfterIn(m, x, b)}
BooksIn(c, L, m, M, u, l, f, p) ==
  /\ f[c] + p[c] = Worth(Of(M, c))
  /\ l[c] # None => l[c] \in Of(M, c)
  /\ p[c] + OwedIn(L, u, c) <= Worth(PastOf(m, M, l[c], c))
Books(L, m, M, u, l, f, p) ==
  /\ u \in Users /\ l \in [Coins -> Mine \cup {None}]
  /\ f \in [Coins -> Nat] /\ p \in [Coins -> Nat]
  /\ \A c \in Coins : BooksIn(c, L, m, M, u, l, f, p)
Wallet(m, M) == m \in Seq(Mine) /\ IsInjective(m) /\ M \subseteq ToSet(m)

(* The books are those of the ledger Now.                                  *)
LEMMA BooksAre ==
  ASSUME NEW u, NEW l, NEW f, NEW p, NEW r,
         r = [user |-> u, last |-> l, fund |-> f, paid |-> p]
  PROVE  Books(Listed, mined, mature, u, l, f, p) <=> r \in Balanced
<1>0. r.user = u /\ r.last = l /\ r.fund = f /\ r.paid = p  OBVIOUS
<1>1. ASSUME NEW c PROVE /\ Of(mature, c) = MatureOf(c) /\ Earned(c) = Worth(MatureOf(c))
                         /\ \A b : PastOf(mined, mature, b, c) = Past(b, c)
  <2>1. Of(mature, c) = MatureOf(c)  BY DEF Of, MatureOf
  <2>2. \A x, b : AfterIn(mined, x, b) <=> After(x, b)  BY DEF AfterIn, After
  <2>3. \A b : PastOf(mined, mature, b, c) = Past(b, c)  BY <2>1, <2>2 DEF PastOf, Past
  <2> QED  BY <2>1, <2>3, EarnedIs
<1>2. ASSUME NEW c \in Coins
      PROVE  BooksIn(c, Listed, mined, mature, u, l, f, p) <=> BalancedIn(r, c)
  BY <1>0, <1>1 DEF BooksIn, BalancedIn
<1>3. r \in Ledgers <=> /\ u \in Users /\ l \in [Coins -> Mine \cup {None}]
                        /\ f \in [Coins -> Nat] /\ p \in [Coins -> Nat]
  BY <1>0 DEF Ledgers
<1> QED  BY <1>2, <1>3 DEF Books, Balanced

(* Other sessions, with no more owed.                                      *)
LEMMA BooksUsers ==
  ASSUME NEW L \in SUBSET Sessions, IsFiniteSet(L), NEW K \in SUBSET Sessions, IsFiniteSet(K),
         NEW m, NEW M \in SUBSET Mine, NEW u, NEW v \in Users, NEW l, NEW f, NEW p,
         Books(L, m, M, u, l, f, p),
         \A c \in Coins : OwedIn(K, v, c) <= OwedIn(L, u, c)
  PROVE  Books(K, m, M, v, l, f, p)
<1>1. ASSUME NEW c \in Coins PROVE BooksIn(c, K, m, M, v, l, f, p)
  <2>1. BooksIn(c, L, m, M, u, l, f, p) /\ u \in Users /\ p[c] \in Nat  BY DEF Books
  <2>2. PastOf(m, M, l[c], c) \in SUBSET Mine  BY DEF PastOf, Of
  <2>3. Worth(PastOf(m, M, l[c], c)) \in Nat  BY <2>2, WorthIs
  <2>4. OwedIn(K, v, c) \in Nat /\ OwedIn(L, u, c) \in Nat  BY <2>1, OwedType
  <2>5. OwedIn(K, v, c) <= OwedIn(L, u, c)  OBVIOUS
  <2>6. p[c] + OwedIn(K, v, c) <= Worth(PastOf(m, M, l[c], c))
    <3>1. p[c] + OwedIn(L, u, c) <= Worth(PastOf(m, M, l[c], c))  BY <2>1 DEF BooksIn
    <3> QED  BY <2>1, <2>3, <2>4, <2>5, <3>1
  <2> QED  BY <2>1, <2>6 DEF BooksIn
<1> QED  BY <1>1 DEF Books

(* New coinbases in the wallet.                                            *)
LEMMA WalletMore ==
  ASSUME NEW m, NEW M, Wallet(m, M), NEW S \in SUBSET (Mine \ ToSet(m))
  PROVE  /\ Wallet(m \o SetToSeq(S), M)
         /\ \A x, b \in M : AfterIn(m \o SetToSeq(S), x, b) <=> AfterIn(m, x, b)
<1> DEFINE s == SetToSeq(S)
           n == m \o s
<1>1. IsFiniteSet(S)  BY StratumAssumption, FS_Subset
<1>2. s \in Seq(S) /\ IsInjective(s) /\ ToSet(s) \subseteq S  BY <1>1, AsList
<1> HIDE DEF s
<1>3. s \in Seq(Mine)
  <2>1. Len(s) \in Nat /\ DOMAIN s = 1 .. Len(s) /\ \A i \in 1 .. Len(s) : s[i] \in S
    BY <1>2, InList
  <2>2. s \in [1 .. Len(s) -> S]  BY <1>2
  <2>3. s \in [1 .. Len(s) -> Mine]  BY <2>1, <2>2
  <2> QED  BY <2>1, <2>3
<1>4. m \in Seq(Mine) /\ IsInjective(m) /\ M \subseteq ToSet(m)  BY DEF Wallet
<1>5. ToSet(m) \cap ToSet(s) = {}  BY <1>2
<1>6. n \in Seq(Mine) /\ ToSet(n) = ToSet(m) \cup ToSet(s) /\ IsInjective(n)
  BY <1>2, <1>3, <1>4, <1>5, Joined
<1>7. Wallet(n, M)  BY <1>4, <1>6 DEF Wallet
<1>8. /\ Len(m) \in Nat /\ DOMAIN m = 1 .. Len(m) /\ Len(s) \in Nat
      /\ DOMAIN n = 1 .. (Len(m) + Len(s)) /\ \A i \in 1 .. Len(m) : n[i] = m[i]
  BY <1>3, <1>4
<1> HIDE DEF n
<1>9. \A i \in DOMAIN m : i \in DOMAIN n /\ n[i] = m[i]  BY <1>8
<1>10. ASSUME NEW x \in M, NEW b \in M PROVE AfterIn(n, x, b) <=> AfterIn(m, x, b)
  <2>1. ASSUME AfterIn(m, x, b) PROVE AfterIn(n, x, b)  BY <1>9, <2>1 DEF AfterIn
  <2>2. ASSUME AfterIn(n, x, b) PROVE AfterIn(m, x, b)
    <3>1. PICK i, j \in DOMAIN n : j < i /\ n[i] = x /\ n[j] = b  BY <2>2 DEF AfterIn
    <3>2. PICK y \in DOMAIN m : m[y] = x  BY <1>4 DEF ToSet
    <3>3. PICK z \in DOMAIN m : m[z] = b  BY <1>4 DEF ToSet
    <3>4. y = i /\ z = j  BY <1>6, <1>9, <3>1, <3>2, <3>3 DEF IsInjective
    <3> QED  BY <3>1, <3>2, <3>3, <3>4 DEF AfterIn
  <2> QED  BY <2>1, <2>2
<1> QED  BY <1>7, <1>10 DEF n, s

(* Books depend on the order of mature coinbases only.                     *)
LEMMA BooksMined ==
  ASSUME NEW L, NEW m, NEW M, NEW u, NEW l, NEW f, NEW p,
         Books(L, m, M, u, l, f, p), NEW n,
         \A x, b \in M : AfterIn(n, x, b) <=> AfterIn(m, x, b)
  PROVE  Books(L, n, M, u, l, f, p)
<1>1. ASSUME NEW c \in Coins PROVE BooksIn(c, L, n, M, u, l, f, p)
  <2>1. BooksIn(c, L, m, M, u, l, f, p)  BY DEF Books
  <2>2. l[c] # None => l[c] \in M  BY <2>1 DEF BooksIn, Of
  <2>3. PastOf(n, M, l[c], c) = PastOf(m, M, l[c], c)
    <3>1. \A x \in Of(M, c) : x \in M  BY DEF Of
    <3> QED  BY <2>2, <3>1 DEF PastOf
  <2> QED  BY <2>1, <2>3 DEF BooksIn
<1> QED  BY <1>1 DEF Books

(* A coinbase becomes mature.                                              *)
LEMMA BooksMatures ==
  ASSUME NEW L \in SUBSET Sessions, IsFiniteSet(L), NEW m, NEW M \in SUBSET Mine,
         NEW u, NEW l, NEW f, NEW p,
         Books(L, m, M, u, l, f, p), NEW b \in Mine \ M
  PROVE  Books(L, m, M \cup {b}, u, l, [f EXCEPT ![CoinOf[b]] = @ + Reward[b]], p)
<1> DEFINE N == M \cup {b}
           e == CoinOf[b]
           g == [f EXCEPT ![e] = @ + Reward[b]]
<1>1. e \in Coins /\ Reward[b] \in Nat  BY StratumAssumption
<1>2. /\ u \in Users /\ l \in [Coins -> Mine \cup {None}]
      /\ f \in [Coins -> Nat] /\ p \in [Coins -> Nat]
  BY DEF Books
<1>3. g \in [Coins -> Nat] /\ g[e] = f[e] + Reward[b] /\ \A c \in Coins \ {e} : g[c] = f[c]
  BY <1>1, <1>2
<1>4. N \in SUBSET Mine  OBVIOUS
<1> HIDE DEF g
<1>5. ASSUME NEW c \in Coins PROVE BooksIn(c, L, m, N, u, l, g, p)
  <2>1. /\ f[c] + p[c] = Worth(Of(M, c))
        /\ l[c] # None => l[c] \in Of(M, c)
        /\ p[c] + OwedIn(L, u, c) <= Worth(PastOf(m, M, l[c], c))
    BY DEF Books, BooksIn
  <2>2. Of(M, c) \in SUBSET Mine /\ b \notin Of(M, c) /\ Of(M, c) \subseteq Of(N, c)  BY DEF Of
  <2>3. g[c] + p[c] = Worth(Of(N, c))
    <3>1. CASE c = e
      <4>1. Of(N, c) = Of(M, c) \cup {b}  BY <3>1 DEF Of
      <4>2. \A x \in Of(M, c) \cup {b} : Reward[x] \in Nat  BY <1>1, <2>2, WorthIs
      <4>3. Worth(Of(N, c)) = Reward[b] + Worth(Of(M, c))
        BY <2>2, <4>1, <4>2, WorthIs, SumMore DEF Worth
      <4>4. f[c] \in Nat /\ p[c] \in Nat  BY <1>2
      <4> QED  BY <1>1, <1>3, <2>1, <3>1, <4>3, <4>4
    <3>2. CASE c # e
      <4>1. Of(N, c) = Of(M, c)  BY <3>2 DEF Of
      <4> QED  BY <1>3, <2>1, <3>2, <4>1
    <3> QED  BY <3>1, <3>2
  <2>4. /\ PastOf(m, M, l[c], c) \in SUBSET PastOf(m, N, l[c], c)
        /\ PastOf(m, N, l[c], c) \in SUBSET Mine /\ PastOf(m, M, l[c], c) \in SUBSET Mine
    BY <1>4, <2>2 DEF PastOf, Of
  <2>5. Worth(PastOf(m, M, l[c], c)) <= Worth(PastOf(m, N, l[c], c))
    BY <2>4, WorthIs, SumSub DEF Worth
  <2>6. Worth(PastOf(m, M, l[c], c)) \in Nat /\ Worth(PastOf(m, N, l[c], c)) \in Nat
    BY <2>4, WorthIs
  <2>7. p[c] \in Nat /\ OwedIn(L, u, c) \in Nat  BY <1>2, OwedType
  <2>8. p[c] + OwedIn(L, u, c) <= Worth(PastOf(m, N, l[c], c))  BY <2>1, <2>5, <2>6, <2>7
  <2> QED  BY <2>1, <2>2, <2>3, <2>8 DEF BooksIn
<1>6. Books(L, m, N, u, l, g, p)  BY <1>2, <1>3, <1>5 DEF Books
<1> QED  BY <1>6 DEF g

(* A session that is new.                                                  *)
LEMMA NewUserIs ==
  NewUser \in User /\ NewUser.worker = None /\ \A c \in Coins : NewUser.bal[c] = 0
<1> DEFINE Z == [c \in Coins |-> 0]
<1>1. Z \in [Coins -> Nat] /\ \A c \in Coins : Z[c] = 0  OBVIOUS
<1>2. NewUser = [worker |-> None, fresh |-> FALSE, tot |-> 0, avg |-> 0, bal |-> Z]
  BY DEF NewUser
<1> HIDE DEF Z
<1> QED  BY <1>1, <1>2 DEF User

(* Nothing is owed after a restart, and no block was divided.              *)
LEMMA BooksFresh ==
  ASSUME NEW m, NEW M \in SUBSET Mine, NEW u \in Users, NEW f \in [Coins -> Nat],
         NEW p \in [Coins -> Nat], \A c \in Coins : f[c] + p[c] = Worth(Of(M, c))
  PROVE  Books({}, m, M, u, [c \in Coins |-> None], f, p)
<1> DEFINE l == [c \in Coins |-> None]
<1>1. l \in [Coins -> Mine \cup {None}] /\ \A c \in Coins : l[c] = None  OBVIOUS
<1> HIDE DEF l
<1>2. ASSUME NEW c \in Coins PROVE BooksIn(c, {}, m, M, u, l, f, p)
  <2>1. PastOf(m, M, l[c], c) = Of(M, c)  BY <1>1 DEF PastOf
  <2>2. OwedIn({}, u, c) = 0
    <3>1. IsFiniteSet({}) /\ {} \in SUBSET Sessions  BY FS_EmptySet
    <3> QED  BY <3>1, OwedType
  <2>3. f[c] \in Nat /\ p[c] \in Nat /\ f[c] + p[c] = Worth(Of(M, c))  OBVIOUS
  <2>4. p[c] + 0 <= Worth(Of(M, c))  BY <2>3
  <2> QED  BY <1>1, <2>1, <2>2, <2>3, <2>4 DEF BooksIn
<1>3. Books({}, m, M, u, l, f, p)  BY <1>1, <1>2 DEF Books
<1> QED  BY <1>3 DEF l
-----------------------------------------------------------------------------
(* The inductive invariant, and sessions.                                  *)

(* Open sessions are listed; the server's own is only when it was made.    *)
ConnInv == conn \subseteq Session /\ conn \subseteq Listed /\ sys \in BOOLEAN
           /\ (~sys => Sys \notin Listed)
(* The coins that have news, the one that is mined, and restarts.          *)
WorkInv == news \subseteq Coins /\ mining \in Coins \cup {None} /\ restarts \in 0 .. MaxRestart
(* The inductive invariant.                                                *)
StratumInv ==
  /\ ListInv
  /\ ConnInv
  /\ Wallet(mined, mature)
  /\ Books(Listed, mined, mature, user, lastPayout, fund, paid)
  /\ WorkInv

(* Changes of a session that leave its balances alone.                     *)
LEMMA Plain ==
  ASSUME NEW u \in Users, NEW v \in [Sessions -> User],
         \A s \in Sessions : v[s].bal = u[s].bal,
         \A s \in Session : v[s].worker \in Worker \cup {None}
  PROVE  /\ v \in Users
         /\ \A L \in SUBSET Sessions : IsFiniteSet(L) =>
              \A c \in Coins : OwedIn(L, v, c) = OwedIn(L, u, c)
<1>1. Sys \in Sessions  BY DEF Sessions
<1>2. \A c \in Coins : v[Sys].bal[c] = 0  BY <1>1 DEF Users
<1>3. v \in Users  BY <1>2 DEF Users
<1>4. ASSUME NEW L \in SUBSET Sessions, IsFiniteSet(L), NEW c \in Coins
      PROVE  OwedIn(L, v, c) = OwedIn(L, u, c)
  <2>1. \A s \in L : v[s].bal[c] = u[s].bal[c]  OBVIOUS
  <2> QED  BY <1>3, <1>4, <2>1, OwedSame
<1> QED  BY <1>3, <1>4

(* One session, with the same balances.                                    *)
LEMMA PlainOne ==
  ASSUME NEW u \in Users, NEW s \in Sessions, NEW x \in User, x.bal = u[s].bal,
         s \in Session => x.worker \in Worker \cup {None}
  PROVE  /\ [u EXCEPT ![s] = x] \in Users
         /\ [u EXCEPT ![s] = x][s] = x
         /\ \A L \in SUBSET Sessions : IsFiniteSet(L) =>
              \A c \in Coins : OwedIn(L, [u EXCEPT ![s] = x], c) = OwedIn(L, u, c)
<1> DEFINE v == [u EXCEPT ![s] = x]
<1>0. u \in [Sessions -> User]  BY DEF Users
<1>1. v \in [Sessions -> User] /\ v[s] = x /\ \A t \in Sessions \ {s} : v[t] = u[t]  BY <1>0
<1> HIDE DEF v
<1>2. \A t \in Sessions : v[t].bal = u[t].bal  BY <1>1
<1>3. ASSUME NEW t \in Session PROVE v[t].worker \in Worker \cup {None}
  <2>1. t \in Sessions /\ u[t].worker \in Worker \cup {None}  BY DEF Sessions, Users
  <2> QED  BY <1>1, <2>1
<1>4. /\ v \in Users
      /\ \A L \in SUBSET Sessions : IsFiniteSet(L) =>
              \A c \in Coins : OwedIn(L, v, c) = OwedIn(L, u, c)
  BY <1>1, <1>2, <1>3, Plain
<1> QED  BY <1>1, <1>4 DEF v

(* What the parts of the invariant say together.                           *)
LEMMA InvFacts ==
  ASSUME StratumInv
  PROVE  /\ Listed \in SUBSET Sessions /\ IsFiniteSet(Listed)
         /\ user \in Users /\ mature \in SUBSET Mine
         /\ Books(Listed, mined, mature, user, lastPayout, fund, paid)
         /\ ListInv /\ ConnInv /\ Wallet(mined, mature) /\ WorkInv
<1>1. /\ ListInv /\ ConnInv /\ Wallet(mined, mature) /\ WorkInv
      /\ Books(Listed, mined, mature, user, lastPayout, fund, paid)
  BY DEF StratumInv
<1>2. Listed \in SUBSET Sessions /\ IsFiniteSet(Listed)  BY <1>1, ListedIs
<1>3. user \in Users  BY <1>1 DEF Books
<1>4. mature \in SUBSET Mine
  <2>1. ToSet(mined) \subseteq Mine  BY <1>1, InList DEF Wallet
  <2> QED  BY <1>1, <2>1 DEF Wallet
<1> QED  BY <1>1, <1>2, <1>3, <1>4

(* A connection is a new session, owed nothing, in front of the list.      *)
LEMMA AcceptInv ==
  ASSUME StratumInv, NEW s \in Session, Accept(s)
  PROVE  StratumInv'
<1> DEFINE O == <<s>>
<1>0. /\ Listed \in SUBSET Sessions /\ IsFiniteSet(Listed)
      /\ user \in Users /\ mature \in SUBSET Mine
      /\ Books(Listed, mined, mature, user, lastPayout, fund, paid)
      /\ ListInv /\ ConnInv /\ Wallet(mined, mature) /\ WorkInv
  BY InvFacts
<1>1. /\ s \notin Listed /\ conn' = conn \cup {s} /\ list' = O \o list
      /\ user' = [user EXCEPT ![s] = NewUser]
      /\ sys' = sys /\ mined' = mined /\ mature' = mature /\ lastPayout' = lastPayout
      /\ fund' = fund /\ paid' = paid /\ news' = news /\ mining' = mining /\ restarts' = restarts
  BY DEF Accept, Listed
<1>s. s \in Sessions /\ s # Sys  BY StratumAssumption DEF Sessions
<1>2. O \in Seq(Sessions) /\ ToSet(O) = {s} /\ IsInjective(O)  BY <1>s, Single
<1> HIDE DEF O
<1>3. list \in Seq(Sessions) /\ IsInjective(list) /\ ToSet(O) \cap ToSet(list) = {}
  BY <1>0, <1>1, <1>2 DEF ListInv, Listed
<1>4. list' \in Seq(Sessions) /\ IsInjective(list') /\ ToSet(list') = {s} \cup ToSet(list)
  BY <1>1, <1>2, <1>3, Joined
<1>5. ListInv' /\ Listed' = Listed \cup {s}  BY <1>4 DEF ListInv, Listed
<1> DEFINE K == Listed \cup {s}
<1>6. K \in SUBSET Sessions /\ IsFiniteSet(K)  BY <1>0, <1>s, FS_AddElement
<1>7. user' \in Users /\ user'[s] = NewUser /\ \A t \in Sessions \ {s} : user'[t] = user[t]
  <2>1. user \in [Sessions -> User]  BY <1>0 DEF Users
  <2>2. NewUser \in User /\ NewUser.worker = None  BY NewUserIs
  <2>3. /\ user' \in [Sessions -> User] /\ user'[s] = NewUser
        /\ \A t \in Sessions \ {s} : user'[t] = user[t]
    BY <1>1, <1>s, <2>1, <2>2
  <2>4. Sys \in Sessions \ {s}  BY <1>s DEF Sessions
  <2>5. \A c \in Coins : user'[Sys].bal[c] = 0  BY <1>0, <2>3, <2>4 DEF Users
  <2>6. \A t \in Session : user'[t].worker \in Worker \cup {None}
    BY <1>0, <2>2, <2>3 DEF Users, Sessions
  <2> QED  BY <2>3, <2>5, <2>6 DEF Users
<1>8. ASSUME NEW c \in Coins PROVE OwedIn(K, user', c) <= OwedIn(Listed, user, c)
  <2>1. OwedIn(K, user', c) = user'[s].bal[c] + OwedIn(Listed, user', c)
    <3>1. s \in Sessions \ Listed  BY <1>1, <1>s
    <3> QED  BY <1>0, <1>7, <3>1, OwedMore
  <2>2. user'[s].bal[c] = 0  BY <1>7, NewUserIs
  <2>3. \A t \in Listed : user'[t].bal[c] = user[t].bal[c]  BY <1>0, <1>1, <1>7
  <2>4. OwedIn(Listed, user', c) = OwedIn(Listed, user, c)  BY <1>0, <1>7, <2>3, OwedSame
  <2>5. OwedIn(Listed, user, c) \in Nat  BY <1>0, OwedType
  <2> QED  BY <2>1, <2>2, <2>4, <2>5
<1> HIDE DEF K
<1>9. Books(K, mined, mature, user', lastPayout, fund, paid)
  BY <1>0, <1>6, <1>7, <1>8, BooksUsers
<1>10. Books(Listed', mined', mature', user', lastPayout', fund', paid')
  BY <1>1, <1>5, <1>9 DEF K
<1>11. ConnInv'  BY <1>0, <1>1, <1>5, <1>s DEF ConnInv
<1>12. Wallet(mined', mature') /\ WorkInv'  BY <1>0, <1>1 DEF WorkInv
<1> QED  BY <1>5, <1>10, <1>11, <1>12 DEF StratumInv

(* The sessions and their list stay, and no more is owed.                  *)
LEMMA UsersInv ==
  ASSUME StratumInv, list' = list, conn' \subseteq conn, sys' = sys,
         mature' = mature, lastPayout' = lastPayout, fund' = fund, paid' = paid,
         news' = news, mining' \in Coins \cup {None}, restarts' = restarts,
         NEW S \in SUBSET (Mine \ ToSet(mined)),
         mined' = mined \/ mined' = mined \o SetToSeq(S),
         user' \in Users,
         \A c \in Coins : OwedIn(Listed, user', c) = OwedIn(Listed, user, c)
  PROVE  StratumInv'
<1>0. /\ Listed \in SUBSET Sessions /\ IsFiniteSet(Listed)
      /\ user \in Users /\ mature \in SUBSET Mine
      /\ Books(Listed, mined, mature, user, lastPayout, fund, paid)
      /\ ListInv /\ ConnInv /\ Wallet(mined, mature) /\ WorkInv
  BY InvFacts
<1>1. ListInv' /\ Listed' = Listed  BY <1>0 DEF ListInv, Listed
<1>2. ConnInv'  BY <1>0, <1>1 DEF ConnInv
<1>3. WorkInv'  BY <1>0 DEF WorkInv
<1>4. ASSUME NEW c \in Coins PROVE OwedIn(Listed, user', c) <= OwedIn(Listed, user, c)
  BY <1>0, OwedType
<1>5. Books(Listed, mined, mature, user', lastPayout, fund, paid)
  BY <1>0, <1>4, BooksUsers
<1>6. CASE mined' = mined  BY <1>0, <1>1, <1>2, <1>3, <1>5, <1>6 DEF StratumInv
<1>7. CASE mined' = mined \o SetToSeq(S)
  <2>1. /\ Wallet(mined', mature)
        /\ \A x, b \in mature : AfterIn(mined', x, b) <=> AfterIn(mined, x, b)
    BY <1>0, <1>7, WalletMore
  <2>2. Books(Listed, mined', mature, user', lastPayout, fund, paid)
    BY <1>5, <2>1, BooksMined
  <2> QED  BY <1>1, <1>2, <1>3, <2>1, <2>2 DEF StratumInv
<1> QED  BY <1>6, <1>7

(* A session is given its worker.                                          *)
LEMMA NamedOwed ==
  ASSUME StratumInv, NEW s \in Session, s \in conn \cap ToSet(list), NEW w \in Worker,
         NEW u \in Named(s, w)
  PROVE  u \in Users /\ \A c \in Coins : OwedIn(Listed, u, c) = OwedIn(Listed, user, c)
<1>0. Listed \in SUBSET Sessions /\ IsFiniteSet(Listed) /\ user \in Users  BY InvFacts
<1>1. s \in Session \cap Listed /\ s \in conn /\ s \in Sessions  BY DEF Listed, Sessions
<1>2. u = Merge(s, w) \/ u = user  BY DEF Named
<1> DEFINE x == [user[s] EXCEPT !.worker = w]
           v == [user EXCEPT ![s] = x]
<1>3. user \in [Sessions -> User] /\ user[s] \in User  BY <1>0, <1>1, UserIn
<1>4. x \in User /\ x.bal = user[s].bal /\ x.worker = w  BY <1>3 DEF User
<1>5. [user EXCEPT ![s].worker = w] = v  OBVIOUS
<1> HIDE DEF x
<1>6. /\ v \in Users
      /\ \A L \in SUBSET Sessions : IsFiniteSet(L) =>
              \A c \in Coins : OwedIn(L, v, c) = OwedIn(L, user, c)
  BY <1>0, <1>1, <1>4, PlainOne
<1>7. v \in SameOwed(Listed, user)  BY <1>0, <1>6 DEF SameOwed
<1>8. Merge(s, w) \in SameOwed(Listed, user)
  <2>1. [user EXCEPT ![s].worker = w] \in SameOwed(Listed, user)  BY <1>5, <1>7
  <2>2. Listed = ToSet(list)  BY DEF Listed
  <2> QED  BY <1>0, <1>1, <2>1, <2>2, Merged
<1> QED  BY <1>0, <1>2, <1>8 DEF SameOwed
-----------------------------------------------------------------------------
(* Requests, tasks and payouts.                                            *)

(* mining.authorize moves balances between sessions of the list.           *)
LEMMA AuthorizeInv ==
  ASSUME StratumInv, NEW s \in Session, NEW w \in Worker, Authorize(s, w)
  PROVE  StratumInv'
<1>1. /\ s \in conn \cap ToSet(list) /\ user' \in Named(s, w)
      /\ list' = list /\ conn' = conn /\ sys' = sys /\ lastPayout' = lastPayout /\ paid' = paid
      /\ news' = news /\ mining' = mining /\ restarts' = restarts
      /\ mined' = mined /\ mature' = mature /\ fund' = fund
  BY DEF Authorize, Request
<1>2. user' \in Users /\ \A c \in Coins : OwedIn(Listed, user', c) = OwedIn(Listed, user, c)
  BY <1>1, NamedOwed
<1>3. mining' \in Coins \cup {None}  BY <1>1 DEF StratumInv, WorkInv
<1>4. {} \in SUBSET (Mine \ ToSet(mined))  OBVIOUS
<1> QED  BY <1>1, <1>2, <1>3, <1>4, UsersInv

(* More shares of a session.                                               *)
LEMMA MoreShares ==
  ASSUME NEW u \in Users, NEW s \in Sessions, NEW k \in Nat
  PROVE  /\ [u EXCEPT ![s].tot = @ + k] \in Users
         /\ \A L \in SUBSET Sessions : IsFiniteSet(L) =>
              \A c \in Coins : OwedIn(L, [u EXCEPT ![s].tot = @ + k], c) = OwedIn(L, u, c)
<1> DEFINE x == [u[s] EXCEPT !.tot = @ + k]
<1>1. u[s] \in User  BY UserIn
<1>2. u[s].tot + k \in Nat  BY <1>1 DEF User
<1>3. x \in User /\ x.bal = u[s].bal /\ x.worker = u[s].worker  BY <1>1, <1>2 DEF User
<1>4. [u EXCEPT ![s].tot = @ + k] = [u EXCEPT ![s] = x]  OBVIOUS
<1>5. s \in Session => u[s].worker \in Worker \cup {None}  BY DEF Users
<1> HIDE DEF x
<1>6. s \in Session => x.worker \in Worker \cup {None}  BY <1>3, <1>5
<1>7. /\ [u EXCEPT ![s] = x] \in Users
      /\ \A L \in SUBSET Sessions : IsFiniteSet(L) =>
              \A c \in Coins : OwedIn(L, [u EXCEPT ![s] = x], c) = OwedIn(L, u, c)
  BY <1>3, <1>6, PlainOne
<1> QED  BY <1>4, <1>7

(* mining.submit adds shares and at most a coinbase at the end.            *)
LEMMA SubmitInv ==
  ASSUME StratumInv, NEW s \in Session, NEW w \in Worker, NEW found \in SUBSET Mine,
         Submit(s, w, found)
  PROVE  StratumInv'
<1>1. /\ s \in conn \cap ToSet(list)
      /\ list' = list /\ conn' = conn /\ sys' = sys /\ lastPayout' = lastPayout /\ paid' = paid
      /\ news' = news /\ mining' = mining /\ restarts' = restarts
      /\ mature' = mature /\ fund' = fund
      /\ found \in SUBSET (Mine \ ToSet(mined)) /\ mined' = mined \o SetToSeq(found)
  BY DEF Submit, Request
<1>2. PICK u \in Named(s, w) : user' = [u EXCEPT ![s].tot = @ + ShareDiff]  BY DEF Submit
<1>3. u \in Users /\ \A c \in Coins : OwedIn(Listed, u, c) = OwedIn(Listed, user, c)
  BY <1>1, NamedOwed
<1>4. s \in Sessions /\ ShareDiff \in Nat  BY StratumAssumption DEF Sessions
<1>5. Listed \in SUBSET Sessions /\ IsFiniteSet(Listed)  BY InvFacts
<1>6. user' \in Users /\ \A c \in Coins : OwedIn(Listed, user', c) = OwedIn(Listed, u, c)
  BY <1>2, <1>3, <1>4, <1>5, MoreShares
<1>7. \A c \in Coins : OwedIn(Listed, user', c) = OwedIn(Listed, user, c)  BY <1>3, <1>6
<1>8. mining' \in Coins \cup {None}  BY <1>1 DEF StratumInv, WorkInv
<1> QED  BY <1>1, <1>6, <1>7, <1>8, UsersInv

(* The time of the last task of a session.                                 *)
LEMMA FreshOwed ==
  ASSUME NEW u \in Users, NEW s \in Sessions, NEW k \in BOOLEAN
  PROVE  /\ [u EXCEPT ![s].fresh = k] \in Users
         /\ \A L \in SUBSET Sessions : IsFiniteSet(L) =>
              \A c \in Coins : OwedIn(L, [u EXCEPT ![s].fresh = k], c) = OwedIn(L, u, c)
<1> DEFINE x == [u[s] EXCEPT !.fresh = k]
<1>1. u[s] \in User  BY UserIn
<1>3. x \in User /\ x.bal = u[s].bal /\ x.worker = u[s].worker  BY <1>1 DEF User
<1>4. [u EXCEPT ![s].fresh = k] = [u EXCEPT ![s] = x]  OBVIOUS
<1>5. s \in Session => u[s].worker \in Worker \cup {None}  BY DEF Users
<1> HIDE DEF x
<1>6. s \in Session => x.worker \in Worker \cup {None}  BY <1>3, <1>5
<1>7. /\ [u EXCEPT ![s] = x] \in Users
      /\ \A L \in SUBSET Sessions : IsFiniteSet(L) =>
              \A c \in Coins : OwedIn(L, [u EXCEPT ![s] = x], c) = OwedIn(L, u, c)
  BY <1>3, <1>6, PlainOne
<1> QED  BY <1>4, <1>7

(* A socket closes, a task is sent or ages: no balance changes.            *)
LEMMA TaskInv ==
  ASSUME StratumInv, NEW s \in Session, Close(s) \/ SendTask(s) \/ Ages(s)
  PROVE  StratumInv'
<1>0. Listed \in SUBSET Sessions /\ IsFiniteSet(Listed) /\ user \in Users  BY InvFacts
<1>1. /\ list' = list /\ conn' \subseteq conn /\ sys' = sys /\ lastPayout' = lastPayout /\ paid' = paid
      /\ news' = news /\ restarts' = restarts
      /\ mined' = mined /\ mature' = mature /\ fund' = fund
      /\ mining' = mining \/ mining' \in Coins
      /\ \/ user' = user
         \/ user' = [user EXCEPT ![s].fresh = TRUE]
         \/ user' = [user EXCEPT ![s].fresh = FALSE]
  BY DEF Close, SendTask, Ages
<1>2. mining' \in Coins \cup {None}  BY <1>1 DEF StratumInv, WorkInv
<1>3. s \in Sessions  BY DEF Sessions
<1>4. /\ user' \in Users
      /\ \A c \in Coins : OwedIn(Listed, user', c) = OwedIn(Listed, user, c)
  <2>1. CASE user' = user  BY <1>0, <2>1
  <2>2. CASE user' = [user EXCEPT ![s].fresh = TRUE]
    <3>1. TRUE \in BOOLEAN  OBVIOUS
    <3> QED  BY <1>0, <1>3, <2>2, <3>1, FreshOwed
  <2>3. CASE user' = [user EXCEPT ![s].fresh = FALSE]
    <3>1. FALSE \in BOOLEAN  OBVIOUS
    <3> QED  BY <1>0, <1>3, <2>3, <3>1, FreshOwed
  <2> QED  BY <1>1, <2>1, <2>2, <2>3
<1>5. {} \in SUBSET (Mine \ ToSet(mined))  OBVIOUS
<1> QED  BY <1>1, <1>2, <1>4, <1>5, UsersInv

(* The first work only chooses a coin.                                     *)
LEMMA FirstWorkInv ==
  ASSUME StratumInv, FirstWork
  PROVE  StratumInv'
<1>0. user \in Users  BY InvFacts
<1>1. /\ list' = list /\ conn' \subseteq conn /\ sys' = sys /\ lastPayout' = lastPayout /\ paid' = paid
      /\ news' = news /\ restarts' = restarts /\ user' = user
      /\ mined' = mined /\ mature' = mature /\ fund' = fund
      /\ mining' \in Coins \cup {None}
  BY DEF FirstWork
<1>2. user' \in Users /\ \A c \in Coins : OwedIn(Listed, user', c) = OwedIn(Listed, user, c)
  BY <1>0, <1>1
<1>5. {} \in SUBSET (Mine \ ToSet(mined))  OBVIOUS
<1> QED  BY <1>1, <1>2, <1>5, UsersInv

(* stratum_close_free forgets what freed sessions are owed, never an open  *)
(* one.                                                                    *)
LEMMA FreeSessionsInv ==
  ASSUME StratumInv, FreeSessions
  PROVE  StratumInv'
<1>0. /\ Listed \in SUBSET Sessions /\ IsFiniteSet(Listed)
      /\ user \in Users /\ mature \in SUBSET Mine
      /\ Books(Listed, mined, mature, user, lastPayout, fund, paid)
      /\ ListInv /\ ConnInv /\ Wallet(mined, mature) /\ WorkInv
  BY InvFacts
<1>1. /\ list' = CloseFree(list)
      /\ user' = [s \in Sessions |-> IF s \in ToSet(list') \cup {Sys} THEN user[s] ELSE NewUser]
      /\ conn' = conn /\ sys' = sys /\ mined' = mined /\ mature' = mature
      /\ lastPayout' = lastPayout /\ fund' = fund /\ paid' = paid /\ news' = news
      /\ mining' = mining /\ restarts' = restarts
  BY DEF FreeSessions, Sessions
<1>2. /\ list' \in Seq(Sessions) /\ IsInjective(list')
      /\ ToSet(list') \subseteq ToSet(list) /\ conn \cap ToSet(list) \subseteq ToSet(list')
  BY <1>0, <1>1, CloseFreeIs DEF ListInv
<1> DEFINE K == ToSet(list')
<1>3. ListInv' /\ Listed' = K /\ K \in SUBSET Listed /\ conn \subseteq K
  BY <1>0, <1>2 DEF ListInv, Listed, ConnInv
<1>4. K \in SUBSET Sessions /\ IsFiniteSet(K)  BY <1>0, <1>3, FS_Subset
<1>5. \A s \in Sessions : user'[s] = IF s \in K \cup {Sys} THEN user[s] ELSE NewUser
  BY <1>1
<1> HIDE DEF K
<1>6. user' \in Users
  <2>1. user \in [Sessions -> User] /\ NewUser \in User /\ NewUser.worker = None
    BY <1>0, NewUserIs DEF Users
  <2>2. \A s \in Sessions : user'[s] \in User  BY <1>5, <2>1
  <2>3. user' \in [Sessions -> User]  BY <1>1, <2>2
  <2>4. \A c \in Coins : user'[Sys].bal[c] = 0  BY <1>0, <1>5 DEF Users, Sessions
  <2>5. \A s \in Session : user'[s].worker \in Worker \cup {None}
    BY <1>0, <1>5, <2>1 DEF Users, Sessions
  <2> QED  BY <2>3, <2>4, <2>5 DEF Users
<1>7. ASSUME NEW c \in Coins PROVE OwedIn(K, user', c) <= OwedIn(Listed, user, c)
  <2>1. \A s \in K : user'[s].bal[c] = user[s].bal[c]  BY <1>4, <1>5
  <2>2. OwedIn(K, user', c) = OwedIn(K, user, c)  BY <1>0, <1>4, <1>6, <2>1, OwedSame
  <2>3. OwedIn(K, user, c) <= OwedIn(Listed, user, c)  BY <1>0, <1>3, OwedFewer
  <2> QED  BY <2>2, <2>3
<1>8. Books(K, mined, mature, user', lastPayout, fund, paid)
  BY <1>0, <1>4, <1>6, <1>7, BooksUsers
<1>9. ConnInv'  BY <1>0, <1>1, <1>3 DEF ConnInv
<1>10. WorkInv'  BY <1>0, <1>1 DEF WorkInv
<1> QED  BY <1>0, <1>1, <1>3, <1>8, <1>9, <1>10 DEF StratumInv

(* task_init divides and pays for each coin in turn.                       *)
LEMMA NewBlockInv ==
  ASSUME StratumInv, NEW c \in Coins, NEW pay, NewBlock(c, pay)
  PROVE  StratumInv'
<1> DEFINE r == IF mining = c THEN Pay(news \cup {c}, pay, Now) ELSE Now
<1>0. /\ Books(Listed, mined, mature, user, lastPayout, fund, paid)
      /\ ListInv /\ ConnInv /\ Wallet(mined, mature) /\ WorkInv
  BY InvFacts
<1>1. /\ user' = r.user /\ lastPayout' = r.last /\ fund' = r.fund /\ paid' = r.paid
      /\ list' = list /\ conn' = conn /\ sys' = sys /\ mined' = mined /\ mature' = mature
      /\ restarts' = restarts
      /\ news' = {} \/ news' = news \cup {c}
      /\ mining' = mining \/ mining' \in Coins
  BY DEF NewBlock
<1>2. Now \in Balanced
  <2>1. Now = [user |-> user, last |-> lastPayout, fund |-> fund, paid |-> paid]  BY DEF Now
  <2> QED  BY <1>0, <2>1, BooksAre
<1>3. WalletInv  BY <1>0 DEF Wallet, WalletInv
<1>4. r \in Balanced
  <2>1. Pay(news \cup {c}, pay, Now) \in Balanced  BY <1>0, <1>2, <1>3, PayBalanced
  <2> QED  BY <1>2, <2>1
<1> HIDE DEF r
<1>5. r = [user |-> user', last |-> lastPayout', fund |-> fund', paid |-> paid']
  <2>1. r \in Ledgers  BY <1>4 DEF Balanced
  <2> QED  BY <1>1, <2>1 DEF Ledgers
<1>6. Books(Listed, mined, mature, user', lastPayout', fund', paid')
  BY <1>4, <1>5, BooksAre
<1>7. ListInv' /\ Listed' = Listed  BY <1>0, <1>1 DEF ListInv, Listed
<1>8. ConnInv'  BY <1>0, <1>1, <1>7 DEF ConnInv
<1>9. WorkInv'  BY <1>0, <1>1 DEF WorkInv
<1> QED  BY <1>0, <1>1, <1>6, <1>7, <1>8, <1>9 DEF StratumInv
-----------------------------------------------------------------------------
(* The rounds, the wallet, the start, and the theorems.                    *)

(* stratum_round_reset leaves names and balances alone.                    *)
LEMMA RoundOwed ==
  ASSUME NEW u \in Users, NEW S
  PROVE  /\ RoundReset(u, S) \in Users
         /\ \A L \in SUBSET Sessions : IsFiniteSet(L) =>
              \A c \in Coins : OwedIn(L, RoundReset(u, S), c) = OwedIn(L, u, c)
<1> DEFINE v == RoundReset(u, S)
<1>0. u \in [Sessions -> User] /\ \A s \in Session : u[s].worker \in Worker \cup {None}
  BY DEF Users
<1>1. DOMAIN u = Sessions  BY <1>0
<1>2. ASSUME NEW s \in Sessions
      PROVE  v[s] \in User /\ v[s].bal = u[s].bal /\ v[s].worker = u[s].worker
  <2> DEFINE x == [u[s] EXCEPT !.avg = (@ + 2 * u[s].tot) \div 3, !.tot = 0]
  <2>1. u[s] \in User  BY <1>0
  <2>2. u[s].avg \in Nat /\ u[s].tot \in Nat  BY <2>1 DEF User
  <2>3. (u[s].avg + 2 * u[s].tot) \div 3 \in Nat  BY <2>2
  <2>4. x \in User /\ x.bal = u[s].bal /\ x.worker = u[s].worker  BY <2>1, <2>3 DEF User
  <2>5. v[s] = u[s] \/ v[s] = x  BY <1>1 DEF RoundReset
  <2> HIDE DEF x, v
  <2> QED  BY <2>1, <2>4, <2>5
<1>3. v \in [Sessions -> User]
  <2>1. DOMAIN v = Sessions /\ v = [s \in Sessions |-> v[s]]  BY <1>1 DEF RoundReset
  <2> HIDE DEF v
  <2> QED  BY <1>2, <2>1
<1> HIDE DEF v
<1>4. \A s \in Sessions : v[s].bal = u[s].bal  BY <1>2
<1>5. \A s \in Session : v[s].worker \in Worker \cup {None}
  BY <1>0, <1>2 DEF Sessions
<1>6. /\ v \in Users
      /\ \A L \in SUBSET Sessions : IsFiniteSet(L) =>
              \A c \in Coins : OwedIn(L, v, c) = OwedIn(L, u, c)
  BY <1>3, <1>4, <1>5, Plain
<1> QED  BY <1>6 DEF v

(* The server's own session gets its name.                                 *)
LEMMA SysOwed ==
  ASSUME NEW u \in Users
  PROVE  /\ [u EXCEPT ![Sys].worker = Sys] \in Users
         /\ \A L \in SUBSET Sessions : IsFiniteSet(L) =>
              \A c \in Coins : OwedIn(L, [u EXCEPT ![Sys].worker = Sys], c) = OwedIn(L, u, c)
<1> DEFINE x == [u[Sys] EXCEPT !.worker = Sys]
<1>0. Sys \in Sessions /\ Sys \notin Session  BY StratumAssumption DEF Sessions
<1>1. u[Sys] \in User  BY <1>0, UserIn
<1>2. x \in User /\ x.bal = u[Sys].bal  BY <1>1 DEF User
<1>3. [u EXCEPT ![Sys].worker = Sys] = [u EXCEPT ![Sys] = x]  OBVIOUS
<1> HIDE DEF x
<1>4. /\ [u EXCEPT ![Sys] = x] \in Users
      /\ \A L \in SUBSET Sessions : IsFiniteSet(L) =>
              \A c \in Coins : OwedIn(L, [u EXCEPT ![Sys] = x], c) = OwedIn(L, u, c)
  BY <1>0, <1>2, PlainOne
<1> QED  BY <1>3, <1>4

(* stratum_task_work.                                                      *)
LEMMA TaskWorkInv ==
  ASSUME StratumInv, NEW round \in BOOLEAN, NEW share \in 0 .. 1, NEW found \in SUBSET Mine,
         TaskWork(round, share, found)
  PROVE  StratumInv'
<1> DEFINE O == <<Sys>>
           l == IF sys THEN list ELSE O \o list
           u == IF sys THEN user ELSE [user EXCEPT ![Sys].worker = Sys]
           v == IF round THEN RoundReset(u, ToSet(l)) ELSE u
           K == IF sys THEN Listed ELSE Listed \cup {Sys}
<1>0. /\ Listed \in SUBSET Sessions /\ IsFiniteSet(Listed)
      /\ user \in Users /\ mature \in SUBSET Mine
      /\ Books(Listed, mined, mature, user, lastPayout, fund, paid)
      /\ ListInv /\ ConnInv /\ Wallet(mined, mature) /\ WorkInv
  BY InvFacts
<1>1. /\ found \in SUBSET (Mine \ ToSet(mined)) /\ mined' = mined \o SetToSeq(found)
      /\ sys' = TRUE /\ list' = l /\ user' = [v EXCEPT ![Sys].tot = @ + share * ShareDiff]
      /\ conn' = conn /\ mature' = mature /\ lastPayout' = lastPayout /\ fund' = fund
      /\ paid' = paid /\ news' = news /\ mining' = mining /\ restarts' = restarts
  BY DEF TaskWork
<1>s. Sys \in Sessions /\ share * ShareDiff \in Nat /\ (~sys => Sys \notin Listed)
  <2>1. ShareDiff \in Nat /\ share \in Nat  BY StratumAssumption
  <2> QED  BY <1>0, <2>1 DEF Sessions, ConnInv
<1>2. l \in Seq(Sessions) /\ IsInjective(l) /\ ToSet(l) = K
  <2>1. O \in Seq(Sessions) /\ ToSet(O) = {Sys} /\ IsInjective(O)  BY <1>s, Single
  <2> HIDE DEF O
  <2>2. list \in Seq(Sessions) /\ IsInjective(list) /\ ToSet(list) = Listed
    BY <1>0 DEF ListInv, Listed
  <2>3. CASE sys  BY <2>2, <2>3
  <2>4. CASE ~sys
    <3>1. ToSet(O) \cap ToSet(list) = {}  BY <1>s, <2>1, <2>2, <2>4
    <3>2. /\ O \o list \in Seq(Sessions) /\ IsInjective(O \o list)
          /\ ToSet(O \o list) = {Sys} \cup Listed
      BY <2>1, <2>2, <3>1, Joined
    <3> QED  BY <2>4, <3>2
  <2> QED  BY <2>3, <2>4
<1>3. u \in Users /\ \A c \in Coins : OwedIn(Listed, u, c) = OwedIn(Listed, user, c)
  BY <1>0, SysOwed
<1> HIDE DEF u, l
<1>4. v \in Users /\ \A c \in Coins : OwedIn(Listed, v, c) = OwedIn(Listed, u, c)
  <2>1. /\ RoundReset(u, ToSet(l)) \in Users
        /\ \A c \in Coins : OwedIn(Listed, RoundReset(u, ToSet(l)), c) = OwedIn(Listed, u, c)
    BY <1>0, <1>3, RoundOwed
  <2> QED  BY <1>3, <2>1
<1> HIDE DEF v
<1>5. user' \in Users /\ \A c \in Coins : OwedIn(Listed, user', c) = OwedIn(Listed, v, c)
  <2> DEFINE k == share * ShareDiff
  <2>1. k \in Nat /\ user' = [v EXCEPT ![Sys].tot = @ + k]  BY <1>1, <1>s
  <2> HIDE DEF k
  <2> QED  BY <1>0, <1>4, <1>s, <2>1, MoreShares
<1>6. K \in SUBSET Sessions /\ IsFiniteSet(K)  BY <1>0, <1>s, FS_AddElement
<1>7. ASSUME NEW c \in Coins PROVE OwedIn(K, user', c) <= OwedIn(Listed, user, c)
  <2>1. OwedIn(Listed, user', c) = OwedIn(Listed, user, c)  BY <1>3, <1>4, <1>5
  <2>2. OwedIn(Listed, user, c) \in Nat  BY <1>0, OwedType
  <2>3. CASE sys  BY <2>1, <2>2, <2>3
  <2>4. CASE ~sys
    <3>1. Sys \in Sessions \ Listed  BY <1>s, <2>4
    <3>2. OwedIn(Listed \cup {Sys}, user', c) = user'[Sys].bal[c] + OwedIn(Listed, user', c)
      BY <1>0, <1>5, <3>1, OwedMore
    <3>3. user'[Sys].bal[c] = 0  BY <1>5 DEF Users
    <3> QED  BY <2>1, <2>2, <2>4, <3>2, <3>3
  <2> QED  BY <2>3, <2>4
<1>8. ListInv' /\ Listed' = K /\ Listed \subseteq K  BY <1>1, <1>2 DEF ListInv, Listed
<1>9. ConnInv'  BY <1>0, <1>1, <1>8 DEF ConnInv
<1>10. WorkInv'  BY <1>0, <1>1 DEF WorkInv
<1> HIDE DEF K
<1>11. Books(K, mined, mature, user', lastPayout, fund, paid)
  BY <1>0, <1>5, <1>6, <1>7, BooksUsers
<1>12. /\ Wallet(mined', mature)
       /\ \A x, b \in mature : AfterIn(mined', x, b) <=> AfterIn(mined, x, b)
  BY <1>0, <1>1, WalletMore
<1>13. Books(K, mined', mature, user', lastPayout, fund, paid)
  BY <1>11, <1>12, BooksMined
<1> QED  BY <1>1, <1>8, <1>9, <1>10, <1>12, <1>13 DEF StratumInv

(* A coinbase becomes mature.                                              *)
LEMMA MaturesInv ==
  ASSUME StratumInv, NEW b \in Mine, Matures(b)
  PROVE  StratumInv'
<1>0. /\ Listed \in SUBSET Sessions /\ IsFiniteSet(Listed)
      /\ user \in Users /\ mature \in SUBSET Mine
      /\ Books(Listed, mined, mature, user, lastPayout, fund, paid)
      /\ ListInv /\ ConnInv /\ Wallet(mined, mature) /\ WorkInv
  BY InvFacts
<1>1. /\ b \in ToSet(mined) \ mature /\ mature' = mature \cup {b}
      /\ fund' = [fund EXCEPT ![CoinOf[b]] = @ + Reward[b]]
      /\ list' = list /\ user' = user /\ conn' = conn /\ sys' = sys /\ mined' = mined
      /\ lastPayout' = lastPayout /\ paid' = paid /\ news' = news /\ mining' = mining
      /\ restarts' = restarts
  BY DEF Matures
<1>2. ListInv' /\ Listed' = Listed  BY <1>0, <1>1 DEF ListInv, Listed
<1>3. ConnInv' /\ WorkInv'  BY <1>0, <1>1, <1>2 DEF ConnInv, WorkInv
<1>4. Wallet(mined', mature')  BY <1>0, <1>1 DEF Wallet
<1>5. b \in Mine \ mature  BY <1>1
<1>6. Books(Listed, mined, mature \cup {b}, user, lastPayout,
            [fund EXCEPT ![CoinOf[b]] = @ + Reward[b]], paid)
  BY <1>0, <1>5, BooksMatures
<1> QED  BY <1>1, <1>2, <1>3, <1>4, <1>6 DEF StratumInv

(* The sessions that a service starts with.                                *)
LEMMA FreshUsers ==
  ASSUME NEW u, u = [s \in Sessions |-> NewUser]
  PROVE  u \in Users
<1>1. NewUser \in User /\ NewUser.worker = None /\ \A c \in Coins : NewUser.bal[c] = 0
  BY NewUserIs
<1>2. u \in [Sessions -> User] /\ \A s \in Sessions : u[s] = NewUser  BY <1>1
<1>3. \A s \in Session : u[s].worker \in Worker \cup {None}  BY <1>1, <1>2 DEF Sessions
<1>4. \A c \in Coins : u[Sys].bal[c] = 0  BY <1>1, <1>2 DEF Sessions
<1> QED  BY <1>2, <1>3, <1>4 DEF Users

(* Everything in memory is gone.                                           *)
LEMMA RestartInv ==
  ASSUME StratumInv, Restart
  PROVE  StratumInv'
<1>0. /\ mature \in SUBSET Mine
      /\ Books(Listed, mined, mature, user, lastPayout, fund, paid)
      /\ Wallet(mined, mature) /\ WorkInv
  BY InvFacts
<1>1. /\ restarts < MaxRestart /\ restarts' = restarts + 1
      /\ list' = <<>> /\ conn' = {} /\ sys' = FALSE
      /\ user' = [s \in Sessions |-> NewUser] /\ lastPayout' = [c \in Coins |-> None]
      /\ news' = {} /\ mining' = None /\ mined' = mined /\ mature' = mature
      /\ fund' = fund /\ paid' = paid
  BY DEF Restart, Sessions
<1>2. ListInv' /\ Listed' = {}  BY <1>1, Empty DEF ListInv, Listed
<1>3. ConnInv'  BY <1>1, <1>2 DEF ConnInv
<1>4. WorkInv'
  <2>1. MaxRestart \in Nat /\ restarts \in 0 .. MaxRestart
    BY <1>0, StratumAssumption DEF WorkInv
  <2>2. restarts' \in 0 .. MaxRestart  BY <1>1, <2>1
  <2> QED  BY <1>1, <2>2 DEF WorkInv
<1>5. user' \in Users  BY <1>1, FreshUsers
<1>6. fund \in [Coins -> Nat] /\ paid \in [Coins -> Nat]  BY <1>0 DEF Books
<1>7. \A c \in Coins : fund[c] + paid[c] = Worth(Of(mature, c))  BY <1>0 DEF Books, BooksIn
<1>8. Books({}, mined, mature, user', [c \in Coins |-> None], fund, paid)
  BY <1>0, <1>5, <1>6, <1>7, BooksFresh
<1> QED  BY <1>0, <1>1, <1>2, <1>3, <1>4, <1>8 DEF StratumInv

(* The start.                                                              *)
LEMMA InitInv ==
  ASSUME Init PROVE StratumInv
<1>1. /\ list = <<>> /\ conn = {} /\ sys = FALSE
      /\ user = [s \in Sessions |-> NewUser]
      /\ mined = Before /\ mature = ToSet(Before)
      /\ lastPayout = [c \in Coins |-> None]
      /\ fund = [c \in Coins |-> Earned(c)] /\ paid = [c \in Coins |-> 0]
      /\ news = {} /\ mining = None /\ restarts = 0
  BY DEF Init, Sessions
<1>2. ListInv /\ Listed = {}  BY <1>1, Empty DEF ListInv, Listed
<1>3. ConnInv  BY <1>1, <1>2 DEF ConnInv
<1>4. WorkInv
  <2>1. MaxRestart \in Nat  BY StratumAssumption
  <2>2. 0 \in 0 .. MaxRestart  BY <2>1
  <2> QED  BY <1>1, <2>2 DEF WorkInv
<1>5. Before \in Seq(Mine) /\ IsInjective(Before)  BY StratumAssumption
<1>6. Wallet(mined, mature)  BY <1>1, <1>5 DEF Wallet
<1>7. mature \in SUBSET Mine  BY <1>1, <1>5, InList
<1>8. user \in Users  BY <1>1, FreshUsers
<1>9. ASSUME NEW c \in Coins
      PROVE  /\ Earned(c) = Worth(Of(mature, c)) /\ Earned(c) \in Nat
             /\ fund[c] = Earned(c) /\ paid[c] = 0
  <2>1. Earned(c) = Worth(Of(mature, c))  BY DEF Earned, Worth, Of
  <2>2. Of(mature, c) \in SUBSET Mine  BY <1>7 DEF Of
  <2> QED  BY <1>1, <2>1, <2>2, WorthIs
<1>10. fund \in [Coins -> Nat] /\ paid \in [Coins -> Nat]  BY <1>1, <1>9
<1>11. \A c \in Coins : fund[c] + paid[c] = Worth(Of(mature, c))  BY <1>9
<1>12. Books({}, mined, mature, user, [c \in Coins |-> None], fund, paid)
  BY <1>7, <1>8, <1>10, <1>11, BooksFresh
<1> QED  BY <1>1, <1>2, <1>3, <1>4, <1>6, <1>12 DEF StratumInv

(* Every step of the service keeps the invariant.                          *)
LEMMA StratumStep ==
  ASSUME StratumInv, [Next]_vars PROVE StratumInv'
<1>1. ASSUME NEW s \in Session, Accept(s) PROVE StratumInv'  BY <1>1, AcceptInv
<1>2. ASSUME NEW s \in Session, Close(s) \/ SendTask(s) \/ Ages(s) PROVE StratumInv'
  BY <1>2, TaskInv
<1>3. ASSUME NEW s \in Session, NEW w \in Worker, Authorize(s, w) PROVE StratumInv'
  BY <1>3, AuthorizeInv
<1>4. ASSUME NEW s \in Session, NEW w \in Worker, NEW found \in SUBSET Mine,
             Submit(s, w, found)
      PROVE  StratumInv'
  BY <1>4, SubmitInv
<1>5. CASE FreeSessions  BY <1>5, FreeSessionsInv
<1>6. ASSUME NEW c \in Coins, NEW pay \in {"none", "sent", "failed"}, NewBlock(c, pay)
      PROVE  StratumInv'
  BY <1>6, NewBlockInv
<1>7. CASE FirstWork  BY <1>7, FirstWorkInv
<1>8. ASSUME NEW round \in BOOLEAN, NEW share \in 0 .. 1, NEW found \in SUBSET Mine,
             TaskWork(round, share, found)
      PROVE  StratumInv'
  BY <1>8, TaskWorkInv
<1>9. ASSUME NEW b \in Mine, Matures(b) PROVE StratumInv'  BY <1>9, MaturesInv
<1>10. CASE Restart  BY <1>10, RestartInv
<1>11. CASE UNCHANGED vars
  <2>1. /\ list' = list /\ user' = user /\ conn' = conn /\ sys' = sys /\ mined' = mined
        /\ mature' = mature /\ lastPayout' = lastPayout /\ fund' = fund /\ paid' = paid
        /\ news' = news /\ mining' = mining /\ restarts' = restarts
    BY <1>11 DEF vars
  <2>2. ListInv' /\ Listed' = Listed  BY <2>1 DEF StratumInv, ListInv, Listed
  <2>3. ConnInv' /\ WorkInv'  BY <2>1, <2>2 DEF StratumInv, ConnInv, WorkInv
  <2> QED  BY <2>1, <2>2, <2>3 DEF StratumInv
<1> QED
  BY <1>1, <1>2, <1>3, <1>4, <1>5, <1>6, <1>7, <1>8, <1>9, <1>10, <1>11 DEF Next

(* The invariant holds in every state of the service.                      *)
THEOREM StratumInvariant == Spec => []StratumInv
<1>1. Init => StratumInv  BY InitInv
<1>2. StratumInv /\ [Next]_vars => StratumInv'  BY StratumStep
<1> QED  BY <1>1, <1>2, PTL DEF Spec

(* No session is twice on client_list, only the server's own has its name, *)
(* and neither a balance nor the fund becomes negative, whatever the timer *)
(* and the miners do.                                                      *)
THEOREM StratumTypeCorrect == Spec => []StratumTypeOK
<1>1. StratumInv => StratumTypeOK
  <2> SUFFICES ASSUME StratumInv PROVE StratumTypeOK  OBVIOUS
  <2>1. list \in Seq(Session \cup {Sys}) /\ IsInjective(list)
    BY DEF StratumInv, ListInv, Sessions
  <2>2. conn \subseteq Session /\ sys \in BOOLEAN  BY DEF StratumInv, ConnInv
  <2>3. user \in [Session \cup {Sys} ->
          [worker : Worker \cup {Sys, None}, fresh : BOOLEAN, tot : Nat, avg : Nat,
           bal : [Coins -> Nat]]]
    BY DEF StratumInv, Books, Users, User, Sessions
  <2>4. mined \in Seq(Mine) /\ IsInjective(mined) /\ mature \subseteq ToSet(mined)
    BY DEF StratumInv, Wallet
  <2>5. /\ lastPayout \in [Coins -> Mine \cup {None}]
        /\ fund \in [Coins -> Nat] /\ paid \in [Coins -> Nat]
    BY DEF StratumInv, Books
  <2>6. /\ news \subseteq Coins /\ mining \in Coins \cup {None}
        /\ restarts \in 0 .. MaxRestart
    BY DEF StratumInv, WorkInv
  <2> QED  BY <2>1, <2>2, <2>3, <2>4, <2>5, <2>6 DEF StratumTypeOK
<1> QED  BY <1>1, StratumInvariant, PTL

(* stratum_close_free never takes a connected miner off client_list.       *)
THEOREM OpenSessionsListed == Spec => []OpenListed
<1>1. StratumInv => OpenListed  BY DEF StratumInv, ConnInv, OpenListed, Listed
<1> QED  BY <1>1, StratumInvariant, PTL

(* check_payout, commit_payout and merge_idle_worker together never send   *)
(* and owe more of a coin than its blocks have brought into the main       *)
(* account, across restarts.                                               *)
THEOREM PaidFromBlocks == Spec => []PaidFromRewards
<1>1. StratumInv => PaidFromRewards
  <2> SUFFICES ASSUME StratumInv, NEW c \in Coins
               PROVE  paid[c] + Owed(c) <= Earned(c)
    BY DEF PaidFromRewards
  <2>0. /\ Listed \in SUBSET Sessions /\ IsFiniteSet(Listed)
        /\ user \in Users /\ mature \in SUBSET Mine
        /\ Books(Listed, mined, mature, user, lastPayout, fund, paid)
    BY InvFacts
  <2>1. Owed(c) = OwedIn(Listed, user, c)
    <3>1. DOMAIN Bal(Listed, user, c) = Listed  BY DEF Bal
    <3>2. Owed(c) = SumFunction(Bal(Listed, user, c))  BY DEF Owed, Bal, Listed
    <3> QED  BY <3>1, <3>2 DEF SumFunction, OwedIn
  <2>2. Earned(c) = Worth(Of(mature, c))  BY DEF Earned, Worth, Of
  <2>3. paid[c] + OwedIn(Listed, user, c) <= Worth(PastOf(mined, mature, lastPayout[c], c))
    BY <2>0 DEF Books, BooksIn
  <2> DEFINE P == PastOf(mined, mature, lastPayout[c], c)
  <2>4. Of(mature, c) \in SUBSET Mine /\ P \in SUBSET Of(mature, c)
    BY <2>0 DEF Of, PastOf
  <2> HIDE DEF P
  <2>5. Worth(P) <= Worth(Of(mature, c))  BY <2>4, WorthIs, SumSub DEF Worth
  <2>6. Worth(P) \in Nat /\ Worth(Of(mature, c)) \in Nat
    <3>1. P \in SUBSET Mine  BY <2>4
    <3> QED  BY <2>4, <3>1, WorthIs
  <2>7. paid[c] \in Nat /\ OwedIn(Listed, user, c) \in Nat
    BY <2>0, OwedType DEF Books
  <2>8. paid[c] + OwedIn(Listed, user, c) <= Worth(P)  BY <2>3 DEF P
  <2> QED  BY <2>1, <2>2, <2>5, <2>6, <2>7, <2>8
<1> QED  BY <1>1, StratumInvariant, PTL
=============================================================================
