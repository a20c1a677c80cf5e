----------------------------- MODULE ChainProofs -----------------------------
(***************************************************************************)
(* Proofs about the block chain (Chain), for every tree of blocks, every   *)
(* content of the blocks and every bound on crashes: the type invariant,   *)
(* that no block once readable is lost, and that the best chain is stored, *)
(* the orphans are outside it and the stored tip is its end.  The last     *)
(* three hold as long as a failed commit settles (Settles): where it does  *)
(* not, the best chain is not even valid.  Then the ledger: under Regular  *)
(* the best chain is valid, its transactions are found and its spends      *)
(* recorded at every rest, and Chain implements Ledger.                    *)
(***************************************************************************)
EXTENDS Chain, Inductions

-----------------------------------------------------------------------------
(* Heights.                                                                *)

(* The tree of blocks.                                                     *)
LEMMA Tree ==
  /\ Genesis \in Block /\ Height[Genesis] = 0 /\ None \notin Block
  /\ \A b \in Block : Height[b] \in Nat
  /\ \A b \in Block : b # Genesis =>
       Prev[b] \in Block /\ Height[b] = Height[Prev[b]] + 1 /\ Height[b] > 0
<1>1. \A b \in Block : Height[b] \in Nat  BY ChainAssumption
<1>2. \A b \in Block : b # Genesis =>
        Prev[b] \in Block /\ Height[b] = Height[Prev[b]] + 1
  BY ChainAssumption
<1>3. \A b \in Block : b # Genesis => Height[b] > 0  BY <1>1, <1>2
<1>4. Genesis \in Block /\ Height[Genesis] = 0 /\ None \notin Block
  BY ChainAssumption
<1> QED  BY <1>1, <1>2, <1>3, <1>4

(* There is a highest block, and every height is one of the database's.    *)
LEMMA Heights ==
  MaxHeight \in Nat /\ \A b \in Block : Height[b] \in 0 .. MaxHeight
<1>1. PICK s \in Seq(Block) : \A b \in Block : \E i \in 1 .. Len(s) : s[i] = b
  BY ChainAssumption DEF IsFiniteSet
<1>2. Len(s) \in Nat /\ \A i \in 1 .. Len(s) : Height[s[i]] \in Nat
  BY Tree
<1> DEFINE Q(k) == \E m \in Nat : \A i \in 1 .. k : Height[s[i]] <= m
           P == {k \in 0 .. Len(s) : Q(k)}
<1>3. 0 \in P
  <2>1. \A i \in 1 .. 0 : Height[s[i]] <= 0  OBVIOUS
  <2> QED  BY <1>2, <2>1
<1>4. ASSUME NEW k \in 1 .. Len(s), k - 1 \in P PROVE k \in P
  <2>1. PICK m \in Nat : \A i \in 1 .. k - 1 : Height[s[i]] <= m  BY <1>4
  <2>2. CASE Height[s[k]] <= m
    <3>1. \A i \in 1 .. k : Height[s[i]] <= m  BY <1>2, <2>1, <2>2
    <3>2. Q(k)  BY <3>1
    <3> HIDE DEF Q
    <3> QED  BY <1>2, <3>2
  <2>3. CASE ~(Height[s[k]] <= m)
    <3>1. \A i \in 1 .. k : Height[s[i]] <= Height[s[k]]
      BY <1>2, <2>1, <2>3
    <3>2. Height[s[k]] \in Nat  BY <1>2
    <3>3. Q(k)  BY <3>1, <3>2
    <3> HIDE DEF Q
    <3> QED  BY <1>2, <3>3
  <2> QED  BY <2>2, <2>3
<1> HIDE DEF P
<1>5. \A k \in 0 .. Len(s) : k \in P  BY <1>2, <1>3, <1>4, UpTo
<1>6. Len(s) \in P  BY <1>2, <1>5
<1>7. PICK m \in Nat : \A i \in 1 .. Len(s) : Height[s[i]] <= m
  BY <1>6 DEF P
<1> DEFINE H == {Height[b] : b \in Block}
<1>8. H \in SUBSET Nat /\ H # {}  BY Tree
<1>9. \A b \in Block : Height[b] \in H /\ Height[b] <= m  BY <1>1, <1>7
<1>10. \A h \in H : h <= m  BY <1>9
<1> HIDE DEF H
<1>11. PICK x \in H : \A y \in H : x >= y  BY <1>8, <1>10, Greatest
<1>12. x \in Nat /\ \A y \in H : y \in Nat /\ y <= x  BY <1>8, <1>11
<1>13. Max(H) = x  BY <1>8, <1>12, MaxIs
<1>14. MaxHeight = x  BY <1>13 DEF MaxHeight, H
<1>15. \A b \in Block : Height[b] \in Nat /\ Height[b] <= x  BY <1>9, <1>12
<1> QED  BY <1>12, <1>14, <1>15

(* A set of blocks has a lowest one.                                       *)
LEMMA Lowests ==
  ASSUME NEW S \in SUBSET Block, S # {}
  PROVE  Lowest(S) \in S /\ \A c \in S : Height[Lowest(S)] <= Height[c]
<1> DEFINE H == {Height[b] : b \in S}
<1>1. H \in SUBSET Nat /\ H # {}  BY Tree
<1>2. \A b \in S : Height[b] \in H  OBVIOUS
<1>3. \A h \in H : \E b \in S : h = Height[b]  OBVIOUS
<1> HIDE DEF H
<1>4. PICK x \in H : \A y \in H : x <= y  BY <1>1, Least
<1>5. \E b \in S : \A c \in S : Height[b] <= Height[c]  BY <1>2, <1>3, <1>4
<1> QED  BY <1>5 DEF Lowest

(* A set of blocks has a highest one.                                      *)
LEMMA Highests ==
  ASSUME NEW S \in SUBSET Block, S # {}
  PROVE  Highest(S) \in S /\ \A c \in S : Height[Highest(S)] >= Height[c]
<1> DEFINE H == {Height[b] : b \in S}
<1>1. H \in SUBSET Nat /\ H # {} /\ \A h \in H : h <= MaxHeight
  BY Tree, Heights
<1>2. \A b \in S : Height[b] \in H  OBVIOUS
<1>3. \A h \in H : \E b \in S : h = Height[b]  OBVIOUS
<1> HIDE DEF H
<1>4. PICK x \in H : \A y \in H : x >= y  BY <1>1, Heights, Greatest
<1>5. \E b \in S : \A c \in S : Height[b] >= Height[c]  BY <1>2, <1>3, <1>4
<1> QED  BY <1>5 DEF Highest

(* What every block inherits from the one below it, all blocks have.       *)
LEMMA ByLinks ==
  ASSUME NEW S \in SUBSET Block, NEW link, NEW P,
         \A b \in S : b \in P \/ (link[b] \in S /\ Height[link[b]] < Height[b]
                                  /\ (link[b] \in P => b \in P))
  PROVE  S \subseteq P
<1> SUFFICES ASSUME S \ P # {} PROVE FALSE  OBVIOUS
<1> DEFINE b == Lowest(S \ P)
<1>1. b \in S \ P /\ \A c \in S \ P : Height[b] <= Height[c]
  BY Lowests
<1> HIDE DEF b
<1>2. link[b] \in S /\ Height[link[b]] < Height[b] /\ link[b] \notin P  BY <1>1
<1>3. Height[b] <= Height[link[b]] /\ Height[b] \in Nat /\ Height[link[b]] \in Nat
  BY <1>1, <1>2, Tree
<1> QED  BY <1>2, <1>3

(* What the genesis block has and every block inherits from its            *)
(* predecessor, all blocks have.                                           *)
LEMMA FromGenesis ==
  ASSUME NEW P, Genesis \in P, \A b \in Block \ {Genesis} : Prev[b] \in P => b \in P
  PROVE  Block \subseteq P
<1>1. \A b \in Block : b # Genesis =>
        Prev[b] \in Block /\ Height[Prev[b]] < Height[b]
  BY Tree
<1>2. \A b \in Block : b \in P \/ (Prev[b] \in Block /\ Height[Prev[b]] < Height[b]
                                  /\ (Prev[b] \in P => b \in P))
  BY <1>1
<1> QED  BY <1>2, ByLinks

-----------------------------------------------------------------------------
(* Chains of blocks.                                                       *)

(* What Branch computes, as an equation.                                   *)
LEMMA BranchIs ==
  ASSUME pprev \in [Block -> Block \cup {None}]
  PROVE  \A b \in Block : Branch(b) =
           IF pprev[b] = None THEN {b} ELSE {b} \cup Branch(pprev[b])
<1> DEFINE f == CHOOSE g : g = [x \in Block |->
                  IF pprev[x] = None THEN {x} ELSE {x} \cup g[pprev[x]]]
           Closed(S) == \A y \in S : pprev[y] # None => pprev[y] \in S
           Up(x) == {c \in Block : \A S \in SUBSET Block :
                       x \in S /\ Closed(S) => c \in S}
           h == [x \in Block |-> Up(x)]
<1>1. ASSUME NEW x \in Block
      PROVE  h[x] = IF pprev[x] = None THEN {x} ELSE {x} \cup h[pprev[x]]
  <2>1. CASE pprev[x] = None
    <3>1. {x} \in SUBSET Block /\ Closed({x})  BY <2>1
    <3>2. Up(x) \subseteq {x} /\ x \in Up(x)  BY <3>1
    <3> QED  BY <2>1, <3>2
  <2>2. CASE pprev[x] # None
    <3>1. pprev[x] \in Block  BY <2>2
    <3>2. ASSUME NEW c \in Up(x) PROVE c \in {x} \cup Up(pprev[x])
      <4>1. SUFFICES ASSUME c # x, NEW S \in SUBSET Block, pprev[x] \in S, Closed(S)
                     PROVE  c \in S
        OBVIOUS
      <4>2. S \cup {x} \in SUBSET Block /\ x \in S \cup {x} /\ Closed(S \cup {x})
        BY <4>1
      <4>3. c \in S \cup {x}  BY <4>2
      <4> QED  BY <4>1, <4>3
    <3>3. ASSUME NEW c \in {x} \cup Up(pprev[x]) PROVE c \in Up(x)
      <4>1. c \in Block  OBVIOUS
      <4>2. SUFFICES ASSUME NEW S \in SUBSET Block, x \in S, Closed(S) PROVE c \in S
        BY <4>1
      <4>3. pprev[x] \in S  BY <2>2, <4>2
      <4> QED  BY <4>2, <4>3
    <3>4. Up(x) = {x} \cup Up(pprev[x])  BY <3>2, <3>3
    <3> QED  BY <2>2, <3>1, <3>4
  <2> QED  BY <2>1, <2>2
<1>2. h = [x \in Block |-> IF pprev[x] = None THEN {x} ELSE {x} \cup h[pprev[x]]]
  <2> HIDE DEF Up
  <2> QED  BY <1>1
<1> HIDE DEF h
<1>3. f = [x \in Block |-> IF pprev[x] = None THEN {x} ELSE {x} \cup f[pprev[x]]]
  BY <1>2
<1>4. \A b \in Block : Branch(b) = f[b]  BY DEF Branch
<1> HIDE DEF f
<1> QED  BY <1>3, <1>4

(* What Ancestors computes.                                                *)
LEMMA AncestorsIs ==
  \A b \in Block : Ancestors(b) =
    IF b = Genesis THEN {b} ELSE {b} \cup Ancestors(Prev[b])
<1> DEFINE f == CHOOSE g : g = [x \in Block |->
                  IF x = Genesis THEN {x} ELSE {x} \cup g[Prev[x]]]
           Closed(S) == \A y \in S : y # Genesis => Prev[y] \in S
           Up(x) == {c \in Block : \A S \in SUBSET Block :
                       x \in S /\ Closed(S) => c \in S}
           h == [x \in Block |-> Up(x)]
<1>1. ASSUME NEW x \in Block
      PROVE  h[x] = IF x = Genesis THEN {x} ELSE {x} \cup h[Prev[x]]
  <2>1. CASE x = Genesis
    <3>1. {x} \in SUBSET Block /\ Closed({x})  BY <2>1
    <3>2. Up(x) \subseteq {x} /\ x \in Up(x)  BY <3>1
    <3> QED  BY <2>1, <3>2
  <2>2. CASE x # Genesis
    <3>1. Prev[x] \in Block  BY <2>2, Tree
    <3>2. ASSUME NEW c \in Up(x) PROVE c \in {x} \cup Up(Prev[x])
      <4>1. SUFFICES ASSUME c # x, NEW S \in SUBSET Block, Prev[x] \in S, Closed(S)
                     PROVE  c \in S
        OBVIOUS
      <4>2. S \cup {x} \in SUBSET Block /\ x \in S \cup {x} /\ Closed(S \cup {x})
        BY <4>1
      <4>3. c \in S \cup {x}  BY <4>2
      <4> QED  BY <4>1, <4>3
    <3>3. ASSUME NEW c \in {x} \cup Up(Prev[x]) PROVE c \in Up(x)
      <4>1. c \in Block  OBVIOUS
      <4>2. SUFFICES ASSUME NEW S \in SUBSET Block, x \in S, Closed(S) PROVE c \in S
        BY <4>1
      <4>3. Prev[x] \in S  BY <2>2, <4>2
      <4> QED  BY <4>2, <4>3
    <3>4. Up(x) = {x} \cup Up(Prev[x])  BY <3>2, <3>3
    <3> QED  BY <2>2, <3>1, <3>4
  <2> QED  BY <2>1, <2>2
<1>2. h = [x \in Block |-> IF x = Genesis THEN {x} ELSE {x} \cup h[Prev[x]]]
  <2> HIDE DEF Up
  <2> QED  BY <1>1
<1> HIDE DEF h
<1>3. f = [x \in Block |-> IF x = Genesis THEN {x} ELSE {x} \cup f[Prev[x]]]
  BY <1>2
<1>4. \A b \in Block : Ancestors(b) = f[b]  BY DEF Ancestors
<1>5. \A b \in Block : b # Genesis => Prev[b] \in Block  BY Tree
<1> HIDE DEF f
<1> QED  BY <1>3, <1>4, <1>5

(* A chain leads down to the genesis block, and contains the chains of its *)
(* blocks.                                                                 *)
LEMMA Chains ==
  \A b \in Block :
    /\ b \in Ancestors(b) /\ Genesis \in Ancestors(b) /\ Ancestors(b) \subseteq Block
    /\ \A c \in Ancestors(b) : c = b \/ Height[c] < Height[b]
    /\ \A c \in Ancestors(b) : c # Genesis => Prev[c] \in Ancestors(b)
    /\ \A c \in Ancestors(b) : Ancestors(c) \subseteq Ancestors(b)
<1> DEFINE Good(b) ==
             /\ b \in Ancestors(b) /\ Genesis \in Ancestors(b)
             /\ Ancestors(b) \subseteq Block
             /\ \A c \in Ancestors(b) : c = b \/ Height[c] < Height[b]
             /\ \A c \in Ancestors(b) : c # Genesis => Prev[c] \in Ancestors(b)
             /\ \A c \in Ancestors(b) : Ancestors(c) \subseteq Ancestors(b)
           P == {b \in Block : Good(b)}
<1>1. Good(Genesis)
  <2>1. Ancestors(Genesis) = {Genesis}  BY AncestorsIs, Tree
  <2> QED  BY <2>1, Tree
<1>2. ASSUME NEW b \in Block, b # Genesis, Good(Prev[b]) PROVE Good(b)
  <2>1. /\ Prev[b] \in Block /\ Height[b] \in Nat /\ Height[Prev[b]] \in Nat
        /\ Height[Prev[b]] < Height[b]
    BY <1>2, Tree
  <2>2. Ancestors(b) = {b} \cup Ancestors(Prev[b])  BY <1>2, AncestorsIs
  <2>3. ASSUME NEW c \in Ancestors(b), c # b
        PROVE  /\ c \in Ancestors(Prev[b]) /\ Height[c] < Height[b]
    <3>1. c \in Ancestors(Prev[b])  BY <2>2, <2>3
    <3>2. c \in Block /\ Height[c] \in Nat  BY <1>2, <3>1, Tree
    <3>3. Height[c] <= Height[Prev[b]]  BY <1>2, <2>1, <3>1, <3>2
    <3> QED  BY <2>1, <3>1, <3>2, <3>3
  <2>4. \A c \in Ancestors(b) : c # Genesis => Prev[c] \in Ancestors(b)
    BY <1>2, <2>2, <2>3
  <2>5. \A c \in Ancestors(b) : Ancestors(c) \subseteq Ancestors(b)
    BY <1>2, <2>2, <2>3
  <2> QED  BY <1>2, <2>1, <2>2, <2>3, <2>4, <2>5
<1> HIDE DEF Good
<1>3. Genesis \in P /\ \A b \in Block \ {Genesis} : Prev[b] \in P => b \in P
  BY <1>1, <1>2, Tree
<1> HIDE DEF P
<1>4. Block \subseteq P  BY <1>3, FromGenesis
<1> QED  BY <1>4 DEF P, Good

(* It has one block at each height.                                        *)
LEMMA OnePerHeight ==
  \A b \in Block : \A c, d \in Ancestors(b) : Height[c] = Height[d] => c = d
<1> DEFINE Good(b) == \A c, d \in Ancestors(b) : Height[c] = Height[d] => c = d
           P == {b \in Block : Good(b)}
<1>1. Good(Genesis)
  <2>1. Ancestors(Genesis) = {Genesis}  BY AncestorsIs, Tree
  <2> QED  BY <2>1
<1>2. ASSUME NEW b \in Block, b # Genesis, Good(Prev[b]) PROVE Good(b)
  <2>1. Ancestors(b) = {b} \cup Ancestors(Prev[b])  BY <1>2, AncestorsIs
  <2>2. \A c \in Ancestors(b) : c = b \/ Height[c] < Height[b]  BY Chains
  <2>3. Height[b] \in Nat  BY Tree
  <2>4. ASSUME NEW c \in Ancestors(b), NEW d \in Ancestors(b), Height[c] = Height[d]
        PROVE  c = d
    <3>1. CASE c = b  BY <2>2, <2>3, <2>4, <3>1
    <3>2. CASE d = b  BY <2>2, <2>3, <2>4, <3>2
    <3>3. CASE c # b /\ d # b  BY <1>2, <2>1, <2>4, <3>3
    <3> QED  BY <3>1, <3>2, <3>3
  <2> QED  BY <2>4
<1> HIDE DEF Good
<1>3. Genesis \in P /\ \A b \in Block \ {Genesis} : Prev[b] \in P => b \in P
  BY <1>1, <1>2, Tree
<1> HIDE DEF P
<1>4. Block \subseteq P  BY <1>3, FromGenesis
<1> QED  BY <1>4 DEF P, Good

(* It has a block at every height below its own.                           *)
LEMMA EveryHeight ==
  \A b \in Block : \A h \in 0 .. Height[b] : \E c \in Ancestors(b) : Height[c] = h
<1> DEFINE Good(b) == \A h \in 0 .. Height[b] : \E c \in Ancestors(b) : Height[c] = h
           P == {b \in Block : Good(b)}
<1>1. Good(Genesis)
  <2>1. Genesis \in Ancestors(Genesis) /\ Height[Genesis] = 0  BY Chains, Tree
  <2> QED  BY <2>1
<1>2. ASSUME NEW b \in Block, b # Genesis, Good(Prev[b]) PROVE Good(b)
  <2>1. Ancestors(b) = {b} \cup Ancestors(Prev[b])  BY <1>2, AncestorsIs
  <2>2. /\ Height[b] \in Nat /\ Height[Prev[b]] \in Nat
        /\ Height[b] = Height[Prev[b]] + 1
    BY <1>2, Tree
  <2>3. ASSUME NEW h \in 0 .. Height[b] PROVE \E c \in Ancestors(b) : Height[c] = h
    <3>1. CASE h = Height[b]  BY <2>1, <3>1
    <3>2. CASE h # Height[b]
      <4>1. h \in 0 .. Height[Prev[b]]  BY <2>2, <3>2
      <4> QED  BY <1>2, <2>1, <4>1
    <3> QED  BY <3>1, <3>2
  <2> QED  BY <2>3
<1> HIDE DEF Good
<1>3. Genesis \in P /\ \A b \in Block \ {Genesis} : Prev[b] \in P => b \in P
  BY <1>1, <1>2, Tree
<1> HIDE DEF P
<1>4. Block \subseteq P  BY <1>3, FromGenesis
<1> QED  BY <1>4 DEF P, Good

(* Of two blocks of one chain the lower one is an ancestor of the other.   *)
LEMMA HeightsInOrder ==
  ASSUME NEW b \in Block, NEW c \in Ancestors(b), NEW d \in Ancestors(b),
         Height[c] <= Height[d]
  PROVE  c \in Ancestors(d)
<1>1. c \in Block /\ d \in Block /\ Ancestors(d) \subseteq Ancestors(b)  BY Chains
<1>2. Height[c] \in 0 .. Height[d]  BY <1>1, Tree
<1>3. PICK e \in Ancestors(d) : Height[e] = Height[c]  BY <1>1, <1>2, EveryHeight
<1>4. e = c  BY <1>1, <1>3, OnePerHeight
<1> QED  BY <1>3, <1>4

(* What TotalWork computes.                                                *)
LEMMA TotalWorkIs ==
  \A b \in Block :
    /\ TotalWork(b) \in Nat
    /\ TotalWork(b) = Work[b] + IF b = Genesis THEN 0 ELSE TotalWork(Prev[b])
<1> DEFINE Eq(g, x) == g[x] = Work[x] + IF x = Genesis THEN 0 ELSE g[Prev[x]]
           Q(k) == \E g \in [Block -> Nat] : \A x \in Block : Height[x] <= k => Eq(g, x)
           P == {k \in 0 .. MaxHeight : Q(k)}
<1>w. \A b \in Block : Work[b] \in Nat  BY ChainAssumption
<1>1. 0 \in P
  <2> DEFINE g == [x \in Block |-> Work[x]]
  <2>1. ASSUME NEW x \in Block, Height[x] <= 0 PROVE Eq(g, x)
    <3>1. x = Genesis  BY <2>1, Tree
    <3> QED  BY <1>w, <3>1
  <2>2. g \in [Block -> Nat]  BY <1>w
  <2> HIDE DEF g, Eq
  <2>3. Q(0)  BY <2>1, <2>2
  <2> QED  BY <2>3, Heights
<1>2. ASSUME NEW k \in 1 .. MaxHeight, k - 1 \in P PROVE k \in P
  <2>1. PICK f \in [Block -> Nat] : \A x \in Block : Height[x] <= k - 1 => Eq(f, x)
    BY <1>2
  <2> DEFINE g == [x \in Block |-> IF Height[x] = k THEN Work[x] + f[Prev[x]] ELSE f[x]]
  <2>2. \A x \in Block : Height[x] = k => x # Genesis /\ Prev[x] \in Block
    BY Tree
  <2>3. g \in [Block -> Nat]  BY <1>w, <2>2
  <2>4. ASSUME NEW x \in Block, Height[x] <= k PROVE Eq(g, x)
    <3>1. CASE Height[x] = k
      <4>1. Prev[x] \in Block /\ Height[Prev[x]] # k /\ x # Genesis
        BY <3>1, <2>2, Tree, Heights
      <4> QED  BY <3>1, <4>1
    <3>2. CASE Height[x] # k
      <4>1. Eq(f, x)  BY <2>1, <2>4, <3>2, Tree, Heights
      <4>2. x # Genesis => Prev[x] \in Block /\ Height[Prev[x]] # k
        BY <2>4, <3>2, Tree, Heights
      <4> QED  BY <3>2, <4>1, <4>2
    <3> QED  BY <3>1, <3>2
  <2>5. Q(k)
    <3> HIDE DEF g, Eq
    <3> QED  BY <2>3, <2>4
  <2> HIDE DEF Q
  <2> QED  BY <2>5, Heights
<1>3. MaxHeight \in P
  <2> HIDE DEF P
  <2>1. \A k \in 0 .. MaxHeight : k \in P  BY <1>1, <1>2, Heights, UpTo
  <2> QED  BY <2>1, Heights
<1>4. PICK g \in [Block -> Nat] : \A x \in Block : Eq(g, x)
  <2>1. PICK g \in [Block -> Nat] : \A x \in Block : Height[x] <= MaxHeight => Eq(g, x)
    BY <1>3
  <2> HIDE DEF Eq
  <2> QED  BY <2>1, Heights
<1>5. g = [x \in Block |-> Work[x] + IF x = Genesis THEN 0 ELSE g[Prev[x]]]
  BY <1>4
<1> DEFINE f == CHOOSE t : t = [x \in Block |-> Work[x] + IF x = Genesis THEN 0 ELSE t[Prev[x]]]
<1>6. f = [x \in Block |-> Work[x] + IF x = Genesis THEN 0 ELSE f[Prev[x]]]
  BY <1>5
<1>7. \A b \in Block : TotalWork(b) = f[b]  BY DEF TotalWork
<1> HIDE DEF f, P, Q, Eq
<1>8. \A b \in Block : f[b] = Work[b] + IF b = Genesis THEN 0 ELSE f[Prev[b]]
  BY <1>6
<1> DEFINE N == {b \in Block : f[b] \in Nat}
<1>9. \A b \in Block : b \in N \/ (Prev[b] \in Block /\ Height[Prev[b]] < Height[b]
                                  /\ (Prev[b] \in N => b \in N))
  <2>1. f[Genesis] \in Nat  BY <1>w, <1>8, Tree
  <2>2. ASSUME NEW b \in Block, b # Genesis, f[Prev[b]] \in Nat PROVE f[b] \in Nat
    BY <1>w, <1>8, <2>2
  <2>3. \A b \in Block : b # Genesis =>
          Prev[b] \in Block /\ Height[Prev[b]] < Height[b]
    BY Tree
  <2> QED  BY <2>1, <2>2, <2>3
<1>10. Block \subseteq N
  <2> HIDE DEF N
  <2> QED  BY <1>9, ByLinks
<1>11. \A b \in Block : b # Genesis => Prev[b] \in Block  BY Tree
<1> QED  BY <1>7, <1>8, <1>10, <1>11

(* The branch of a block in memory is its chain when the links are those   *)
(* of the blocks.                                                          *)
LEMMA BranchIsChain ==
  ASSUME pprev \in [Block -> Block \cup {None}], NEW S \in SUBSET Block,
         \A b \in S : IF b = Genesis THEN pprev[b] = None
                       ELSE pprev[b] = Prev[b] /\ Prev[b] \in S
  PROVE  \A b \in S : Branch(b) = Ancestors(b)
<1> DEFINE P == {b \in Block : Branch(b) = Ancestors(b)}
<1>1. ASSUME NEW b \in S PROVE b \in P \/ (Prev[b] \in S /\ Height[Prev[b]] < Height[b]
                                  /\ (Prev[b] \in P => b \in P))
  <2>1. CASE b = Genesis
    <3>1. Branch(b) = {b} /\ Ancestors(b) = {b}  BY <2>1, BranchIs, AncestorsIs
    <3> QED  BY <3>1
  <2>2. CASE b # Genesis
    <3>1. pprev[b] = Prev[b] /\ Prev[b] \in S /\ Prev[b] # None /\ Height[Prev[b]] < Height[b]
      BY <2>2, Tree
    <3>2. Branch(b) = {b} \cup Branch(Prev[b])  BY <3>1, BranchIs
    <3>3. Ancestors(b) = {b} \cup Ancestors(Prev[b])  BY <2>2, AncestorsIs
    <3> QED  BY <3>1, <3>2, <3>3
  <2> QED  BY <2>1, <2>2
<1>2. S \subseteq P
  <2> HIDE DEF P
  <2> QED  BY <1>1, ByLinks
<1> QED  BY <1>2

-----------------------------------------------------------------------------
(* Lists of blocks by height.                                              *)

Ordered(s) == \A i, j \in DOMAIN s : i < j => Height[s[i]] <= Height[s[j]]
Listings(S) == {s \in [1 .. Cardinality(S) -> S] : ToSet(s) = S /\ Ordered(s)}

(* Every set of blocks can be listed by height.                            *)
LEMMA CanList ==
  ASSUME NEW S \in SUBSET Block
  PROVE  Listings(S) # {} /\ Cardinality(S) \in Nat
<1>1. IsFiniteSet(S) /\ Cardinality(S) \in Nat
  BY ChainAssumption, FS_Subset, FS_CardinalityType
<1> DEFINE P == {k \in 0 .. Cardinality(S) :
                   \A T \in SUBSET S : Cardinality(T) = k => Listings(T) # {}}
<1>2. 0 \in P
  <2>1. ASSUME NEW T \in SUBSET S, Cardinality(T) = 0 PROVE Listings(T) # {}
    <3>1. IsFiniteSet(T)  BY <1>1, FS_Subset
    <3>2. T = {}  BY <2>1, <3>1, FS_EmptySet
    <3> DEFINE s == [i \in 1 .. 0 |-> Genesis]
    <3>3. 1 .. 0 = {}  OBVIOUS
    <3>4. s \in [1 .. 0 -> T] /\ ToSet(s) = T /\ Ordered(s)
      BY <3>2, <3>3 DEF ToSet, Ordered
    <3> HIDE DEF s
    <3> QED  BY <2>1, <3>4 DEF Listings
  <2> QED  BY <1>1, <2>1
<1>3. ASSUME NEW k \in 1 .. Cardinality(S), k - 1 \in P PROVE k \in P
  <2>1. ASSUME NEW T \in SUBSET S, Cardinality(T) = k PROVE Listings(T) # {}
    <3>1. IsFiniteSet(T)  BY <1>1, FS_Subset
    <3>2. T # {}  BY <1>1, <2>1, <3>1, FS_EmptySet
    <3> DEFINE x == Highest(T)
    <3>3. x \in T /\ \A c \in T : Height[x] >= Height[c]  BY <3>2, Highests
    <3> HIDE DEF x
    <3>4. Cardinality(T \ {x}) = k - 1  BY <2>1, <3>1, <3>3, FS_RemoveElement
    <3>5. Listings(T \ {x}) # {}  BY <1>3, <3>4
    <3>6. PICK r \in [1 .. (k - 1) -> T \ {x}] : ToSet(r) = T \ {x} /\ Ordered(r)
      BY <3>4, <3>5 DEF Listings
    <3> DEFINE s == [i \in 1 .. k |-> IF i = k THEN x ELSE r[i]]
    <3>7. k \in Nat /\ k \in 1 .. k /\ 1 .. k = (1 .. (k - 1)) \cup {k}
      BY <1>1
    <3>8. \A i \in 1 .. (k - 1) : i # k /\ r[i] \in T /\ s[i] = r[i]  BY <3>6, <3>7
    <3>9. s[k] = x /\ s \in [1 .. k -> T]  BY <3>3, <3>7, <3>8
    <3>10. ToSet(s) = T
      <4>1. \A y \in T \ {x} : \E i \in 1 .. (k - 1) : r[i] = y  BY <3>6 DEF ToSet
      <4>2. \A y \in T : \E i \in 1 .. k : s[i] = y  BY <3>7, <3>8, <3>9, <4>1
      <4> HIDE DEF s
      <4> QED  BY <3>9, <4>2 DEF ToSet
    <3>11. Ordered(s)
      <4> SUFFICES ASSUME NEW i \in 1 .. k, NEW j \in 1 .. k, i < j
                   PROVE  Height[s[i]] <= Height[s[j]]
        BY <3>9 DEF Ordered
      <4>1. i \in 1 .. (k - 1)  BY <3>7
      <4>2. CASE j = k  BY <3>3, <3>8, <3>9, <4>1, <4>2
      <4>3. CASE j # k
        <5>1. j \in 1 .. (k - 1) /\ DOMAIN r = 1 .. (k - 1)  BY <3>6, <3>7, <4>3
        <5>2. Height[r[i]] <= Height[r[j]]  BY <3>6, <4>1, <5>1 DEF Ordered
        <5> QED  BY <3>8, <4>1, <5>1, <5>2
      <4> QED  BY <4>2, <4>3
    <3> HIDE DEF s
    <3> QED  BY <2>1, <3>9, <3>10, <3>11 DEF Listings
  <2> QED  BY <1>1, <2>1
<1> HIDE DEF P
<1>4. \A k \in 0 .. Cardinality(S) : k \in P  BY <1>1, <1>2, <1>3, UpTo
<1>5. Cardinality(S) \in P  BY <1>1, <1>4
<1> QED  BY <1>1, <1>5 DEF P

(* Ascending lists them.                                                   *)
LEMMA AscendingLists ==
  ASSUME NEW S \in SUBSET Block
  PROVE  /\ Ascending(S) \in Seq(S) /\ Len(Ascending(S)) = Cardinality(S)
         /\ ToSet(Ascending(S)) = S
         /\ Ordered(Ascending(S))
<1>1. Listings(S) # {} /\ Cardinality(S) \in Nat  BY CanList
<1>2. Ascending(S) = CHOOSE s \in [1 .. Cardinality(S) -> S] : ToSet(s) = S /\ Ordered(s)
  BY DEF Ascending, Ordered
<1>3. \E s \in [1 .. Cardinality(S) -> S] : ToSet(s) = S /\ Ordered(s)
  BY <1>1 DEF Listings
<1>4. /\ Ascending(S) \in [1 .. Cardinality(S) -> S]
      /\ ToSet(Ascending(S)) = S /\ Ordered(Ascending(S))
  BY <1>2, <1>3
<1> QED  BY <1>1, <1>4

-----------------------------------------------------------------------------
(* The coin and transaction databases through a block.                     *)

CoinMap == [Tx -> Tx \cup {None}]
RefMap == [Tx -> (0 .. MaxHeight) \cup {None}]
SpendState == [ok : BOOLEAN, outs : CoinMap]
UndoState == [coin : CoinMap, refs : RefMap]

(* The elements of a list of transactions.                                 *)
LEMMA Lists ==
  ASSUME NEW s \in Seq(Tx)
  PROVE  /\ Len(s) \in Nat /\ DOMAIN s = 1 .. Len(s)
         /\ \A i \in 1 .. Len(s) : s[i] \in Tx
  OBVIOUS

(* Marking the inputs of a transaction, one after the other.               *)
LEMMA MarkInputsRuns ==
  ASSUME NEW c \in CoinMap, NEW t \in Tx
  PROVE  \E run \in [0 .. Len(Vin[t]) -> CoinMap] :
           /\ run[0] = c
           /\ \A k \in 1 .. Len(Vin[t]) :
                run[k] = [run[k - 1] EXCEPT ![Vin[t][k]] = t]
           /\ MarkInputs(c, t) = run[Len(Vin[t])]
<1> DEFINE s == Vin[t]
           n == Len(s)
           Fold(h) == h = [x \in SUBSET DOMAIN s |-> IF x = {} THEN c
                             ELSE [h[x \ {Max(x)}] EXCEPT ![s[Max(x)]] = t]]
           I == CHOOSE h : Fold(h)
           F == [i \in 1 .. n |-> [a \in CoinMap |-> [a EXCEPT ![s[i]] = t]]]
<1>1. MarkInputs(c, t) = I[DOMAIN s]
  BY DEF MarkInputs, FoldLeft, MapThenFoldSet
<1>2. s \in Seq(Tx)  BY ChainAssumption
<1> HIDE DEF s
<1>3. n \in Nat /\ DOMAIN s = 1 .. n /\ \A i \in 1 .. n : s[i] \in Tx
  BY <1>2, Lists
<1>n. n \in Nat  BY <1>3
<1> HIDE DEF n
<1>b. c \in CoinMap  OBVIOUS
<1>c. ASSUME NEW i \in 1 .. n, NEW a \in CoinMap
      PROVE  [a EXCEPT ![s[i]] = t] \in CoinMap
  BY <1>3 DEF CoinMap
<1>4. F \in [1 .. n -> [CoinMap -> CoinMap]]  BY <1>c
<1>5. \A i \in 1 .. n : \A a \in CoinMap : F[i][a] = [a EXCEPT ![s[i]] = t]
  OBVIOUS
<1> HIDE DEF F, Fold, I
<1>6. PICK g \in [SUBSET (1 .. n) -> CoinMap] : IsLeftFold(g, n, c, F)
  BY <1>n, <1>b, <1>4, FoldsLeft
<1>7. ASSUME NEW x \in SUBSET (1 .. n), x # {}
      PROVE  Max(x) \in 1 .. n /\ x \ {Max(x)} \in SUBSET (1 .. n)
  BY <1>n, <1>7, MaxIn
<1>8. Fold(g)
  <2>1. \A x \in SUBSET (1 .. n) : x # {} =>
          g[x] = [g[x \ {Max(x)}] EXCEPT ![s[Max(x)]] = t]
    BY <1>5, <1>6, <1>7 DEF IsLeftFold
  <2>2. g[{}] = c  BY <1>6 DEF IsLeftFold
  <2> QED  BY <1>3, <1>6, <2>1, <2>2 DEF Fold
<1>9. Fold(I)  BY <1>8 DEF I
<1>10. I[{}] = c /\ \A x \in SUBSET (1 .. n) : x # {} =>
         I[x] = [I[x \ {Max(x)}] EXCEPT ![s[Max(x)]] = t]
  BY <1>3, <1>9 DEF Fold
<1>11. ASSUME NEW k \in 1 .. n
       PROVE  I[1 .. k] = [I[1 .. (k - 1)] EXCEPT ![s[k]] = t]
  <2>1. /\ 1 .. k \in SUBSET (1 .. n) /\ 1 .. k # {}
        /\ Max(1 .. k) = k /\ (1 .. k) \ {k} = 1 .. (k - 1)
    BY <1>n, Prefix
  <2> QED  BY <1>10, <2>1
<1>12. ASSUME NEW k \in 1 .. n, I[1 .. (k - 1)] \in CoinMap PROVE I[1 .. k] \in CoinMap
  <2>1. I[1 .. k] = [I[1 .. (k - 1)] EXCEPT ![s[k]] = t]  BY <1>11
  <2> QED  BY <1>c, <1>12, <2>1
<1>13. \A k \in 0 .. n : I[1 .. k] \in CoinMap
  BY <1>n, <1>b, <1>10, <1>12, RunLeft
<1> DEFINE run == [k \in 0 .. n |-> I[1 .. k]]
<1>14. run \in [0 .. n -> CoinMap] /\ run[0] = c /\ run[n] = I[DOMAIN s]
  <2>1. 1 .. 0 = {} /\ 0 \in 0 .. n /\ n \in 0 .. n  BY <1>n
  <2> QED  BY <1>3, <1>10, <1>13, <2>1
<1>15. ASSUME NEW k \in 1 .. n PROVE run[k] = [run[k - 1] EXCEPT ![s[k]] = t]
  <2>1. k \in 0 .. n /\ k - 1 \in 0 .. n  BY <1>n
  <2> QED  BY <1>11, <2>1
<1> HIDE DEF run
<1>16. Len(Vin[t]) = n /\ Vin[t] = s  BY DEF n, s
<1> QED  BY <1>1, <1>14, <1>15, <1>16

(* It leaves a coin database.                                              *)
LEMMA MarkInputsTyped ==
  ASSUME NEW c \in CoinMap, NEW t \in Tx
  PROVE  MarkInputs(c, t) \in CoinMap
<1>1. Len(Vin[t]) \in Nat  BY ChainAssumption
<1>2. Len(Vin[t]) \in 0 .. Len(Vin[t])  BY <1>1
<1> QED  BY <1>2, MarkInputsRuns

(* Marking those of a block.                                               *)
LEMMA MarkBlockRuns ==
  ASSUME NEW b \in Block, NEW pool, coin \in CoinMap
  PROVE  \E run \in [0 .. Len(Vtx[b]) -> CoinMap] :
           /\ run[0] = coin
           /\ \A k \in 1 .. Len(Vtx[b]) :
                run[k] = MarkInputs(run[k - 1], Vtx[b][k])
           /\ UpdateBlockCoins(b, pool) \in {run[Len(Vtx[b])], coin}
<1> DEFINE s == Vtx[b]
           n == Len(s)
           Fold(h) == h = [x \in SUBSET DOMAIN s |-> IF x = {} THEN coin
                             ELSE MarkInputs(h[x \ {Max(x)}], s[Max(x)])]
           I == CHOOSE h : Fold(h)
           F == [i \in 1 .. n |-> [a \in CoinMap |-> MarkInputs(a, s[i])]]
<1>1. UpdateBlockCoins(b, pool) \in {I[DOMAIN s], coin}
  BY DEF UpdateBlockCoins, FoldLeft, MapThenFoldSet
<1>2. s \in Seq(Tx)  BY ChainAssumption
<1> HIDE DEF s
<1>3. n \in Nat /\ DOMAIN s = 1 .. n /\ \A i \in 1 .. n : s[i] \in Tx
  BY <1>2, Lists
<1>n. n \in Nat  BY <1>3
<1> HIDE DEF n
<1>b. coin \in CoinMap  OBVIOUS
<1>c. ASSUME NEW i \in 1 .. n, NEW a \in CoinMap
      PROVE  MarkInputs(a, s[i]) \in CoinMap
  BY <1>3, MarkInputsTyped
<1>4. F \in [1 .. n -> [CoinMap -> CoinMap]]  BY <1>c
<1>5. \A i \in 1 .. n : \A a \in CoinMap : F[i][a] = MarkInputs(a, s[i])
  OBVIOUS
<1> HIDE DEF F, Fold, I
<1>6. PICK g \in [SUBSET (1 .. n) -> CoinMap] : IsLeftFold(g, n, coin, F)
  BY <1>n, <1>b, <1>4, FoldsLeft
<1>7. ASSUME NEW x \in SUBSET (1 .. n), x # {}
      PROVE  Max(x) \in 1 .. n /\ x \ {Max(x)} \in SUBSET (1 .. n)
  BY <1>n, <1>7, MaxIn
<1>8. Fold(g)
  <2>1. \A x \in SUBSET (1 .. n) : x # {} =>
          g[x] = MarkInputs(g[x \ {Max(x)}], s[Max(x)])
    BY <1>5, <1>6, <1>7 DEF IsLeftFold
  <2>2. g[{}] = coin  BY <1>6 DEF IsLeftFold
  <2> QED  BY <1>3, <1>6, <2>1, <2>2 DEF Fold
<1>9. Fold(I)  BY <1>8 DEF I
<1>10. I[{}] = coin /\ \A x \in SUBSET (1 .. n) : x # {} =>
         I[x] = MarkInputs(I[x \ {Max(x)}], s[Max(x)])
  BY <1>3, <1>9 DEF Fold
<1>11. ASSUME NEW k \in 1 .. n
       PROVE  I[1 .. k] = MarkInputs(I[1 .. (k - 1)], s[k])
  <2>1. /\ 1 .. k \in SUBSET (1 .. n) /\ 1 .. k # {}
        /\ Max(1 .. k) = k /\ (1 .. k) \ {k} = 1 .. (k - 1)
    BY <1>n, Prefix
  <2> QED  BY <1>10, <2>1
<1>12. ASSUME NEW k \in 1 .. n, I[1 .. (k - 1)] \in CoinMap PROVE I[1 .. k] \in CoinMap
  BY <1>c, <1>11, <1>12
<1>13. \A k \in 0 .. n : I[1 .. k] \in CoinMap
  BY <1>n, <1>b, <1>10, <1>12, RunLeft
<1> DEFINE run == [k \in 0 .. n |-> I[1 .. k]]
<1>14. run \in [0 .. n -> CoinMap] /\ run[0] = coin /\ run[n] = I[DOMAIN s]
  <2>1. 1 .. 0 = {} /\ 0 \in 0 .. n /\ n \in 0 .. n  BY <1>n
  <2> QED  BY <1>3, <1>10, <1>13, <2>1
<1>15. ASSUME NEW k \in 1 .. n PROVE run[k] = MarkInputs(run[k - 1], s[k])
  <2>1. k \in 0 .. n /\ k - 1 \in 0 .. n  BY <1>n
  <2> QED  BY <1>11, <2>1
<1> HIDE DEF run
<1>16. Len(Vtx[b]) = n /\ Vtx[b] = s  BY DEF n, s
<1> QED  BY <1>1, <1>14, <1>15, <1>16

(* UpdateBlockCoins gives up or does this.                                 *)
LEMMA UpdateBlockCoinsTyped ==
  ASSUME NEW b \in Block, NEW pool, coin \in CoinMap
  PROVE  UpdateBlockCoins(b, pool) \in CoinMap
<1>1. Len(Vtx[b]) \in Nat  BY ChainAssumption
<1>2. Len(Vtx[b]) \in 0 .. Len(Vtx[b])  BY <1>1
<1> QED  BY <1>2, MarkBlockRuns

(* The verdict and the marks after each input of a transaction.            *)
SpendRun(b, pool, r, t, run) ==
  /\ run[0] = r
  /\ \A k \in 1 .. Len(Vin[t]) :
       run[k] = [ok |-> run[k - 1].ok /\ Spendable(b, t, Vin[t][k], run[k - 1].outs, pool),
                 outs |-> [run[k - 1].outs EXCEPT ![Vin[t][k]] = t]]

(* Spending the inputs of a transaction.                                   *)
LEMMA SpendInputsRuns ==
  ASSUME NEW b, NEW pool, NEW r \in SpendState, NEW t \in Tx
  PROVE  \E run \in [0 .. Len(Vin[t]) -> SpendState] :
           /\ SpendRun(b, pool, r, t, run)
           /\ SpendInputs(b, pool, r, t) = run[Len(Vin[t])]
<1> DEFINE s == Vin[t]
           n == Len(s)
           Fold(h) == h = [x \in SUBSET DOMAIN s |-> IF x = {} THEN r
                             ELSE [ok |-> h[x \ {Max(x)}].ok /\ Spendable(b, t, s[Max(x)], h[x \ {Max(x)}].outs, pool),
                outs |-> [h[x \ {Max(x)}].outs EXCEPT ![s[Max(x)]] = t]]]
           I == CHOOSE h : Fold(h)
           F == [i \in 1 .. n |-> [a \in SpendState |-> [ok |-> a.ok /\ Spendable(b, t, s[i], a.outs, pool),
                outs |-> [a.outs EXCEPT ![s[i]] = t]]]]
<1>1. SpendInputs(b, pool, r, t) = I[DOMAIN s]
  BY DEF SpendInputs, FoldLeft, MapThenFoldSet
<1>2. s \in Seq(Tx)  BY ChainAssumption
<1> HIDE DEF s
<1>3. n \in Nat /\ DOMAIN s = 1 .. n /\ \A i \in 1 .. n : s[i] \in Tx
  BY <1>2, Lists
<1>n. n \in Nat  BY <1>3
<1> HIDE DEF n
<1>b. r \in SpendState  OBVIOUS
<1>c. ASSUME NEW i \in 1 .. n, NEW a \in SpendState
      PROVE  [ok |-> a.ok /\ Spendable(b, t, s[i], a.outs, pool),
                outs |-> [a.outs EXCEPT ![s[i]] = t]] \in SpendState
  <2>1. [a.outs EXCEPT ![s[i]] = t] \in CoinMap  BY <1>3 DEF SpendState, CoinMap
  <2>2. (a.ok /\ Spendable(b, t, s[i], a.outs, pool)) \in BOOLEAN  OBVIOUS
  <2> QED  BY <2>1, <2>2 DEF SpendState
<1>4. F \in [1 .. n -> [SpendState -> SpendState]]  BY <1>c
<1>5. \A i \in 1 .. n : \A a \in SpendState : F[i][a] = [ok |-> a.ok /\ Spendable(b, t, s[i], a.outs, pool),
                outs |-> [a.outs EXCEPT ![s[i]] = t]]
  OBVIOUS
<1> HIDE DEF F, Fold, I
<1>6. PICK g \in [SUBSET (1 .. n) -> SpendState] : IsLeftFold(g, n, r, F)
  BY <1>n, <1>b, <1>4, FoldsLeft
<1>7. ASSUME NEW x \in SUBSET (1 .. n), x # {}
      PROVE  Max(x) \in 1 .. n /\ x \ {Max(x)} \in SUBSET (1 .. n)
  BY <1>n, <1>7, MaxIn
<1>8. Fold(g)
  <2>1. \A x \in SUBSET (1 .. n) : x # {} =>
          g[x] = [ok |-> g[x \ {Max(x)}].ok /\ Spendable(b, t, s[Max(x)], g[x \ {Max(x)}].outs, pool),
                outs |-> [g[x \ {Max(x)}].outs EXCEPT ![s[Max(x)]] = t]]
    BY <1>5, <1>6, <1>7 DEF IsLeftFold
  <2>2. g[{}] = r  BY <1>6 DEF IsLeftFold
  <2> QED  BY <1>3, <1>6, <2>1, <2>2 DEF Fold
<1>9. Fold(I)  BY <1>8 DEF I
<1>10. I[{}] = r /\ \A x \in SUBSET (1 .. n) : x # {} =>
         I[x] = [ok |-> I[x \ {Max(x)}].ok /\ Spendable(b, t, s[Max(x)], I[x \ {Max(x)}].outs, pool),
                outs |-> [I[x \ {Max(x)}].outs EXCEPT ![s[Max(x)]] = t]]
  BY <1>3, <1>9 DEF Fold
<1>11. ASSUME NEW k \in 1 .. n
       PROVE  I[1 .. k] = [ok |-> I[1 .. (k - 1)].ok /\ Spendable(b, t, s[k], I[1 .. (k - 1)].outs, pool),
                          outs |-> [I[1 .. (k - 1)].outs EXCEPT ![s[k]] = t]]
  <2>1. /\ 1 .. k \in SUBSET (1 .. n) /\ 1 .. k # {}
        /\ Max(1 .. k) = k /\ (1 .. k) \ {k} = 1 .. (k - 1)
    BY <1>n, Prefix
  <2> QED  BY <1>10, <2>1
<1>12. ASSUME NEW k \in 1 .. n, I[1 .. (k - 1)] \in SpendState PROVE I[1 .. k] \in SpendState
  BY <1>c, <1>11, <1>12
<1>13. \A k \in 0 .. n : I[1 .. k] \in SpendState
  BY <1>n, <1>b, <1>10, <1>12, RunLeft
<1> DEFINE run == [k \in 0 .. n |-> I[1 .. k]]
<1>14. run \in [0 .. n -> SpendState] /\ run[0] = r /\ run[n] = I[DOMAIN s]
  <2>1. 1 .. 0 = {} /\ 0 \in 0 .. n /\ n \in 0 .. n  BY <1>n
  <2> QED  BY <1>3, <1>10, <1>13, <2>1
<1>15. ASSUME NEW k \in 1 .. n PROVE run[k] = [ok |-> run[k - 1].ok /\ Spendable(b, t, s[k], run[k - 1].outs, pool),
                          outs |-> [run[k - 1].outs EXCEPT ![s[k]] = t]]
  <2>1. k \in 0 .. n /\ k - 1 \in 0 .. n  BY <1>n
  <2> QED  BY <1>11, <2>1
<1> HIDE DEF run
<1>16. Len(Vin[t]) = n /\ Vin[t] = s  BY DEF n, s
<1>17. SpendRun(b, pool, r, t, run)  BY <1>14, <1>15, <1>16 DEF SpendRun
<1> QED  BY <1>1, <1>14, <1>16, <1>17

(* It gives a verdict and a coin database.                                 *)
LEMMA SpendInputsTyped ==
  ASSUME NEW b, NEW pool, NEW r \in SpendState, NEW t \in Tx
  PROVE  SpendInputs(b, pool, r, t) \in SpendState
<1>1. Len(Vin[t]) \in Nat  BY ChainAssumption
<1>2. Len(Vin[t]) \in 0 .. Len(Vin[t])  BY <1>1
<1>3. PICK run \in [0 .. Len(Vin[t]) -> SpendState] :
        SpendInputs(b, pool, r, t) = run[Len(Vin[t])]
  BY SpendInputsRuns
<1> QED  BY <1>2, <1>3

(* Spending the inputs of a block.                                         *)
LEMMA ConnectInputsRuns ==
  ASSUME NEW b \in Block, NEW pool, coin \in CoinMap
  PROVE  \E run \in [0 .. Len(Vtx[b]) -> SpendState] :
           /\ run[0] = [ok |-> TRUE, outs |-> coin]
           /\ \A k \in 1 .. Len(Vtx[b]) :
                run[k] = SpendInputs(b, pool, run[k - 1], Vtx[b][k])
           /\ ConnectInputs(b, pool) = run[Len(Vtx[b])]
<1> DEFINE s == Vtx[b]
           n == Len(s)
           Fold(h) == h = [x \in SUBSET DOMAIN s |-> IF x = {} THEN [ok |-> TRUE, outs |-> coin]
                             ELSE SpendInputs(b, pool, h[x \ {Max(x)}], s[Max(x)])]
           I == CHOOSE h : Fold(h)
           F == [i \in 1 .. n |-> [a \in SpendState |-> SpendInputs(b, pool, a, s[i])]]
<1>1. ConnectInputs(b, pool) = I[DOMAIN s]
  BY DEF ConnectInputs, FoldLeft, MapThenFoldSet
<1>2. s \in Seq(Tx)  BY ChainAssumption
<1> HIDE DEF s
<1>3. n \in Nat /\ DOMAIN s = 1 .. n /\ \A i \in 1 .. n : s[i] \in Tx
  BY <1>2, Lists
<1>n. n \in Nat  BY <1>3
<1> HIDE DEF n
<1>b. [ok |-> TRUE, outs |-> coin] \in SpendState  BY DEF SpendState
<1>c. ASSUME NEW i \in 1 .. n, NEW a \in SpendState
      PROVE  SpendInputs(b, pool, a, s[i]) \in SpendState
  BY <1>3, SpendInputsTyped
<1>4. F \in [1 .. n -> [SpendState -> SpendState]]  BY <1>c
<1>5. \A i \in 1 .. n : \A a \in SpendState : F[i][a] = SpendInputs(b, pool, a, s[i])
  OBVIOUS
<1> HIDE DEF F, Fold, I
<1>6. PICK g \in [SUBSET (1 .. n) -> SpendState] : IsLeftFold(g, n, [ok |-> TRUE, outs |-> coin], F)
  BY <1>n, <1>b, <1>4, FoldsLeft
<1>7. ASSUME NEW x \in SUBSET (1 .. n), x # {}
      PROVE  Max(x) \in 1 .. n /\ x \ {Max(x)} \in SUBSET (1 .. n)
  BY <1>n, <1>7, MaxIn
<1>8. Fold(g)
  <2>1. \A x \in SUBSET (1 .. n) : x # {} =>
          g[x] = SpendInputs(b, pool, g[x \ {Max(x)}], s[Max(x)])
    BY <1>5, <1>6, <1>7 DEF IsLeftFold
  <2>2. g[{}] = [ok |-> TRUE, outs |-> coin]  BY <1>6 DEF IsLeftFold
  <2> QED  BY <1>3, <1>6, <2>1, <2>2 DEF Fold
<1>9. Fold(I)  BY <1>8 DEF I
<1>10. I[{}] = [ok |-> TRUE, outs |-> coin] /\ \A x \in SUBSET (1 .. n) : x # {} =>
         I[x] = SpendInputs(b, pool, I[x \ {Max(x)}], s[Max(x)])
  BY <1>3, <1>9 DEF Fold
<1>11. ASSUME NEW k \in 1 .. n
       PROVE  I[1 .. k] = SpendInputs(b, pool, I[1 .. (k - 1)], s[k])
  <2>1. /\ 1 .. k \in SUBSET (1 .. n) /\ 1 .. k # {}
        /\ Max(1 .. k) = k /\ (1 .. k) \ {k} = 1 .. (k - 1)
    BY <1>n, Prefix
  <2> QED  BY <1>10, <2>1
<1>12. ASSUME NEW k \in 1 .. n, I[1 .. (k - 1)] \in SpendState PROVE I[1 .. k] \in SpendState
  BY <1>c, <1>11, <1>12
<1>13. \A k \in 0 .. n : I[1 .. k] \in SpendState
  BY <1>n, <1>b, <1>10, <1>12, RunLeft
<1> DEFINE run == [k \in 0 .. n |-> I[1 .. k]]
<1>14. run \in [0 .. n -> SpendState] /\ run[0] = [ok |-> TRUE, outs |-> coin] /\ run[n] = I[DOMAIN s]
  <2>1. 1 .. 0 = {} /\ 0 \in 0 .. n /\ n \in 0 .. n  BY <1>n
  <2> QED  BY <1>3, <1>10, <1>13, <2>1
<1>15. ASSUME NEW k \in 1 .. n PROVE run[k] = SpendInputs(b, pool, run[k - 1], s[k])
  <2>1. k \in 0 .. n /\ k - 1 \in 0 .. n  BY <1>n
  <2> QED  BY <1>11, <2>1
<1> HIDE DEF run
<1>16. Len(Vtx[b]) = n /\ Vtx[b] = s  BY DEF n, s
<1> QED  BY <1>1, <1>14, <1>15, <1>16

(* ConnectInputs gives a verdict and a coin database.                      *)
LEMMA ConnectInputsTyped ==
  ASSUME NEW b \in Block, NEW pool, coin \in CoinMap
  PROVE  ConnectInputs(b, pool) \in SpendState
<1>1. Len(Vtx[b]) \in Nat  BY ChainAssumption
<1>2. Len(Vtx[b]) \in 0 .. Len(Vtx[b])  BY <1>1
<1> QED  BY <1>2, ConnectInputsRuns

(* Disconnecting a transaction and the transactions of a block.            *)
LEMMA DisconnectInputsTyped ==
  ASSUME NEW t \in Tx, NEW r \in UndoState, NEW pool
  PROVE  DisconnectInputs(t, r, pool) \in UndoState
<1>1. r.coin \in CoinMap /\ r.refs \in RefMap  BY DEF UndoState
<1>2. [r.refs EXCEPT ![t] = None] \in RefMap  BY <1>1 DEF RefMap
<1> DEFINE found == FillInputs(t, r.refs, pool)
           c == [p \in Tx |-> IF p = t \/ p \in found THEN None ELSE r.coin[p]]
<1> HIDE DEF found
<1>3. c \in CoinMap  BY <1>1 DEF CoinMap
<1>4. DisconnectInputs(t, r, pool) = [coin |-> c, refs |-> [r.refs EXCEPT ![t] = None]]
  BY DEF DisconnectInputs, found
<1> HIDE DEF c
<1> QED  BY <1>2, <1>3, <1>4 DEF UndoState

(* Disconnecting the transactions of a block, the last one first.          *)
LEMMA DisconnectTxsRuns ==
  ASSUME NEW b \in Block, NEW pool, coin \in CoinMap, txdb \in RefMap
  PROVE  \E run \in [1 .. (Len(Vtx[b]) + 1) -> UndoState] :
           /\ run[Len(Vtx[b]) + 1] = [coin |-> coin, refs |-> txdb]
           /\ \A k \in 1 .. Len(Vtx[b]) :
                run[k] = DisconnectInputs(Vtx[b][k], run[k + 1], pool)
           /\ DisconnectTxs(b, pool) = run[1]
<1> DEFINE s == Vtx[b]
           n == Len(s)
           Fold(h) == h = [x \in SUBSET DOMAIN s |-> IF x = {} THEN [coin |-> coin, refs |-> txdb]
                             ELSE DisconnectInputs(s[Min(x)], h[x \ {Min(x)}], pool)]
           I == CHOOSE h : Fold(h)
           F == [i \in 1 .. n |-> [a \in UndoState |-> DisconnectInputs(s[i], a, pool)]]
<1>1. DisconnectTxs(b, pool) = I[DOMAIN s]
  BY DEF DisconnectTxs, FoldRight, MapThenFoldSet
<1>2. s \in Seq(Tx)  BY ChainAssumption
<1> HIDE DEF s
<1>3. n \in Nat /\ DOMAIN s = 1 .. n /\ \A i \in 1 .. n : s[i] \in Tx
  BY <1>2, Lists
<1>n. n \in Nat  BY <1>3
<1> HIDE DEF n
<1>b. [coin |-> coin, refs |-> txdb] \in UndoState  BY DEF UndoState
<1>c. ASSUME NEW i \in 1 .. n, NEW a \in UndoState
      PROVE  DisconnectInputs(s[i], a, pool) \in UndoState
  BY <1>3, DisconnectInputsTyped
<1>4. F \in [1 .. n -> [UndoState -> UndoState]]  BY <1>c
<1>5. \A i \in 1 .. n : \A a \in UndoState : F[i][a] = DisconnectInputs(s[i], a, pool)
  OBVIOUS
<1> HIDE DEF F, Fold, I
<1>6. PICK g \in [SUBSET (1 .. n) -> UndoState] : IsRightFold(g, n, [coin |-> coin, refs |-> txdb], F)
  BY <1>n, <1>b, <1>4, FoldsRight
<1>7. ASSUME NEW x \in SUBSET (1 .. n), x # {}
      PROVE  Min(x) \in 1 .. n /\ x \ {Min(x)} \in SUBSET (1 .. n)
  <2>1. x \in SUBSET Nat  OBVIOUS
  <2> QED  BY <1>7, <2>1, MinIn
<1>8. Fold(g)
  <2>1. \A x \in SUBSET (1 .. n) : x # {} =>
          g[x] = DisconnectInputs(s[Min(x)], g[x \ {Min(x)}], pool)
    BY <1>5, <1>6, <1>7 DEF IsRightFold
  <2>2. g[{}] = [coin |-> coin, refs |-> txdb]  BY <1>6 DEF IsRightFold
  <2> QED  BY <1>3, <1>6, <2>1, <2>2 DEF Fold
<1>9. Fold(I)  BY <1>8 DEF I
<1>10. I[{}] = [coin |-> coin, refs |-> txdb] /\ \A x \in SUBSET (1 .. n) : x # {} =>
         I[x] = DisconnectInputs(s[Min(x)], I[x \ {Min(x)}], pool)
  BY <1>3, <1>9 DEF Fold
<1>11. ASSUME NEW k \in 1 .. n
       PROVE  I[k .. n] = DisconnectInputs(s[k], I[(k + 1) .. n], pool)
  <2>1. /\ k .. n \in SUBSET (1 .. n) /\ k .. n # {}
        /\ Min(k .. n) = k /\ (k .. n) \ {k} = (k + 1) .. n
    BY <1>n, Suffix
  <2> QED  BY <1>10, <2>1
<1>12. ASSUME NEW k \in 1 .. n, I[(k + 1) .. n] \in UndoState PROVE I[k .. n] \in UndoState
  BY <1>c, <1>11, <1>12
<1>13. \A k \in 1 .. (n + 1) : I[k .. n] \in UndoState
  BY <1>n, <1>b, <1>10, <1>12, RunRight
<1> DEFINE run == [k \in 1 .. (n + 1) |-> I[k .. n]]
<1>14. run \in [1 .. (n + 1) -> UndoState] /\ run[n + 1] = [coin |-> coin, refs |-> txdb] /\ run[1] = I[DOMAIN s]
  <2>1. (n + 1) .. n = {} /\ n + 1 \in 1 .. (n + 1) /\ 1 \in 1 .. (n + 1)  BY <1>n
  <2> QED  BY <1>3, <1>10, <1>13, <2>1
<1>15. ASSUME NEW k \in 1 .. n PROVE run[k] = DisconnectInputs(s[k], run[k + 1], pool)
  <2>1. k \in 1 .. (n + 1) /\ k + 1 \in 1 .. (n + 1)  BY <1>n
  <2> QED  BY <1>11, <2>1
<1> HIDE DEF run
<1>16. Len(Vtx[b]) = n /\ Vtx[b] = s  BY DEF n, s
<1> QED  BY <1>1, <1>14, <1>15, <1>16

(* Disconnecting all transactions of a block leaves both databases typed.  *)
LEMMA DisconnectTxsTyped ==
  ASSUME NEW b \in Block, NEW pool, coin \in CoinMap, txdb \in RefMap
  PROVE  DisconnectTxs(b, pool) \in UndoState
<1>1. Len(Vtx[b]) \in Nat  BY ChainAssumption
<1>2. 1 \in 1 .. (Len(Vtx[b]) + 1)  BY <1>1
<1> QED  BY <1>2, DisconnectTxsRuns

-----------------------------------------------------------------------------
(* The type invariant, with what it needs: the index is a tree on the      *)
(* genesis block, a block is stored at its height, and the locals of a     *)
(* commit are blocks of the index.                                         *)

IndexOK ==
  /\ Genesis \in index /\ pprev[Genesis] = None
  /\ \A b \in index : b # Genesis =>
       pprev[b] \in index /\ Height[pprev[b]] < Height[b]

DbOK ==
  /\ blkdb[0] = Genesis
  /\ \A k \in 0 .. MaxHeight : blkdb[k] # None => Height[blkdb[k]] = k

JobType ==
  [new : Block \cup {None}, con : SUBSET Block, discon : SUBSET Block,
   conLeft : SUBSET Block, disconLeft : SUBSET Block, spent : BOOLEAN,
   last : Block \cup {None}, fail : Block \cup {None}]

JobOK ==
  /\ job \in JobType
  /\ job.con \cup job.discon \cup job.conLeft \cup job.disconLeft
       \subseteq index \ {Genesis}
  /\ job = NoJob \/ (job.new \in index /\ job.last \in index)

TypeInv == TypeOK /\ IndexOK /\ DbOK /\ JobOK

(* The branch of a block of the index.                                     *)
LEMMA BranchInIndex ==
  ASSUME TypeOK, IndexOK
  PROVE  \A b \in index : Branch(b) \subseteq index /\ Genesis \in Branch(b)
<1>1. pprev \in [Block -> Block \cup {None}] /\ index \in SUBSET Block
  BY DEF TypeOK
<1>2. \A b \in Block : Branch(b) =
        IF pprev[b] = None THEN {b} ELSE {b} \cup Branch(pprev[b])
  BY <1>1, BranchIs
<1> DEFINE P == {b \in index : Branch(b) \subseteq index /\ Genesis \in Branch(b)}
<1>3. ASSUME NEW b \in index
      PROVE  b \in P \/ (pprev[b] \in index /\ Height[pprev[b]] < Height[b]
                         /\ (pprev[b] \in P => b \in P))
  <2>1. CASE b = Genesis
    <3>1. Branch(b) = {Genesis}  BY <1>1, <1>2, <2>1 DEF IndexOK
    <3> QED  BY <2>1, <3>1
  <2>2. CASE b # Genesis
    <3>1. pprev[b] \in index /\ Height[pprev[b]] < Height[b] /\ pprev[b] # None
      BY <1>1, <2>2, Tree DEF IndexOK
    <3>2. Branch(b) = {b} \cup Branch(pprev[b])  BY <1>1, <1>2, <3>1
    <3> QED  BY <3>1, <3>2
  <2> QED  BY <2>1, <2>2
<1> HIDE DEF P
<1>4. index \subseteq P  BY <1>1, <1>3, ByLinks
<1> QED  BY <1>4 DEF P

(* The branches of a commit lie in the index with the new block.           *)
LEMMA CommitBranches ==
  ASSUME TypeOK, IndexOK, NEW b \in Block \ {Genesis}, Prev[b] \in index
  PROVE  /\ GetCommitBranches(b).con \subseteq (index \cup {b}) \ {Genesis}
         /\ GetCommitBranches(b).discon \subseteq index \ {Genesis}
<1>1. MainChain \subseteq index /\ Genesis \in MainChain
  BY BranchInIndex DEF MainChain, TypeOK
<1>2. b \in index => Branch(b) \subseteq index /\ Genesis \in Branch(b)
  BY BranchInIndex
<1>3. Branch(Prev[b]) \subseteq index /\ Genesis \in Branch(Prev[b])
  BY BranchInIndex
<1> QED  BY <1>1, <1>2, <1>3 DEF GetCommitBranches

(* Between two commits there are no locals.                                *)
LEMMA NoJobTyped == NoJob \in JobType
  BY DEF NoJob, JobType

(* The heights that are loaded at startup.                                 *)
LEMMA FillTopIs ==
  ASSUME TypeOK, DbOK
  PROVE  /\ FillTop \in 0 .. MaxHeight
         /\ \A k \in 0 .. FillTop : blkdb[k] \in Block
<1> DEFINE there == {k \in 0 .. MaxHeight : \A g \in 0 .. k : blkdb[g] # None}
           tips == {k \in there : blkdb[k] = tip}
           S == IF tips = {} THEN there ELSE tips
<1>1. 0 \in there
  <2>1. \A g \in 0 .. 0 : blkdb[g] # None  BY Tree DEF DbOK
  <2> QED  BY <2>1, Heights
<1>2. S \subseteq there /\ S # {}  BY <1>1
<1>3. S \in SUBSET Nat /\ \A k \in S : k <= MaxHeight  BY <1>2, Heights
<1>4. FillTop = Max(S)  BY DEF FillTop
<1> HIDE DEF S
<1>5. \E x \in S : \A y \in S : x >= y  BY <1>2, <1>3, Heights, Greatest
<1>6. FillTop \in there  BY <1>2, <1>4, <1>5 DEF Max
<1>7. \A k \in 0 .. FillTop : k \in 0 .. MaxHeight  BY <1>6, Heights
<1> QED  BY <1>6, <1>7 DEF TypeOK

(* A block enters the index.                                               *)
LEMMA IndexGrows ==
  ASSUME TypeInv, NEW b \in Block \ {Genesis}, Prev[b] \in index, CreateBlockIndex(b)
  PROVE  /\ index' \in SUBSET Block /\ index \subseteq index' /\ b \in index'
         /\ pprev' \in [Block -> Block \cup {None}]
         /\ cwork' \in [Block -> Nat]
         /\ IndexOK'
<1>1. /\ index \in SUBSET Block /\ pprev \in [Block -> Block \cup {None}]
      /\ cwork \in [Block -> Nat] /\ IndexOK
  BY DEF TypeInv, TypeOK
<1>2. index' = index \cup {b}  BY DEF CreateBlockIndex
<1>3. pprev' \in [Block -> Block \cup {None}]  BY <1>1 DEF CreateBlockIndex
<1>4. cwork' \in [Block -> Nat]
  <2>1. ChainWork(b) \in Nat
    <3>1. Work[b] \in Nat /\ cwork[b] \in Nat /\ cwork[Prev[b]] \in Nat
      BY <1>1, ChainAssumption
    <3> QED  BY <3>1 DEF ChainWork
  <2> QED  BY <1>1, <2>1 DEF CreateBlockIndex
<1>5. IndexOK'
  <2>1. \A c \in index : c # b \/ b \in index => pprev'[c] = pprev[c]
    BY <1>1 DEF CreateBlockIndex
  <2>2. b \notin index => pprev'[b] = Prev[b]  BY <1>1 DEF CreateBlockIndex
  <2>3. Prev[b] \in index /\ Height[Prev[b]] < Height[b]  BY Tree
  <2> QED  BY <1>1, <1>2, <2>1, <2>2, <2>3 DEF IndexOK
<1> QED  BY <1>1, <1>2, <1>3, <1>4, <1>5

(* WriteArchBlock archives a block.                                        *)
LEMMA ArchTyped ==
  ASSUME TypeInv, NEW b \in Block
  PROVE  Archived(b) \subseteq Block
  BY DEF TypeInv, TypeOK, Archived

(* The locals of a commit stay in the index when that grows.               *)
LEMMA SameJob ==
  ASSUME JobOK, job' = job, index \subseteq index'
  PROVE  JobOK'
  BY DEF JobOK

(* A header arrives (core_AcceptBlockHeader).                              *)
LEMMA TypeHeader ==
  ASSUME TypeInv, NEW b \in Block \ {Genesis}, AcceptBlockHeader(b)
  PROVE  TypeInv'
<1>1. /\ Prev[b] \in index /\ CreateBlockIndex(b)
      /\ UNCHANGED <<pnext, status, best, bestWork, orphan, scan, job, disk, crashes, torn>>
  BY DEF AcceptBlockHeader
<1>2. /\ index' \in SUBSET Block /\ index \subseteq index' /\ IndexOK'
      /\ pprev' \in [Block -> Block \cup {None}] /\ cwork' \in [Block -> Nat]
  BY <1>1, IndexGrows
<1>3. JobOK'  BY <1>1, <1>2, SameJob DEF TypeInv
<1>4. TypeOK'  BY <1>1, <1>2 DEF TypeInv, TypeOK, disk
<1>5. DbOK'  BY <1>1 DEF TypeInv, DbOK, disk
<1> QED  BY <1>2, <1>3, <1>4, <1>5 DEF TypeInv

(* A block without predecessor arrives (shc_AddOrphanBlock).               *)
LEMMA TypeOrphan ==
  ASSUME TypeInv, NEW b \in Block \ {Genesis}, AddOrphanBlock(b)
  PROVE  TypeInv'
<1>1. /\ orphan' = [orphan EXCEPT ![Prev[b]] = IF @ = None THEN b ELSE @]
      /\ arch' = Archived(b)
      /\ UNCHANGED <<index, pprev, pnext, cwork, status, best, bestWork, scan, job,
                     blkdb, txdb, coin, tip, crashes, torn>>
  BY DEF AddOrphanBlock
<1>2. orphan' \in [Block -> Block \cup {None}]
  BY <1>1 DEF TypeInv, TypeOK
<1>3. arch' \subseteq Block  BY <1>1, ArchTyped
<1>4. JobOK'  BY <1>1, SameJob DEF TypeInv
<1>5. TypeOK'  BY <1>1, <1>2, <1>3 DEF TypeInv, TypeOK
<1>6. DbOK' /\ IndexOK'  BY <1>1 DEF TypeInv, DbOK, IndexOK
<1> QED  BY <1>4, <1>5, <1>6 DEF TypeInv

(* core_AcceptBlock rejects a block, archives it or starts a commit.       *)
LEMMA TypeAccept ==
  ASSUME TypeInv, NEW b \in Block \ {Genesis},
         AcceptInvalid(b) \/ AcceptSide(b) \/ AcceptBest(b)
  PROVE  TypeInv'
<1>1. /\ Rest /\ Prev[b] \in index /\ CreateBlockIndex(b)
      /\ UNCHANGED <<pnext, best, orphan, scan, blkdb, txdb, coin, crashes, torn>>
  BY DEF AcceptInvalid, AcceptSide, AcceptBest, Accepting, disk
<1>2. /\ index' \in SUBSET Block /\ index \subseteq index' /\ b \in index' /\ IndexOK'
      /\ pprev' \in [Block -> Block \cup {None}] /\ cwork' \in [Block -> Nat]
  BY <1>1, IndexGrows
<1>3. DbOK'  BY <1>1 DEF TypeInv, DbOK
<1>4. SUFFICES /\ status' \in [Block -> SUBSET {"data", "undo", "failed"}]
               /\ arch' \subseteq Block /\ tip' \in Block /\ bestWork' \in Nat /\ JobOK'
  <2>1. TypeOK'  BY <1>1, <1>2, <1>4 DEF TypeInv, TypeOK
  <2> QED  BY <1>2, <1>3, <1>4, <2>1 DEF TypeInv
<1>5. /\ status \in [Block -> SUBSET {"data", "undo", "failed"}]
      /\ arch \subseteq Block /\ tip \in Block /\ bestWork \in Nat /\ JobOK
      /\ best \in index /\ index \subseteq Block /\ cwork[best] \in Nat
  BY DEF TypeInv, TypeOK
<1>6. Archived(b) \subseteq Block  BY ArchTyped
<1>7. CASE AcceptInvalid(b)
  <2>1. UNCHANGED <<job, arch, tip, bestWork>>
        /\ status' = [status EXCEPT ![b] = @ \cup {"failed"}]
    BY <1>7 DEF AcceptInvalid, disk
  <2>2. JobOK'  BY <1>2, <1>5, <2>1, SameJob
  <2>3. status' \in [Block -> SUBSET {"data", "undo", "failed"}]  BY <1>5, <2>1
  <2> QED  BY <1>5, <2>1, <2>2, <2>3
<1>8. CASE AcceptSide(b)
  <2>1. UNCHANGED <<job, tip, bestWork>> /\ arch' = Archived(b)
        /\ status' = [status EXCEPT ![b] = @ \cup {"data", "undo"}]
    BY <1>8 DEF AcceptSide
  <2>2. JobOK'  BY <1>2, <1>5, <2>1, SameJob
  <2>3. status' \in [Block -> SUBSET {"data", "undo", "failed"}]  BY <1>5, <2>1
  <2> QED  BY <1>5, <1>6, <2>1, <2>2, <2>3
<1>9. CASE AcceptBest(b)
  <2> DEFINE r == GetCommitBranches(b)
             new == [NoJob EXCEPT !.new = b, !.con = r.con, !.discon = r.discon,
                       !.conLeft = r.con, !.disconLeft = r.discon, !.last = best]
  <2>1. CommitBlock(b)  BY <1>9 DEF AcceptBest
  <2>2. status' \in [Block -> SUBSET {"data", "undo", "failed"}]
    <3>1. PICK T \in SUBSET {"undo"} : status' = [status EXCEPT ![b] = @ \cup {"data"} \cup T]
      BY <2>1 DEF CommitBlock
    <3> QED  BY <1>5, <3>1
  <2>3. arch' \subseteq Block  BY <1>5, <1>6, <2>1 DEF CommitBlock
  <2>4. tip' \in Block /\ bestWork' \in Nat  BY <1>5, <2>1 DEF CommitBlock
  <2>5. job' = job \/ job' = new  BY <2>1 DEF CommitBlock
  <2>6. JobOK'
    <3>1. CASE job' = job  BY <1>2, <1>5, <3>1, SameJob
    <3>2. CASE job' = new
      <4>1. r.con \subseteq (index \cup {b}) \ {Genesis} /\ r.discon \subseteq index \ {Genesis}
        BY <1>1, CommitBranches DEF TypeInv
      <4>2. r.con \in SUBSET Block /\ r.discon \in SUBSET Block /\ best \in Block
        BY <1>5, <4>1
      <4> HIDE DEF r
      <4>3. /\ new \in JobType /\ new.new = b /\ new.last = best /\ new.con = r.con
            /\ new.discon = r.discon /\ new.conLeft = r.con /\ new.disconLeft = r.discon
        BY <4>2 DEF NoJob, JobType
      <4> HIDE DEF new
      <4> QED  BY <1>2, <1>5, <3>2, <4>1, <4>3 DEF JobOK
    <3> QED  BY <2>5, <3>1, <3>2
  <2> QED  BY <2>2, <2>3, <2>4, <2>6
<1> QED  BY <1>7, <1>8, <1>9

(* The index starts with the genesis block.                                *)
LEMMA TypeInit == Init => TypeInv
<1> SUFFICES ASSUME Init PROVE TypeInv  OBVIOUS
<1>1. MaxHeight \in Nat /\ 0 \in 0 .. MaxHeight  BY Heights
<1>2. \A b \in Block : Work[b] \in Nat  BY ChainAssumption
<1>3. /\ cwork \in [Block -> Nat] /\ bestWork \in Nat
  BY <1>2, Tree DEF Init
<1>4. txdb \in [Tx -> (0 .. MaxHeight) \cup {None}]  BY <1>1 DEF Init
<1>5. blkdb \in [0 .. MaxHeight -> Block \cup {None}]  BY <1>1, Tree DEF Init
<1>6. status \in [Block -> SUBSET {"data", "undo", "failed"}]  BY DEF Init
<1>7. /\ index \subseteq Block /\ best \in index /\ tip \in Block /\ arch \subseteq Block
      /\ pprev \in [Block -> Block \cup {None}] /\ pnext \in [Block -> Block \cup {None}]
      /\ orphan \in [Block -> Block \cup {None}] /\ coin \in [Tx -> Tx \cup {None}]
      /\ scan \in Nat \cup {None} /\ torn \in BOOLEAN
  BY Tree DEF Init
<1>8. TypeOK  BY <1>3, <1>4, <1>5, <1>6, <1>7 DEF TypeOK
<1>9. IndexOK  BY Tree DEF Init, IndexOK
<1>10. DbOK
  <2>1. /\ blkdb[0] = Genesis
        /\ \A k \in 0 .. MaxHeight : blkdb[k] # None => k = 0 /\ blkdb[k] = Genesis
    BY <1>1 DEF Init
  <2> QED  BY <2>1, Tree DEF DbOK
<1>11. JobOK
  <2>1. job = NoJob /\ job \in JobType  BY NoJobTyped DEF Init
  <2>2. job.con \cup job.discon \cup job.conLeft \cup job.disconLeft = {}
    BY <2>1 DEF NoJob
  <2> QED  BY <2>1, <2>2 DEF JobOK
<1> QED  BY <1>8, <1>9, <1>10, <1>11 DEF TypeInv

(* A commit goes on.                                                       *)
LEMMA JobFields ==
  ASSUME JobOK
  PROVE  /\ job.new \in Block \cup {None} /\ job.last \in Block \cup {None}
         /\ job.fail \in Block \cup {None} /\ job.spent \in BOOLEAN
         /\ job.con \in SUBSET Block /\ job.discon \in SUBSET Block
         /\ job.conLeft \in SUBSET Block /\ job.disconLeft \in SUBSET Block
  BY DEF JobOK, JobType

(* A step of a commit that only takes blocks off its two lists keeps its   *)
(* locals in the index.                                                    *)
LEMMA JobGoes ==
  ASSUME TypeInv, index' = index, job # NoJob, job' \in JobType,
         job'.new = job.new, job'.last \in index,
         job'.con = job.con, job'.discon = job.discon,
         job'.conLeft \subseteq job.conLeft, job'.disconLeft \subseteq job.disconLeft
  PROVE  JobOK'
<1>1. /\ job.con \cup job.discon \cup job.conLeft \cup job.disconLeft
           \subseteq index \ {Genesis}
      /\ job.new \in index
  BY DEF TypeInv, JobOK
<1>2. /\ job'.con \cup job'.discon \cup job'.conLeft \cup job'.disconLeft
           \subseteq index' \ {Genesis}
      /\ job'.new \in index' /\ job'.last \in index'
  BY <1>1
<1> QED  BY <1>2 DEF JobOK

(* core_DisconnectBlock of one block.                                      *)
LEMMA TypeDisconnect ==
  ASSUME TypeInv, NEW pool, DisconnectBlock(pool)
  PROVE  TypeInv'
<1> DEFINE b == Highest(job.disconLeft)
           s == DisconnectTxs(b, pool)
<1>1. /\ job.disconLeft # {} /\ coin' = s.coin /\ txdb' = s.refs
      /\ status' = [status EXCEPT ![b] = (@ \ {"data"}) \cup {"undo"}]
      /\ arch' = Archived(job.new)
      /\ job' = [job EXCEPT !.disconLeft = @ \ {b}, !.last = pprev[b]]
      /\ UNCHANGED <<index, pprev, pnext, cwork, best, bestWork, orphan, scan, blkdb,
                     tip, crashes, torn>>
  BY DEF DisconnectBlock
<1>2. JobOK /\ TypeOK /\ DbOK /\ IndexOK  BY DEF TypeInv
<1>3. job \in JobType /\ job.disconLeft \in SUBSET Block
      /\ job.disconLeft \subseteq index \ {Genesis}
  BY <1>2, JobFields DEF JobOK
<1>4. b \in job.disconLeft  BY <1>1, <1>3, Highests
<1> HIDE DEF b
<1>5. b \in Block /\ pprev[b] \in index /\ pprev[b] \in Block
  BY <1>2, <1>3, <1>4 DEF IndexOK, TypeOK
<1>6. job # NoJob
  <2>1. job = NoJob => job.disconLeft = {}  BY DEF NoJob
  <2> QED  BY <1>1, <2>1
<1>7. job.new \in Block  BY <1>2, <1>6 DEF JobOK, TypeOK
<1>8. s \in UndoState
  <2>1. coin \in CoinMap /\ txdb \in RefMap  BY <1>2 DEF TypeOK, CoinMap, RefMap
  <2> QED  BY <1>5, <2>1, DisconnectTxsTyped
<1>9. coin' \in CoinMap /\ txdb' \in RefMap
  <2> HIDE DEF s
  <2> QED  BY <1>1, <1>8 DEF UndoState
<1>10. status' \in [Block -> SUBSET {"data", "undo", "failed"}]
  BY <1>1, <1>2 DEF TypeOK
<1>11. arch' \subseteq Block  BY <1>1, <1>7, ArchTyped
<1>12. TypeOK'  BY <1>1, <1>2, <1>9, <1>10, <1>11 DEF TypeOK, CoinMap, RefMap
<1>13. IndexOK' /\ DbOK'  BY <1>1, <1>2 DEF IndexOK, DbOK
<1>14. /\ job' \in JobType /\ job'.new = job.new /\ job'.last = pprev[b]
       /\ job'.con = job.con /\ job'.discon = job.discon
       /\ job'.conLeft = job.conLeft /\ job'.disconLeft = job.disconLeft \ {b}
  BY <1>1, <1>3, <1>5 DEF JobType
<1>15. JobOK'  BY <1>1, <1>5, <1>6, <1>14, JobGoes
<1> QED  BY <1>12, <1>13, <1>15 DEF TypeInv

(* core_ConnectBlock up to the writing of the coins.                       *)
LEMMA TypeCoins ==
  ASSUME TypeInv, NEW pool, ConnectCoins(pool)
  PROVE  TypeInv'
<1> DEFINE b == Lowest(job.conLeft)
           r == ConnectInputs(b, pool)
<1>1. /\ job.conLeft # {} /\ coin' \in {r.outs, coin}
      /\ job' = [job EXCEPT !.spent = TRUE] \/ job' = [job EXCEPT !.fail = b]
      /\ UNCHANGED <<index, pprev, pnext, cwork, status, best, bestWork, orphan, scan,
                     blkdb, arch, txdb, tip, crashes, torn>>
  BY DEF ConnectCoins, Connecting
<1>2. JobOK /\ TypeOK /\ DbOK /\ IndexOK  BY DEF TypeInv
<1>3. job \in JobType /\ job.conLeft \in SUBSET Block
  BY <1>2, JobFields DEF JobOK
<1>4. b \in Block  BY <1>1, <1>3, Lowests
<1> HIDE DEF b
<1>5. job # NoJob
  <2>1. job = NoJob => job.conLeft = {}  BY DEF NoJob
  <2> QED  BY <1>1, <2>1
<1>6. r \in SpendState
  <2>1. coin \in CoinMap  BY <1>2 DEF TypeOK, CoinMap
  <2> QED  BY <1>4, <2>1, ConnectInputsTyped
<1>7. coin' \in CoinMap
  <2> HIDE DEF r
  <2>1. coin \in CoinMap  BY <1>2 DEF TypeOK, CoinMap
  <2> QED  BY <1>1, <1>6, <2>1 DEF SpendState
<1>8. TypeOK'  BY <1>1, <1>2, <1>7 DEF TypeOK, CoinMap
<1>9. IndexOK' /\ DbOK'  BY <1>1, <1>2 DEF IndexOK, DbOK
<1>10. /\ job' \in JobType /\ job'.new = job.new /\ job'.last = job.last
       /\ job'.con = job.con /\ job'.discon = job.discon
       /\ job'.conLeft = job.conLeft /\ job'.disconLeft = job.disconLeft
  <2>1. CASE job' = [job EXCEPT !.spent = TRUE]  BY <1>3, <2>1 DEF JobType
  <2>2. CASE job' = [job EXCEPT !.fail = b]  BY <1>3, <1>4, <2>2 DEF JobType
  <2> QED  BY <1>1, <2>1, <2>2
<1>11. job.last \in index  BY <1>2, <1>5 DEF JobOK
<1>12. JobOK'  BY <1>1, <1>5, <1>10, <1>11, JobGoes
<1> QED  BY <1>8, <1>9, <1>12 DEF TypeInv

(* The rest of core_ConnectBlock; the block at height 0 is never replaced. *)
LEMMA TypeConnect ==
  ASSUME TypeInv, ConnectBlock
  PROVE  TypeInv'
<1> DEFINE b == Lowest(job.conLeft)
           old == blkdb[Height[b]]
<1>1. /\ job.conLeft # {} /\ blkdb' = [blkdb EXCEPT ![Height[b]] = b]
      /\ arch' = IF old \in {b, None} THEN arch ELSE arch \cup {old}
      /\ txdb' = TxRefsOf(b) /\ orphan' = OrphansWithout(b)
      /\ status' = [status EXCEPT ![b] = @ \cup {"data"}]
      /\ job' = [job EXCEPT !.conLeft = @ \ {b}, !.last = b, !.spent = FALSE]
      /\ UNCHANGED <<index, pprev, pnext, cwork, best, bestWork, scan, coin, tip,
                     crashes, torn>>
  BY DEF ConnectBlock, Connecting
<1>2. JobOK /\ TypeOK /\ DbOK /\ IndexOK  BY DEF TypeInv
<1>3. job \in JobType /\ job.conLeft \in SUBSET Block
      /\ job.conLeft \subseteq index \ {Genesis}
  BY <1>2, JobFields DEF JobOK
<1>4. b \in job.conLeft  BY <1>1, <1>3, Lowests
<1> HIDE DEF b
<1>5. b \in Block /\ b # Genesis /\ b \in index /\ Height[b] \in 0 .. MaxHeight /\ Height[b] # 0
  BY <1>3, <1>4, Tree, Heights
<1>6. old \in Block \cup {None}  BY <1>2, <1>5 DEF TypeOK
<1>7. job # NoJob
  <2>1. job = NoJob => job.conLeft = {}  BY DEF NoJob
  <2> QED  BY <1>1, <2>1
<1>8. blkdb' \in [0 .. MaxHeight -> Block \cup {None}]  BY <1>1, <1>2, <1>5 DEF TypeOK
<1>9. txdb' \in RefMap  BY <1>1, <1>2, <1>5 DEF TypeOK, TxRefsOf, RefMap
<1>10. orphan' \in [Block -> Block \cup {None}]  BY <1>1, <1>2 DEF TypeOK, OrphansWithout
<1>11. arch' \subseteq Block
  <2> HIDE DEF old
  <2> QED  BY <1>1, <1>2, <1>6 DEF TypeOK
<1>12. status' \in [Block -> SUBSET {"data", "undo", "failed"}]
  BY <1>1, <1>2 DEF TypeOK
<1>13. TypeOK'
  BY <1>1, <1>2, <1>8, <1>9, <1>10, <1>11, <1>12 DEF TypeOK, RefMap
<1>14. IndexOK'  BY <1>1, <1>2 DEF IndexOK
<1>15. DbOK'
  <2>1. /\ blkdb'[Height[b]] = b
        /\ \A k \in 0 .. MaxHeight : k # Height[b] => blkdb'[k] = blkdb[k]
        /\ 0 \in 0 .. MaxHeight
    BY <1>1, <1>2, <1>5, Heights DEF TypeOK
  <2> QED  BY <1>2, <1>5, <2>1 DEF DbOK
<1>16. /\ job' \in JobType /\ job'.new = job.new /\ job'.last = b
       /\ job'.con = job.con /\ job'.discon = job.discon
       /\ job'.conLeft = job.conLeft \ {b} /\ job'.disconLeft = job.disconLeft
  BY <1>1, <1>3, <1>5 DEF JobType
<1>17. JobOK'  BY <1>1, <1>5, <1>7, <1>16, JobGoes
<1> QED  BY <1>13, <1>14, <1>15, <1>17 DEF TypeInv

(* A commit ends.                                                          *)
LEMMA TypeEnd ==
  ASSUME TypeInv, EndCommit, coin' \in CoinMap, txdb' \in RefMap
  PROVE  TypeInv'
<1> DEFINE end == IF Reestablish THEN job.last ELSE job.new
<1>1. /\ job.new # None /\ pnext' \in {Relinked, pnext} /\ tip' = end /\ best' = end
      /\ bestWork' = WorkAfter(job.fail = None)
      /\ \/ status' = status
         \/ job.fail # None /\ status' = [status EXCEPT ![job.fail] = @ \cup {"failed"}]
      /\ job' = NoJob
      /\ UNCHANGED <<index, pprev, cwork, orphan, scan, blkdb, arch, crashes, torn>>
  BY DEF EndCommit
<1>2. JobOK /\ TypeOK /\ DbOK /\ IndexOK  BY DEF TypeInv
<1>3. job.con \in SUBSET Block  BY <1>2, JobFields
<1>4. job.new \in index /\ job.last \in index
  <2>1. job = NoJob => job.new = None  BY DEF NoJob
  <2> QED  BY <1>1, <1>2, <2>1 DEF JobOK
<1>5. end \in index /\ end \in Block  BY <1>2, <1>4 DEF TypeOK
<1> HIDE DEF end
<1>6. bestWork' \in Nat
  <2>1. cwork[job.new] \in Nat /\ cwork[job.last] \in Nat /\ bestWork \in Nat
    BY <1>2, <1>4 DEF TypeOK
  <2> QED  BY <1>1, <2>1 DEF WorkAfter
<1>7. Relinked \in [Block -> Block \cup {None}]
  <2>1. pnext \in [Block -> Block \cup {None}]  BY <1>2 DEF TypeOK
  <2>2. ASSUME NEW x \in Block, \E c \in job.con : pprev[c] = x
        PROVE  (CHOOSE c \in job.con : pprev[c] = x) \in Block
    BY <1>3, <2>2
  <2> QED  BY <2>1, <2>2 DEF Relinked
<1>8. pnext' \in [Block -> Block \cup {None}]  BY <1>1, <1>2, <1>7 DEF TypeOK
<1>9. status' \in [Block -> SUBSET {"data", "undo", "failed"}]
  <2>1. job.fail # None => job.fail \in Block  BY <1>2, JobFields
  <2>2. status \in [Block -> SUBSET {"data", "undo", "failed"}]  BY <1>2 DEF TypeOK
  <2>3. CASE status' = status  BY <2>2, <2>3
  <2>4. CASE job.fail # None /\ status' = [status EXCEPT ![job.fail] = @ \cup {"failed"}]
    BY <2>1, <2>2, <2>4
  <2> QED  BY <1>1, <2>3, <2>4
<1>10. TypeOK'  BY <1>1, <1>2, <1>5, <1>6, <1>8, <1>9 DEF TypeOK, CoinMap, RefMap
<1>11. IndexOK' /\ DbOK'  BY <1>1, <1>2 DEF IndexOK, DbOK
<1>12. NoJob.con \cup NoJob.discon \cup NoJob.conLeft \cup NoJob.disconLeft = {}
  BY DEF NoJob
<1>13. JobOK'  BY <1>1, <1>12, NoJobTyped DEF JobOK
<1> QED  BY <1>10, <1>11, <1>13 DEF TypeInv

LEMMA TypeFinish ==
  ASSUME TypeInv, FinishCommit
  PROVE  TypeInv'
<1>1. coin' \in CoinMap /\ txdb' \in RefMap
  BY DEF FinishCommit, TypeInv, TypeOK, CoinMap, RefMap
<1> QED  BY <1>1, TypeEnd DEF FinishCommit

(* The work of each block that shc_FillBlockIndex loads.                   *)
LoadedWork ==
  LET work[h \in 0 .. FillTop] == Work[blkdb[h]] + IF h = 0 THEN 0 ELSE work[h - 1]
  IN work
Loaded == {blkdb[h] : h \in 0 .. FillTop}
BadLoaded == {h \in 1 .. FillTop : ~CheckTransactionInputs(blkdb[h])}

(* What the work of the loaded blocks adds up to.                          *)
LEMMA LoadedWorkIs ==
  ASSUME TypeOK, DbOK
  PROVE  /\ LoadedWork \in [0 .. FillTop -> Nat]
         /\ \A h \in 0 .. FillTop :
              LoadedWork[h] = Work[blkdb[h]] + IF h = 0 THEN 0 ELSE LoadedWork[h - 1]
<1> DEFINE n == FillTop
           v == [h \in 0 .. n |-> Work[blkdb[h]]]
           Eq(f) == f = [h \in 0 .. n |-> Work[blkdb[h]] + IF h = 0 THEN 0 ELSE f[h - 1]]
           W == CHOOSE f : Eq(f)
<1>1. n \in Nat /\ \A h \in 0 .. n : blkdb[h] \in Block  BY FillTopIs, Heights
<1>2. \A b \in Block : Work[b] \in Nat  BY ChainAssumption
<1>3. v \in [0 .. n -> Nat] /\ \A h \in 0 .. n : v[h] = Work[blkdb[h]]  BY <1>1, <1>2
<1>4. LoadedWork = W  BY DEF LoadedWork
<1> HIDE DEF n, v
<1>5. PICK f \in [0 .. n -> Nat] : f = [h \in 0 .. n |-> v[h] + IF h = 0 THEN 0 ELSE f[h - 1]]
  BY <1>1, <1>3, Sums
<1>6. Eq(f)  BY <1>3, <1>5
<1> HIDE DEF Eq
<1>7. Eq(W)  BY <1>6
<1> HIDE DEF W
<1>8. \A h \in 0 .. n : W[h] = Work[blkdb[h]] + IF h = 0 THEN 0 ELSE W[h - 1]
  BY <1>7 DEF Eq
<1>9. DOMAIN W = 0 .. n /\ W = [h \in 0 .. n |-> W[h]]  BY <1>7 DEF Eq
<1> DEFINE P == {h \in 0 .. n : W[h] \in Nat}
<1>10. 0 \in P
  <2>1. 0 \in 0 .. n /\ Work[blkdb[0]] \in Nat  BY <1>1, <1>2
  <2>2. W[0] = Work[blkdb[0]] + 0  BY <1>8, <2>1
  <2> QED  BY <2>1, <2>2
<1>11. ASSUME NEW k \in 1 .. n, k - 1 \in P PROVE k \in P
  <2>1. k \in 0 .. n /\ k # 0 /\ Work[blkdb[k]] \in Nat /\ W[k - 1] \in Nat  BY <1>1, <1>2, <1>11
  <2> QED  BY <1>8, <2>1
<1>12. \A k \in 0 .. n : k \in P
  <2> HIDE DEF P
  <2> QED  BY <1>1, <1>10, <1>11, UpTo
<1>13. W \in [0 .. n -> Nat]  BY <1>9, <1>12
<1> QED  BY <1>4, <1>8, <1>13 DEF n

(* A restart in terms of what it loads.                                    *)
LEMMA RestartIs ==
  ASSUME Restart
  PROVE  /\ index' = Loaded
         /\ pprev' = [b \in Block |->
              IF b \in Loaded \ {Genesis} THEN blkdb[Height[b] - 1] ELSE None]
         /\ pnext' = [b \in Block |->
              IF b \in Loaded /\ Height[b] < FillTop THEN blkdb[Height[b] + 1] ELSE None]
         /\ cwork' = [b \in Block |-> IF b \in Loaded THEN LoadedWork[Height[b]] ELSE 0]
         /\ status' = [b \in Block |-> IF b \in Loaded THEN {"data"} ELSE {}]
         /\ best' = blkdb[FillTop] /\ bestWork' = LoadedWork[FillTop]
         /\ orphan' = [b \in Block |-> None] /\ scan' = 1 /\ job' = NoJob
         /\ tip' = IF BadLoaded = {} THEN tip ELSE blkdb[Min(BadLoaded) - 1]
         /\ torn' = (torn \/ ~Rest)
         /\ UNCHANGED <<blkdb, arch, txdb, coin>>
  BY DEF Restart, LoadedWork, Loaded, BadLoaded

(* A loaded block is at its height.                                        *)
LEMMA LoadedIs ==
  ASSUME TypeOK, DbOK
  PROVE  /\ FillTop \in 0 .. MaxHeight /\ FillTop \in Nat /\ Loaded \subseteq Block
         /\ Genesis \in Loaded /\ blkdb[FillTop] \in Loaded
         /\ \A h \in 0 .. FillTop : blkdb[h] \in Loaded /\ Height[blkdb[h]] = h
         /\ \A b \in Loaded : Height[b] \in 0 .. FillTop /\ blkdb[Height[b]] = b
<1>1. /\ FillTop \in 0 .. MaxHeight /\ \A h \in 0 .. FillTop : blkdb[h] \in Block
  BY FillTopIs
<1>2. FillTop \in Nat /\ \A h \in 0 .. FillTop : h \in 0 .. MaxHeight  BY <1>1, Heights
<1>3. \A h \in 0 .. FillTop : Height[blkdb[h]] = h  BY <1>1, <1>2, Tree DEF DbOK
<1>4. \A h \in 0 .. FillTop : blkdb[h] \in Loaded  BY DEF Loaded
<1>5. \A b \in Loaded : \E h \in 0 .. FillTop : b = blkdb[h]  BY DEF Loaded
<1>6. 0 \in 0 .. FillTop /\ FillTop \in 0 .. FillTop  BY <1>2
<1>7. Genesis \in Loaded  BY <1>4, <1>6 DEF DbOK
<1> QED  BY <1>1, <1>2, <1>3, <1>4, <1>5, <1>6, <1>7

(* shc_LoadBlockIndex builds a well-formed index from whatever the disk    *)
(* holds.                                                                  *)
LEMMA TypeRestart ==
  ASSUME TypeInv, Restart
  PROVE  TypeInv'
<1>1. JobOK /\ TypeOK /\ DbOK /\ IndexOK  BY DEF TypeInv
<1>2. /\ FillTop \in 0 .. MaxHeight /\ FillTop \in Nat /\ Loaded \subseteq Block
      /\ Genesis \in Loaded /\ blkdb[FillTop] \in Loaded
      /\ \A h \in 0 .. FillTop : blkdb[h] \in Loaded /\ Height[blkdb[h]] = h
      /\ \A b \in Loaded : Height[b] \in 0 .. FillTop /\ blkdb[Height[b]] = b
  BY <1>1, LoadedIs
<1>3. LoadedWork \in [0 .. FillTop -> Nat]  BY <1>1, LoadedWorkIs
<1>4. /\ index' = Loaded /\ best' = blkdb[FillTop] /\ scan' = 1 /\ job' = NoJob
      /\ torn' = (torn \/ ~Rest) /\ UNCHANGED <<blkdb, arch, txdb, coin>>
      /\ bestWork' = LoadedWork[FillTop]
  BY RestartIs
<1>5. /\ pprev' = [b \in Block |->
              IF b \in Loaded \ {Genesis} THEN blkdb[Height[b] - 1] ELSE None]
      /\ pnext' = [b \in Block |->
              IF b \in Loaded /\ Height[b] < FillTop THEN blkdb[Height[b] + 1] ELSE None]
      /\ orphan' = [b \in Block |-> None]
  BY RestartIs
<1>6. ASSUME NEW b \in Loaded, b # Genesis
      PROVE  blkdb[Height[b] - 1] \in Loaded /\ Height[blkdb[Height[b] - 1]] < Height[b]
  <2>1. Height[b] \in Nat /\ Height[b] > 0 /\ Height[b] - 1 \in 0 .. FillTop
    BY <1>2, <1>6, Tree
  <2> QED  BY <1>2, <2>1
<1>7. ASSUME NEW b \in Loaded, Height[b] < FillTop
      PROVE  blkdb[Height[b] + 1] \in Loaded
  <2>1. Height[b] \in Nat /\ Height[b] + 1 \in 0 .. FillTop
    BY <1>2, <1>7, Tree
  <2> QED  BY <1>2, <2>1
<1>8. pprev' \in [Block -> Block \cup {None}]  BY <1>2, <1>5, <1>6
<1>9. pnext' \in [Block -> Block \cup {None}]  BY <1>2, <1>5, <1>7
<1>10. cwork' \in [Block -> Nat]
  <2>1. cwork' = [b \in Block |-> IF b \in Loaded THEN LoadedWork[Height[b]] ELSE 0]
    BY RestartIs
  <2> QED  BY <1>2, <1>3, <2>1
<1>11. status' \in [Block -> SUBSET {"data", "undo", "failed"}]
  <2>1. status' = [b \in Block |-> IF b \in Loaded THEN {"data"} ELSE {}]  BY RestartIs
  <2> QED  BY <2>1
<1>12. bestWork' \in Nat
  <2>1. FillTop \in 0 .. FillTop  BY <1>2
  <2> QED  BY <1>3, <1>4, <2>1
<1>13. tip' \in Block
  <2>1. tip' = IF BadLoaded = {} THEN tip ELSE blkdb[Min(BadLoaded) - 1]  BY RestartIs
  <2>2. CASE BadLoaded # {}
    <3>1. BadLoaded \in SUBSET Nat /\ BadLoaded \subseteq 1 .. FillTop
      BY <1>2 DEF BadLoaded
    <3> DEFINE m == Min(BadLoaded)
    <3>2. m \in BadLoaded  BY <2>2, <3>1, MinIn
    <3>3. tip' = blkdb[m - 1]  BY <2>1, <2>2
    <3> HIDE DEF m
    <3>4. m \in 1 .. FillTop  BY <3>1, <3>2
    <3>5. m - 1 \in 0 .. FillTop  BY <1>2, <3>4
    <3> QED  BY <1>2, <3>3, <3>5
  <2> QED  BY <1>1, <2>1, <2>2 DEF TypeOK
<1>14. torn' \in BOOLEAN  BY <1>1, <1>4 DEF TypeOK
<1>15. orphan' \in [Block -> Block \cup {None}]  BY <1>5
<1>16. TypeOK'
  BY <1>1, <1>2, <1>4, <1>8, <1>9, <1>10, <1>11, <1>12, <1>13, <1>14, <1>15 DEF TypeOK
<1>17. IndexOK'
  <2>1. pprev'[Genesis] = None  BY <1>5, Tree
  <2>2. \A b \in Loaded : b # Genesis => pprev'[b] = blkdb[Height[b] - 1]
    BY <1>2, <1>5
  <2> QED  BY <1>2, <1>4, <1>6, <2>1, <2>2 DEF IndexOK
<1>18. DbOK'  BY <1>1, <1>4 DEF DbOK
<1>19. NoJob.con \cup NoJob.discon \cup NoJob.conLeft \cup NoJob.disconLeft = {}
  BY DEF NoJob
<1>20. JobOK'  BY <1>4, <1>19, NoJobTyped DEF JobOK
<1> QED  BY <1>16, <1>17, <1>18, <1>20 DEF TypeInv

(* ServiceValidateEvent writes coins of a block that is there.             *)
LEMMA TypeValidate ==
  ASSUME TypeInv, NEW pool, ValidateEvent(pool)
  PROVE  TypeInv'
<1>1. JobOK /\ TypeOK /\ DbOK /\ IndexOK  BY DEF TypeInv
<1>2. /\ scan # None
      /\ UNCHANGED <<index, pprev, pnext, cwork, status, best, bestWork, orphan, job,
                     blkdb, arch, txdb, tip, crashes, torn>>
  BY DEF ValidateEvent
<1>3. scan' \in Nat \cup {None}
  <2>1. scan \in Nat /\ (scan' = None \/ scan' = scan + 1)  BY <1>1, <1>2 DEF TypeOK, ValidateEvent
  <2> QED  BY <2>1
<1>4. coin' \in CoinMap
  <2>1. coin \in CoinMap  BY <1>1 DEF TypeOK, CoinMap
  <2>2. CASE coin' = coin  BY <2>1, <2>2
  <2>3. CASE scan <= Height[best] /\ blkdb[scan] # None
             /\ coin' = UpdateBlockCoins(blkdb[scan], pool)
    <3>1. best \in Block /\ Height[best] \in Nat /\ scan \in Nat
          /\ Height[best] <= MaxHeight
      BY <1>1, <1>2, Tree, Heights DEF TypeOK
    <3>2. scan \in 0 .. MaxHeight  BY <2>3, <3>1, Heights
    <3>3. blkdb[scan] \in Block  BY <1>1, <2>3, <3>2 DEF TypeOK
    <3> QED  BY <2>1, <2>3, <3>3, UpdateBlockCoinsTyped
  <2>4. best \in Block /\ Height[best] \in Nat /\ scan \in Nat
    BY <1>1, <1>2, Tree DEF TypeOK
  <2>5. ~(scan > Height[best]) => scan <= Height[best]  BY <2>4
  <2> QED  BY <2>2, <2>3, <2>5 DEF ValidateEvent
<1>5. TypeOK'  BY <1>1, <1>2, <1>3, <1>4 DEF TypeOK, CoinMap
<1>6. IndexOK' /\ DbOK' /\ JobOK'  BY <1>1, <1>2 DEF IndexOK, DbOK, JobOK
<1> QED  BY <1>5, <1>6 DEF TypeInv

(* A step that changes nothing.                                            *)
LEMMA TypeStutter ==
  ASSUME TypeInv, UNCHANGED vars
  PROVE  TypeInv'
<1>1. UNCHANGED <<index, pprev, pnext, cwork, status, best, bestWork, orphan, scan, job,
                  blkdb, arch, txdb, coin, tip, crashes, torn>>
  BY DEF vars, memory, disk
<1> QED  BY <1>1 DEF TypeInv, TypeOK, IndexOK, DbOK, JobOK

(* Every step keeps the type invariant.                                    *)
LEMMA TypeNext ==
  ASSUME TypeInv, [Next]_vars
  PROVE  TypeInv'
<1>1. CASE \E b \in Block \ {Genesis} : ProcessBlock(b) \/ AcceptBlockHeader(b)
  BY <1>1, TypeOrphan, TypeAccept, TypeHeader DEF ProcessBlock
<1>2. CASE \E pool \in SUBSET Pool : DisconnectBlock(pool) \/ ConnectCoins(pool)
  BY <1>2, TypeDisconnect, TypeCoins
<1>3. CASE ConnectBlock \/ FinishCommit  BY <1>3, TypeConnect, TypeFinish
<1>4. CASE \E pool \in SUBSET Pool : ValidateEvent(pool)  BY <1>4, TypeValidate
<1>5. CASE Restart  BY <1>5, TypeRestart
<1>6. CASE UNCHANGED vars  BY <1>6, TypeStutter
<1> QED  BY <1>1, <1>2, <1>3, <1>4, <1>5, <1>6 DEF Next, CommitStep

(* The index stays a tree on the genesis block, the block database holds   *)
(* each block at its own height, and core_CommitBlock works on blocks of   *)
(* the index, at every step of every reorganisation and after every crash. *)
THEOREM ChainTypeInvariant == Spec => []TypeInv
<1>1. Init => TypeInv  BY TypeInit
<1>2. TypeInv /\ [Next]_vars => TypeInv'  BY TypeNext
<1> QED  BY <1>1, <1>2, PTL DEF Spec

(* Every variable keeps its type: whatever headers and blocks arrive,      *)
(* however commits fail, and whatever blocks a restart finds on disk after *)
(* a crash at any point.                                                   *)
THEOREM ChainTypeCorrect == Spec => []TypeOK
<1>1. TypeInv => TypeOK  BY DEF TypeInv
<1> QED  BY <1>1, ChainTypeInvariant, PTL

(* A block that can be read stays readable.                                *)
LEMMA StaysReadable ==
  ASSUME TypeInv, [Next]_vars, NEW b \in Block, Readable(b)
  PROVE  Readable(b)'
<1>1. CASE blkdb' = blkdb /\ arch \subseteq arch'
  BY <1>1 DEF Readable, InMain
<1>2. CASE ConnectBlock
  <2> DEFINE c == Lowest(job.conLeft)
             old == blkdb[Height[c]]
  <2>1. /\ job.conLeft # {} /\ blkdb' = [blkdb EXCEPT ![Height[c]] = c]
        /\ arch' = IF old \in {c, None} THEN arch ELSE arch \cup {old}
    BY <1>2 DEF ConnectBlock, Connecting
  <2>2. c \in Block
    <3>1. job.conLeft \in SUBSET Block  BY JobFields DEF TypeInv
    <3> QED  BY <2>1, <3>1, Lowests
  <2>3. Height[c] \in 0 .. MaxHeight /\ blkdb \in [0 .. MaxHeight -> Block \cup {None}]
    BY <2>2, Heights DEF TypeInv, TypeOK
  <2> HIDE DEF c
  <2>4. CASE b \in arch  BY <2>1, <2>4 DEF Readable
  <2>5. CASE b \notin arch
    <3>1. PICK h \in 0 .. MaxHeight : blkdb[h] = b  BY <2>5 DEF Readable, InMain
    <3>2. CASE h # Height[c]
      <4>1. blkdb'[h] = b  BY <2>1, <2>3, <3>1, <3>2
      <4> QED  BY <4>1 DEF Readable, InMain
    <3>3. CASE h = Height[c]
      <4>1. old = b /\ b # None  BY <3>1, <3>3, Tree
      <4>2. CASE b = c
        <5>1. blkdb'[h] = b  BY <2>1, <2>3, <3>3, <4>2
        <5> QED  BY <5>1 DEF Readable, InMain
      <4>3. CASE b # c  BY <2>1, <4>1, <4>3 DEF Readable
      <4> QED  BY <4>2, <4>3
    <3> QED  BY <3>2, <3>3
  <2> QED  BY <2>4, <2>5
<1>a. \A x \in Block : arch \subseteq Archived(x)  BY DEF Archived
<1>3. CASE \E x \in Block \ {Genesis} : ProcessBlock(x) \/ AcceptBlockHeader(x)
  <2>1. PICK x \in Block \ {Genesis} : ProcessBlock(x) \/ AcceptBlockHeader(x)  BY <1>3
  <2>2. CASE AddOrphanBlock(x)  BY <1>1, <1>a, <2>2 DEF AddOrphanBlock
  <2>3. CASE AcceptInvalid(x)  BY <1>1, <2>3 DEF AcceptInvalid, disk
  <2>4. CASE AcceptSide(x)  BY <1>1, <1>a, <2>4 DEF AcceptSide
  <2>5. CASE AcceptBest(x)  BY <1>1, <1>a, <2>5 DEF AcceptBest, CommitBlock
  <2>6. CASE AcceptBlockHeader(x)  BY <1>1, <2>6 DEF AcceptBlockHeader, disk
  <2> QED  BY <2>1, <2>2, <2>3, <2>4, <2>5, <2>6 DEF ProcessBlock
<1>4. CASE \E pool \in SUBSET Pool : DisconnectBlock(pool)
  <2>1. arch \subseteq Archived(job.new)  BY DEF Archived
  <2> QED  BY <1>1, <1>4, <2>1 DEF DisconnectBlock
<1>5. CASE \E pool \in SUBSET Pool : ConnectCoins(pool)  BY <1>1, <1>5 DEF ConnectCoins
<1>6. CASE FinishCommit  BY <1>1, <1>6 DEF FinishCommit, EndCommit
<1>7. CASE \E pool \in SUBSET Pool : ValidateEvent(pool)  BY <1>1, <1>7 DEF ValidateEvent
<1>8. CASE Restart  BY <1>1, <1>8, RestartIs
<1>9. CASE UNCHANGED vars  BY <1>1, <1>9 DEF vars, disk
<1> QED
  BY <1>2, <1>3, <1>4, <1>5, <1>6, <1>7, <1>8, <1>9 DEF Next, CommitStep

(* A block that ReadFromDisk or ReadArchBlock finds before a step is found *)
(* after it.                                                               *)
NoBlockLost == \A b \in Block : Readable(b) => Readable(b)'
(* core_ConnectBlock overwrites the block that another branch had at a     *)
(* height, and WriteBlock archives it first: no step of the service,       *)
(* crashes included, makes a block unreadable that could be read.          *)
THEOREM BlocksNeverLost == Spec => [][NoBlockLost]_vars
<1>1. TypeInv /\ [Next]_vars => [NoBlockLost]_vars  BY StaysReadable DEF NoBlockLost
<1> QED  BY <1>1, ChainTypeInvariant, PTL DEF Spec

-----------------------------------------------------------------------------
(* What the theorems below suppose. No commit fails with exactly one block *)
(* connected on the old best block: there core_CommitBlock ends on the new *)
(* block instead of the last good one (block.cpp:2584).                    *)
Settles == job.fail # None => Reestablish
(* CheckTransactionInputs finds the inputs of the blocks of the best       *)
(* chain; otherwise a restart moves the stored tip below the first block   *)
(* that lacks one.                                                         *)
InputsFound ==
  Rest /\ ~torn => \A b \in Ancestors(best) : b # Genesis => CheckTransactionInputs(b)

(* The chain invariant. The index links each block to its predecessor.     *)
Links ==
  \A b \in index : IF b = Genesis THEN pprev[b] = None
                   ELSE pprev[b] = Prev[b] /\ Prev[b] \in index
(* It has the work of the chain of each block.                             *)
Works == \A b \in index : cwork[b] = TotalWork(b)
(* Where the chain ends, in the middle of a commit too; what is above it   *)
(* has been disconnected or is not connected yet.                          *)
At == IF Rest THEN best ELSE job.last
(* Every block of that chain is stored at its height.                      *)
Stored == \A b \in Ancestors(At) : blkdb[Height[b]] = b /\ "data" \in status[b]
(* The orphans are readable and outside that chain.                        *)
Kept ==
  \A p \in Block : orphan[p] # None => Readable(orphan[p]) /\ orphan[p] \notin Ancestors(At)
(* What is left of a commit is the difference between that chain and the   *)
(* new one, and blocks are connected only when no more are to be           *)
(* disconnected.                                                           *)
JobInv ==
  ~Rest =>
    /\ job.disconLeft = Ancestors(job.last) \ Ancestors(job.new)
    /\ job.conLeft = Ancestors(job.new) \ Ancestors(job.last)
    /\ job.fail # None => job.disconLeft = {}
(* The work to beat is the best chain's, and the stored tip is on it.      *)
Tips == bestWork = TotalWork(best) /\ tip \in Ancestors(best)
Good == Links /\ Works /\ Stored /\ Kept /\ JobInv /\ Tips
GoodInv == ~torn => Good

(* Whether a commit is going on shows in each of its locals.               *)
LEMMA RestJob ==
  ASSUME TypeInv
  PROVE  /\ job.new # None => ~Rest
         /\ job.conLeft # {} => ~Rest
         /\ job.disconLeft # {} => ~Rest
         /\ ~Rest => job.new \in index /\ job.last \in index
         /\ At \in index
  BY DEF Rest, NoJob, TypeInv, JobOK, TypeOK, At

(* The index holds the whole chain of each of its blocks.                  *)
LEMMA AncestorsIndexed ==
  ASSUME TypeInv, Links
  PROVE  \A b \in index : Ancestors(b) \subseteq index
<1>1. index \in SUBSET Block  BY DEF TypeInv, TypeOK
<1> DEFINE P == {b \in Block : Ancestors(b) \subseteq index}
<1>2. ASSUME NEW b \in index
      PROVE  b \in P \/ (Prev[b] \in index /\ Height[Prev[b]] < Height[b]
                         /\ (Prev[b] \in P => b \in P))
  <2>1. CASE b = Genesis
    <3>1. Ancestors(b) = {b}  BY <1>1, <2>1, AncestorsIs
    <3> QED  BY <1>1, <3>1
  <2>2. CASE b # Genesis
    <3>1. Prev[b] \in index /\ Height[Prev[b]] < Height[b]
      BY <1>1, <2>2, Tree DEF Links
    <3>2. Ancestors(b) = {b} \cup Ancestors(Prev[b])  BY <1>1, <2>2, AncestorsIs
    <3> QED  BY <1>1, <3>1, <3>2
  <2> QED  BY <2>1, <2>2
<1>3. index \subseteq P
  <2> HIDE DEF P
  <2> QED  BY <1>1, <1>2, ByLinks
<1> QED  BY <1>3

(* The genesis block is a chain that is stored.                            *)
LEMMA GoodInit == Init => Good
<1> SUFFICES ASSUME Init PROVE Good  OBVIOUS
<1>1. Ancestors(Genesis) = {Genesis} /\ TotalWork(Genesis) = Work[Genesis] + 0
  BY AncestorsIs, TotalWorkIs, Tree
<1>2. TotalWork(Genesis) = Work[Genesis]  BY <1>1, ChainAssumption
<1>3. Links /\ Works  BY <1>2, Tree DEF Init, Links, Works
<1>4. Rest /\ At = Genesis  BY DEF Init, At, Rest
<1>5. Stored  BY <1>1, <1>4, Tree, Heights DEF Init, Stored
<1>6. Kept  BY DEF Init, Kept
<1>7. JobInv  BY <1>4 DEF JobInv
<1>8. Tips  BY <1>1, <1>2 DEF Init, Tips
<1> QED  BY <1>3, <1>5, <1>6, <1>7, <1>8 DEF Good

(* A block enters the index.                                               *)
LEMMA LinksGrow ==
  ASSUME TypeInv, Links, Works, NEW b \in Block \ {Genesis}, Prev[b] \in index,
         CreateBlockIndex(b)
  PROVE  Links' /\ Works'
<1>1. /\ index \in SUBSET Block /\ pprev \in [Block -> Block \cup {None}]
      /\ cwork \in [Block -> Nat]
  BY DEF TypeInv, TypeOK
<1>2. index' = index \cup {b}  BY DEF CreateBlockIndex
<1>3. \A c \in index : c # b \/ b \in index => pprev'[c] = pprev[c]
  BY <1>1 DEF CreateBlockIndex
<1>4. b \notin index => pprev'[b] = Prev[b]  BY <1>1 DEF CreateBlockIndex
<1>5. Links'  BY <1>2, <1>3, <1>4 DEF Links
<1>6. /\ \A c \in index : c # b => cwork'[c] = cwork[c]
      /\ cwork'[b] = ChainWork(b)
  BY <1>1 DEF CreateBlockIndex
<1>7. ChainWork(b) = TotalWork(b)
  <2>1. CASE b \in index  BY <2>1 DEF ChainWork, Works
  <2>2. CASE b \notin index
    <3>1. ChainWork(b) = TotalWork(Prev[b]) + Work[b]  BY <2>2 DEF ChainWork, Works
    <3>2. Prev[b] \in Block /\ TotalWork(Prev[b]) \in Nat /\ Work[b] \in Nat
      BY <1>1, TotalWorkIs, ChainAssumption
    <3>3. TotalWork(b) = Work[b] + TotalWork(Prev[b])  BY TotalWorkIs
    <3> QED  BY <3>1, <3>2, <3>3
  <2> QED  BY <2>1, <2>2
<1>8. Works'  BY <1>2, <1>6, <1>7 DEF Works
<1> QED  BY <1>5, <1>8

(* What no step of a commit changes.                                       *)
LEMMA LinksStay ==
  ASSUME Links, Works, UNCHANGED <<index, pprev, cwork>>
  PROVE  Links' /\ Works'
  BY DEF Links, Works

(* The chain stays stored while its end, the block database and the data   *)
(* flags stay.                                                             *)
LEMMA StoredStays ==
  ASSUME TypeInv, Stored, At' = At, UNCHANGED blkdb,
         \A b \in Block : "data" \in status[b] => "data" \in status'[b]
  PROVE  Stored'
<1>1. Ancestors(At) \subseteq Block  BY RestJob, Chains DEF TypeInv, TypeOK
<1> QED  BY <1>1 DEF Stored

(* The orphans stay kept while they and the end of the chain stay.         *)
LEMMA KeptStays ==
  ASSUME TypeInv, [Next]_vars, Kept, At' = At, UNCHANGED orphan
  PROVE  Kept'
<1>1. orphan \in [Block -> Block \cup {None}]  BY DEF TypeInv, TypeOK
<1>2. ASSUME NEW p \in Block, orphan[p] # None
      PROVE  Readable(orphan[p])' /\ orphan[p] \notin Ancestors(At)
  <2>1. orphan[p] \in Block /\ Readable(orphan[p]) /\ orphan[p] \notin Ancestors(At)
    BY <1>1, <1>2 DEF Kept
  <2> DEFINE o == orphan[p]
  <2>2. o' = o  OBVIOUS
  <2>3. \A x \in Block : Readable(x) => Readable(x)'  BY StaysReadable
  <2>4. PICK x \in Block : x = o  BY <2>1
  <2> QED  BY <2>1, <2>2, <2>3, <2>4
<1> QED  BY <1>2 DEF Kept

(* A header changes nothing of the chain.                                  *)
LEMMA GoodHeader ==
  ASSUME TypeInv, Good, NEW b \in Block \ {Genesis}, AcceptBlockHeader(b)
  PROVE  Good'
<1>1. /\ Prev[b] \in index /\ CreateBlockIndex(b)
      /\ UNCHANGED <<status, best, bestWork, orphan, job, blkdb, arch, tip>>
  BY DEF AcceptBlockHeader, disk
<1>2. Links' /\ Works'  BY <1>1, LinksGrow DEF Good
<1>3. [Next]_vars  BY DEF Next
<1>4. At' = At /\ (Rest' <=> Rest)  BY <1>1 DEF At, Rest
<1>5. Stored'  BY <1>1, <1>4, StoredStays DEF Good
<1>6. Kept'  BY <1>1, <1>3, <1>4, KeptStays DEF Good
<1>7. JobInv' /\ Tips'  BY <1>1, <1>4 DEF Good, JobInv, Tips
<1> QED  BY <1>2, <1>5, <1>6, <1>7 DEF Good

(* A block without predecessor in the index is in no chain of the index,   *)
(* and WriteArchBlock makes it readable.                                   *)
LEMMA GoodOrphan ==
  ASSUME TypeInv, Good, NEW b \in Block \ {Genesis}, AddOrphanBlock(b)
  PROVE  Good'
<1>1. /\ Rest /\ Prev[b] \notin index
      /\ orphan' = [orphan EXCEPT ![Prev[b]] = IF @ = None THEN b ELSE @]
      /\ arch' = Archived(b)
      /\ UNCHANGED <<index, pprev, cwork, status, best, bestWork, job, blkdb, tip>>
  BY DEF AddOrphanBlock
<1>2. Links' /\ Works'  BY <1>1, LinksStay DEF Good
<1>3. [Next]_vars  BY DEF Next, ProcessBlock
<1>4. At' = At /\ (Rest' <=> Rest)  BY <1>1 DEF At, Rest
<1>5. Stored'  BY <1>1, <1>4, StoredStays DEF Good
<1>6. JobInv' /\ Tips'  BY <1>1, <1>4 DEF Good, JobInv, Tips
<1>7. Kept'
  <2>1. orphan \in [Block -> Block \cup {None}]  BY DEF TypeInv, TypeOK
  <2>2. Readable(b)'
    <3>1. CASE InMain(b)
      <4>1. InMain(b)'  BY <1>1, <3>1 DEF InMain
      <4> QED  BY <4>1 DEF Readable
    <3>2. CASE ~InMain(b)  BY <1>1, <3>2 DEF Readable, Archived
    <3> QED  BY <3>1, <3>2
  <2>3. b \notin Ancestors(At)
    <3>1. Ancestors(At) \subseteq index /\ At \in Block
      BY RestJob, AncestorsIndexed DEF Good, TypeInv, TypeOK
    <3>2. b \in Ancestors(At) => Prev[b] \in Ancestors(At)  BY <3>1, Chains
    <3> QED  BY <1>1, <3>1, <3>2
  <2>4. \A p \in Block : orphan'[p] = orphan[p] \/ orphan'[p] = b
    BY <1>1, <2>1
  <2>5. \A x \in Block : Readable(x) => Readable(x)'  BY <1>3, StaysReadable
  <2>6. ASSUME NEW p \in Block, orphan'[p] # None
        PROVE  Readable(orphan[p])' /\ orphan'[p] \notin Ancestors(At)
    <3>1. CASE orphan'[p] = b  BY <2>2, <2>3, <3>1
    <3>2. CASE orphan'[p] = orphan[p]
      <4>1. orphan[p] \in Block /\ Readable(orphan[p]) /\ orphan[p] \notin Ancestors(At)
        BY <2>1, <2>6, <3>2 DEF Good, Kept
      <4>2. PICK x \in Block : x = orphan[p] /\ x = orphan'[p]  BY <3>2, <4>1
      <4>3. Readable(x)'  BY <2>5, <4>1, <4>2
      <4> QED  BY <3>2, <4>1, <4>2, <4>3
    <3> QED  BY <2>4, <3>1, <3>2
  <2> QED  BY <1>4, <2>6 DEF Kept
<1> QED  BY <1>2, <1>5, <1>6, <1>7 DEF Good

(* The branches of a commit are the differences of the two chains.         *)
LEMMA BranchesAre ==
  ASSUME TypeInv, Links, NEW b \in Block \ {Genesis}, Prev[b] \in index
  PROVE  /\ GetCommitBranches(b).con = Ancestors(b) \ Ancestors(best)
         /\ GetCommitBranches(b).discon = Ancestors(best) \ Ancestors(b)
<1>1. /\ pprev \in [Block -> Block \cup {None}] /\ index \in SUBSET Block /\ best \in index
  BY DEF TypeInv, TypeOK
<1>2. \A c \in index : Branch(c) = Ancestors(c)  BY <1>1, BranchIsChain DEF Links
<1>3. MainChain = Ancestors(best)  BY <1>1, <1>2 DEF MainChain
<1>4. Ancestors(b) = {b} \cup Ancestors(Prev[b])  BY AncestorsIs
<1>5. Branch(Prev[b]) = Ancestors(Prev[b])  BY <1>2
<1>6. b \in index => Branch(b) = Ancestors(b)  BY <1>2
<1> QED  BY <1>3, <1>4, <1>5, <1>6 DEF GetCommitBranches

(* core_AcceptBlock leaves the chain alone, and a commit that starts has   *)
(* the two differences of the chains before it.                            *)
LEMMA GoodAccept ==
  ASSUME TypeInv, Good, NEW b \in Block \ {Genesis},
         AcceptInvalid(b) \/ AcceptSide(b) \/ AcceptBest(b)
  PROVE  Good'
<1>1. /\ Rest /\ Prev[b] \in index /\ CreateBlockIndex(b)
      /\ UNCHANGED <<best, orphan, blkdb>>
  BY DEF AcceptInvalid, AcceptSide, AcceptBest, Accepting, disk
<1>2. Links' /\ Works'  BY <1>1, LinksGrow DEF Good
<1>3. [Next]_vars  BY DEF Next, ProcessBlock
<1>4. status \in [Block -> SUBSET {"data", "undo", "failed"}] /\ best \in Block
  BY DEF TypeInv, TypeOK
<1>5. \A c \in Block : "data" \in status[c] => "data" \in status'[c]
  <2>1. CASE AcceptInvalid(b)  BY <1>4, <2>1 DEF AcceptInvalid
  <2>2. CASE AcceptSide(b)  BY <1>4, <2>2 DEF AcceptSide
  <2>3. CASE AcceptBest(b)
    <3>1. CommitBlock(b)  BY <2>3 DEF AcceptBest
    <3>2. PICK T : status' = [status EXCEPT ![b] = @ \cup {"data"} \cup T]
      BY <3>1 DEF CommitBlock
    <3> QED  BY <1>4, <3>2
  <2> QED  BY <2>1, <2>2, <2>3
<1>6. CASE UNCHANGED <<job, tip, bestWork>> \/ (job' = job /\ tip' = best /\ bestWork' = cwork[best])
  <2>1. At' = At /\ (Rest' <=> Rest)  BY <1>1, <1>6 DEF At, Rest
  <2>2. Stored'  BY <1>1, <1>5, <2>1, StoredStays DEF Good
  <2>3. Kept'  BY <1>1, <1>3, <2>1, KeptStays DEF Good
  <2>4. JobInv'  BY <1>1, <2>1 DEF JobInv
  <2>5. Tips'
    <3>1. cwork[best] = TotalWork(best) /\ best \in Ancestors(best)
      BY Chains DEF Good, Works, TypeInv, TypeOK
    <3> QED  BY <1>1, <1>6, <3>1 DEF Good, Tips
  <2> QED  BY <1>2, <2>2, <2>3, <2>4, <2>5 DEF Good
<1> DEFINE r == GetCommitBranches(b)
<1>7. CASE /\ job' = [NoJob EXCEPT !.new = b, !.con = r.con, !.discon = r.discon,
                       !.conLeft = r.con, !.disconLeft = r.discon, !.last = best]
           /\ UNCHANGED <<tip, bestWork>>
  <2>1. r.con = Ancestors(b) \ Ancestors(best) /\ r.discon = Ancestors(best) \ Ancestors(b)
    BY <1>1, BranchesAre DEF Good
  <2> HIDE DEF r
  <2>2. /\ job'.new = b /\ job'.last = best /\ job'.conLeft = r.con
        /\ job'.disconLeft = r.discon /\ job'.fail = None
    BY <1>7 DEF NoJob
  <2>3. ~Rest'
    <3>1. NoJob.new = None  BY DEF NoJob
    <3>2. job'.new # None  BY <2>2, Tree
    <3> QED  BY <3>1, <3>2 DEF Rest
  <2>4. At' = At  BY <1>1, <2>2, <2>3 DEF At
  <2>5. Stored'  BY <1>1, <1>5, <2>4, StoredStays DEF Good
  <2>6. Kept'  BY <1>1, <1>3, <2>4, KeptStays DEF Good
  <2>7. JobInv'  BY <2>1, <2>2 DEF JobInv
  <2>8. Tips'  BY <1>1, <1>7 DEF Good, Tips
  <2> QED  BY <1>2, <2>5, <2>6, <2>7, <2>8 DEF Good
<1>8. CASE AcceptInvalid(b)  BY <1>6, <1>8 DEF AcceptInvalid, disk
<1>9. CASE AcceptSide(b)  BY <1>6, <1>9 DEF AcceptSide
<1>10. CASE AcceptBest(b)
  <2>1. CommitBlock(b)  BY <1>10 DEF AcceptBest
  <2> QED  BY <1>6, <1>7, <2>1 DEF CommitBlock
<1> QED  BY <1>8, <1>9, <1>10

(* core_DisconnectBlock takes the last block off: the highest one of those *)
(* that are left is the end of the chain.                                  *)
LEMMA GoodDisconnect ==
  ASSUME TypeInv, Good, NEW pool \in SUBSET Pool, DisconnectBlock(pool)
  PROVE  Good'
<1> DEFINE b == Highest(job.disconLeft)
           up == Ancestors(job.new)
           cur == Ancestors(job.last)
<1>1. /\ job.disconLeft # {}
      /\ status' = [status EXCEPT ![b] = (@ \ {"data"}) \cup {"undo"}]
      /\ job' = [job EXCEPT !.disconLeft = @ \ {b}, !.last = pprev[b]]
      /\ UNCHANGED <<index, pprev, cwork, best, bestWork, orphan, blkdb, tip>>
  BY DEF DisconnectBlock
<1>2. /\ ~Rest /\ job.new \in Block /\ job.last \in Block /\ job.last \in index
  BY <1>1, RestJob DEF TypeInv, TypeOK
<1>3. /\ job.disconLeft = cur \ up /\ job.conLeft = up \ cur /\ job.fail = None
  BY <1>1, <1>2 DEF Good, JobInv
<1>4. /\ job.disconLeft \in SUBSET Block  BY JobFields DEF TypeInv
<1>5. b \in cur \ up /\ \A c \in cur \ up : Height[b] >= Height[c]
  BY <1>1, <1>3, <1>4, Highests
<1> HIDE DEF b
<1>6. b = job.last
  <2>1. job.last \in cur /\ \A c \in cur : c = job.last \/ Height[c] < Height[job.last]
    BY <1>2, Chains
  <2>2. job.last \notin up
    <3>1. job.last \in up => cur \subseteq up  BY <1>2, Chains
    <3> QED  BY <1>5, <3>1
  <2>3. Height[b] \in Nat /\ Height[job.last] \in Nat  BY <1>2, <1>4, <1>5, <1>3, Tree
  <2> QED  BY <1>5, <2>1, <2>2, <2>3
<1>7. b # Genesis  BY <1>2, <1>5, Chains
<1>8. pprev[b] = Prev[b] /\ Prev[b] \in Block
  BY <1>2, <1>6, <1>7, Tree DEF Good, Links
<1> DEFINE cur2 == Ancestors(Prev[b])
<1>9. cur = {b} \cup cur2 /\ b \notin cur2
  <2>1. cur = {b} \cup cur2  BY <1>2, <1>6, <1>7, AncestorsIs
  <2>2. b \notin cur2
    <3>1. b \in cur2 => b = Prev[b] \/ Height[b] < Height[Prev[b]]  BY <1>8, Chains
    <3>2. b \in Block  BY <1>2, <1>6
    <3>3. Height[b] = Height[Prev[b]] + 1 /\ Height[Prev[b]] \in Nat /\ Height[b] \in Nat
      BY <1>7, <1>8, <3>2, Tree
    <3> QED  BY <3>1, <3>3
  <2> QED  BY <2>1, <2>2
<1>10. /\ job'.new = job.new /\ job'.last = Prev[b] /\ job'.fail = None
       /\ job'.conLeft = job.conLeft /\ job'.disconLeft = job.disconLeft \ {b}
  <2>1. job \in JobType  BY DEF TypeInv, JobOK
  <2> QED  BY <1>1, <1>3, <1>8, <2>1 DEF JobType
<1>11. ~Rest'
  <2>1. NoJob.new = None  BY DEF NoJob
  <2> QED  BY <1>2, <1>10, <2>1, Tree DEF Rest
<1>12. At' = Prev[b] /\ At = b  BY <1>2, <1>6, <1>10, <1>11 DEF At
<1>13. Links' /\ Works'  BY <1>1, LinksStay DEF Good
<1>14. Stored'
  <2>1. \A c \in cur2 : blkdb[Height[c]] = c /\ "data" \in status[c]
    BY <1>6, <1>9, <1>12 DEF Good, Stored
  <2>2. \A c \in cur2 : status'[c] = status[c]
    <3>1. cur2 \subseteq Block  BY <1>8, Chains
    <3>2. status \in [Block -> SUBSET {"data", "undo", "failed"}]  BY DEF TypeInv, TypeOK
    <3> QED  BY <1>1, <1>9, <3>1, <3>2
  <2> QED  BY <1>1, <1>12, <2>1, <2>2 DEF Stored
<1>15. Kept'
  <2>1. orphan \in [Block -> Block \cup {None}]  BY DEF TypeInv, TypeOK
  <2>2. [Next]_vars  BY DEF Next, CommitStep
  <2>3. ASSUME NEW p \in Block, orphan[p] # None
        PROVE  Readable(orphan[p])' /\ orphan[p] \notin cur2
    <3>1. orphan[p] \in Block /\ Readable(orphan[p]) /\ orphan[p] \notin Ancestors(At)
      BY <2>1, <2>3 DEF Good, Kept
    <3>2. orphan[p] \notin cur2  BY <1>6, <1>9, <1>12, <3>1
    <3>3. PICK x \in Block : x = orphan[p] /\ x = orphan'[p]  BY <1>1, <3>1
    <3>4. Readable(x)'  BY <2>2, <3>1, <3>3, StaysReadable
    <3> QED  BY <3>2, <3>3, <3>4
  <2> QED  BY <1>1, <1>12, <2>3 DEF Kept
<1>16. JobInv'
  <2>1. job.disconLeft \ {b} = cur2 \ up  BY <1>3, <1>9
  <2>2. job.conLeft = up \ cur2  BY <1>3, <1>5, <1>9
  <2> QED  BY <1>10, <2>1, <2>2 DEF JobInv
<1>17. Tips'  BY <1>1 DEF Good, Tips
<1> QED  BY <1>13, <1>14, <1>15, <1>16, <1>17 DEF Good

(* core_ConnectBlock up to the writing of the coins touches no block.      *)
LEMMA GoodCoins ==
  ASSUME TypeInv, Good, NEW pool \in SUBSET Pool, ConnectCoins(pool)
  PROVE  Good'
<1> DEFINE b == Lowest(job.conLeft)
<1>1. /\ job.conLeft # {} /\ job.disconLeft = {}
      /\ job' = [job EXCEPT !.spent = TRUE] \/ job' = [job EXCEPT !.fail = b]
      /\ UNCHANGED <<index, pprev, cwork, status, best, bestWork, orphan, blkdb, tip>>
  BY DEF ConnectCoins, Connecting
<1> HIDE DEF b
<1>2. ~Rest /\ job.new \in Block  BY <1>1, RestJob DEF TypeInv, TypeOK
<1>3. /\ job'.new = job.new /\ job'.last = job.last
      /\ job'.conLeft = job.conLeft /\ job'.disconLeft = job.disconLeft
  <2>1. job \in JobType  BY DEF TypeInv, JobOK
  <2>2. CASE job' = [job EXCEPT !.spent = TRUE]  BY <2>1, <2>2 DEF JobType
  <2>3. CASE job' = [job EXCEPT !.fail = b]  BY <2>1, <2>3 DEF JobType
  <2> QED  BY <1>1, <2>2, <2>3
<1>4. ~Rest'
  <2>1. NoJob.new = None  BY DEF NoJob
  <2> QED  BY <1>2, <1>3, <2>1, Tree DEF Rest
<1>5. At' = At  BY <1>2, <1>3, <1>4 DEF At
<1>6. [Next]_vars  BY DEF Next, CommitStep
<1>7. Links' /\ Works'  BY <1>1, LinksStay DEF Good
<1>8. Stored'  BY <1>1, <1>5, StoredStays DEF Good
<1>9. Kept'  BY <1>1, <1>5, <1>6, KeptStays DEF Good
<1>10. JobInv'  BY <1>1, <1>2, <1>3 DEF Good, JobInv
<1>11. Tips'  BY <1>1 DEF Good, Tips
<1> QED  BY <1>7, <1>8, <1>9, <1>10, <1>11 DEF Good

(* core_ConnectBlock puts a block on: the lowest one of those that are     *)
(* left follows the end of the chain, so the block it overwrites is none   *)
(* of this chain.                                                          *)
LEMMA GoodConnect ==
  ASSUME TypeInv, Good, ConnectBlock
  PROVE  Good'
<1> DEFINE b == Lowest(job.conLeft)
           up == Ancestors(job.new)
           cur == Ancestors(job.last)
<1>1. /\ job.conLeft # {} /\ job.disconLeft = {} /\ job.fail = None
      /\ blkdb' = [blkdb EXCEPT ![Height[b]] = b]
      /\ orphan' = OrphansWithout(b)
      /\ status' = [status EXCEPT ![b] = @ \cup {"data"}]
      /\ job' = [job EXCEPT !.conLeft = @ \ {b}, !.last = b, !.spent = FALSE]
      /\ UNCHANGED <<index, pprev, cwork, best, bestWork, tip>>
  BY DEF ConnectBlock, Connecting
<1>2. /\ ~Rest /\ job.new \in Block /\ job.last \in Block
  BY <1>1, RestJob DEF TypeInv, TypeOK
<1>3. cur \subseteq up /\ job.conLeft = up \ cur
  BY <1>1, <1>2 DEF Good, JobInv
<1>4. job.conLeft \in SUBSET Block  BY JobFields DEF TypeInv
<1>5. b \in up \ cur /\ \A c \in up \ cur : Height[b] <= Height[c]
  BY <1>1, <1>3, <1>4, Lowests
<1> HIDE DEF b
<1>6. b \in Block /\ b # Genesis  BY <1>2, <1>5, Chains
<1>7. /\ Prev[b] \in Block /\ Height[b] = Height[Prev[b]] + 1
      /\ Height[Prev[b]] \in Nat /\ Height[b] \in Nat /\ Height[job.last] \in Nat
  BY <1>2, <1>6, Tree
<1>8. Prev[b] = job.last
  <2>1. Prev[b] \in up  BY <1>2, <1>5, <1>6, Chains
  <2>2. Prev[b] \in cur  BY <1>5, <1>7, <2>1
  <2>3. Height[Prev[b]] <= Height[job.last]  BY <1>2, <1>7, <2>2, Chains
  <2>4. job.last \in cur /\ job.last \in up  BY <1>2, <1>3, Chains
  <2>5. Height[b] <= Height[job.last] => b \in cur  BY <1>2, <1>5, <2>4, HeightsInOrder
  <2>6. Height[job.last] = Height[Prev[b]]  BY <1>5, <1>7, <2>3, <2>5
  <2> QED  BY <1>2, <2>2, <2>4, <2>6, OnePerHeight
<1>9. Ancestors(b) = {b} \cup cur  BY <1>6, <1>8, AncestorsIs
<1>10. \A c \in cur : c # b /\ c \in Block /\ Height[c] # Height[b] /\ Height[c] \in 0 .. MaxHeight
  <2>1. \A c \in cur : c \in Block /\ Height[c] \in 0 .. MaxHeight /\ c # b
    BY <1>2, <1>5, Chains, Heights
  <2>2. \A c \in cur : Height[c] = Height[b] => c = b  BY <1>6, <1>9, OnePerHeight, Chains
  <2> QED  BY <2>1, <2>2
<1>11. /\ job'.new = job.new /\ job'.last = b /\ job'.fail = None
       /\ job'.conLeft = job.conLeft \ {b} /\ job'.disconLeft = {}
  <2>1. job \in JobType  BY DEF TypeInv, JobOK
  <2> QED  BY <1>1, <2>1 DEF JobType
<1>12. ~Rest'
  <2>1. NoJob.new = None  BY DEF NoJob
  <2> QED  BY <1>2, <1>11, <2>1, Tree DEF Rest
<1>13. At' = b /\ At = job.last  BY <1>2, <1>11, <1>12 DEF At
<1>14. Links' /\ Works'  BY <1>1, LinksStay DEF Good
<1>15. Stored'
  <2>1. /\ status \in [Block -> SUBSET {"data", "undo", "failed"}]
        /\ blkdb \in [0 .. MaxHeight -> Block \cup {None}]
    BY DEF TypeInv, TypeOK
  <2>2. Height[b] \in 0 .. MaxHeight  BY <1>6, Heights
  <2>3. blkdb'[Height[b]] = b /\ "data" \in status'[b]  BY <1>1, <1>6, <2>1, <2>2
  <2>4. ASSUME NEW c \in cur PROVE blkdb'[Height[c]] = c /\ "data" \in status'[c]
    <3>1. blkdb[Height[c]] = c /\ "data" \in status[c]  BY <1>13 DEF Good, Stored
    <3> QED  BY <1>1, <1>10, <2>1, <3>1
  <2> QED  BY <1>9, <1>13, <2>3, <2>4 DEF Stored
<1>16. Kept'
  <2>1. orphan \in [Block -> Block \cup {None}]  BY DEF TypeInv, TypeOK
  <2>2. [Next]_vars  BY DEF Next, CommitStep
  <2>3. \A p \in Block : orphan'[p] # None => orphan'[p] = orphan[p] /\ orphan[p] # b
    BY <1>1 DEF OrphansWithout
  <2>4. ASSUME NEW p \in Block, orphan'[p] # None
        PROVE  Readable(orphan[p])' /\ orphan'[p] \notin Ancestors(b)
    <3>1. orphan[p] \in Block /\ Readable(orphan[p]) /\ orphan[p] \notin cur
      BY <1>13, <2>1, <2>3, <2>4 DEF Good, Kept
    <3>2. PICK x \in Block : x = orphan[p] /\ x = orphan'[p]  BY <2>3, <2>4, <3>1
    <3>3. Readable(x)'  BY <2>2, <3>1, <3>2, StaysReadable
    <3> QED  BY <1>9, <2>3, <2>4, <3>1, <3>2, <3>3
  <2> QED  BY <1>13, <2>4 DEF Kept
<1>17. JobInv'
  <2>1. job.conLeft \ {b} = up \ Ancestors(b)  BY <1>3, <1>9
  <2>2. Ancestors(b) \ up = {}  BY <1>3, <1>5, <1>9
  <2> QED  BY <1>11, <2>1, <2>2 DEF JobInv
<1>18. Tips'  BY <1>1 DEF Good, Tips
<1> QED  BY <1>14, <1>15, <1>16, <1>17, <1>18 DEF Good

(* core_CommitBlock settles on the end of the chain, whether all blocks    *)
(* were connected or, where it settles at all, one was not.                *)
LEMMA GoodFinish ==
  ASSUME TypeInv, Good, Settles, FinishCommit
  PROVE  Good' /\ tip' = best'
<1> DEFINE end == IF Reestablish THEN job.last ELSE job.new
<1>1. /\ job.new # None /\ job.disconLeft = {} /\ tip' = end /\ best' = end
      /\ (job.conLeft = {}) \/ (job.fail # None)
      /\ bestWork' = WorkAfter(job.fail = None)
      /\ \/ status' = status
         \/ status' = [status EXCEPT ![job.fail] = @ \cup {"failed"}]
      /\ job' = NoJob
      /\ UNCHANGED <<index, pprev, cwork, orphan, blkdb, arch>>
  BY DEF FinishCommit, EndCommit
<1>2. /\ ~Rest /\ job.new \in Block /\ job.last \in Block /\ job.last \in index /\ job.new \in index
  BY <1>1, RestJob DEF TypeInv, TypeOK
<1>3. end = job.last /\ bestWork' = cwork[job.last]
  <2>1. CASE job.fail = None
    <3>1. Ancestors(job.last) = Ancestors(job.new)
      BY <1>1, <1>2, <2>1 DEF Good, JobInv
    <3>2. job.last \in Ancestors(job.new) /\ job.new \in Ancestors(job.last)
      BY <1>2, <3>1, Chains
    <3>3. job.last = job.new
      <4>1. Height[job.last] \in Nat /\ Height[job.new] \in Nat  BY <1>2, Tree
      <4>2. job.last = job.new \/ Height[job.last] < Height[job.new]  BY <1>2, <3>2, Chains
      <4>3. job.last = job.new \/ Height[job.new] < Height[job.last]  BY <1>2, <3>2, Chains
      <4> QED  BY <4>1, <4>2, <4>3
    <3> QED  BY <1>1, <2>1, <3>3 DEF WorkAfter
  <2>2. CASE job.fail # None
    <3>1. Reestablish  BY <2>2 DEF Settles
    <3> QED  BY <1>1, <2>2, <3>1 DEF WorkAfter
  <2> QED  BY <2>1, <2>2
<1> HIDE DEF end
<1>4. Rest'  BY <1>1 DEF Rest
<1>5. At' = At  BY <1>1, <1>2, <1>3, <1>4 DEF At
<1>6. Links' /\ Works'  BY <1>1, LinksStay DEF Good
<1>7. Stored'
  <2>1. \A c \in Block : "data" \in status[c] => "data" \in status'[c]
    BY <1>1 DEF TypeInv, TypeOK
  <2> QED  BY <1>1, <1>5, <2>1, StoredStays DEF Good
<1>8. Kept'
  <2>1. [Next]_vars  BY DEF Next, CommitStep
  <2> QED  BY <1>1, <1>5, <2>1, KeptStays DEF Good
<1>9. JobInv'  BY <1>4 DEF JobInv
<1>10. Tips'
  <2>1. cwork[job.last] = TotalWork(job.last)  BY <1>2 DEF Good, Works
  <2>2. job.last \in Ancestors(job.last)  BY <1>2, Chains
  <2> QED  BY <1>1, <1>3, <2>1, <2>2 DEF Tips
<1> QED  BY <1>1, <1>6, <1>7, <1>8, <1>9, <1>10 DEF Good

(* ServiceValidateEvent touches no block.                                  *)
LEMMA GoodValidate ==
  ASSUME TypeInv, Good, NEW pool \in SUBSET Pool, ValidateEvent(pool)
  PROVE  Good'
<1>1. UNCHANGED <<index, pprev, pnext, cwork, status, best, bestWork, orphan, job,
                  blkdb, arch, txdb, tip, crashes, torn>>
  BY DEF ValidateEvent
<1>2. At' = At /\ (Rest' <=> Rest)  BY <1>1 DEF At, Rest
<1>3. Links' /\ Works'  BY <1>1, LinksStay DEF Good
<1>4. Stored'  BY <1>1, <1>2, StoredStays DEF Good
<1>5. [Next]_vars  BY DEF Next
<1>6. Kept'  BY <1>1, <1>2, <1>5, KeptStays DEF Good
<1>7. JobInv' /\ Tips'  BY <1>1, <1>2 DEF Good, JobInv, Tips
<1> QED  BY <1>3, <1>4, <1>6, <1>7 DEF Good

(* A step that changes nothing.                                            *)
LEMMA GoodStutter ==
  ASSUME TypeInv, Good, UNCHANGED vars
  PROVE  Good'
<1>1. UNCHANGED <<index, pprev, pnext, cwork, status, best, bestWork, orphan, scan, job,
                  blkdb, arch, txdb, coin, tip, crashes, torn>>
  BY DEF vars, memory, disk
<1>2. At' = At /\ (Rest' <=> Rest)  BY <1>1 DEF At, Rest
<1>3. Links' /\ Works'  BY <1>1, LinksStay DEF Good
<1>4. Stored'  BY <1>1, <1>2, StoredStays DEF Good
<1>5. [Next]_vars  OBVIOUS
<1>6. Kept'  BY <1>1, <1>2, <1>5, KeptStays DEF Good
<1>7. JobInv' /\ Tips'  BY <1>1, <1>2 DEF Good, JobInv, Tips
<1> QED  BY <1>3, <1>4, <1>6, <1>7 DEF Good

(* A restart between two commits loads the chain of the stored tip.        *)
LEMMA LoadsTip ==
  ASSUME TypeInv, Good, Rest
  PROVE  /\ FillTop = Height[tip] /\ blkdb[FillTop] = tip /\ Loaded = Ancestors(tip)
         /\ \A b \in Ancestors(tip) : blkdb[Height[b]] = b
         /\ \A b \in Ancestors(tip) : LoadedWork[Height[b]] = TotalWork(b)
<1>1. TypeOK /\ DbOK  BY DEF TypeInv
<1>2. best \in Block /\ tip \in Block /\ tip \in Ancestors(best)  BY <1>1 DEF TypeOK, Good, Tips
<1>3. Ancestors(tip) \subseteq Ancestors(best)  BY <1>2, Chains
<1>4. \A b \in Ancestors(tip) : blkdb[Height[b]] = b
  BY <1>3 DEF Good, Stored, At
<1>5. Height[tip] \in Nat /\ Height[tip] \in 0 .. MaxHeight /\ blkdb[Height[tip]] = tip
  BY <1>2, <1>4, Tree, Heights, Chains
<1>6. ASSUME NEW h \in 0 .. Height[tip] PROVE blkdb[h] \in Ancestors(tip)
  <2>1. PICK c \in Ancestors(tip) : Height[c] = h  BY <1>2, EveryHeight
  <2> QED  BY <1>4, <2>1
<1>7. Ancestors(tip) \subseteq Block /\ \A b \in Ancestors(tip) : Height[b] \in 0 .. Height[tip]
  <2>1. \A b \in Ancestors(tip) : b \in Block /\ (b = tip \/ Height[b] < Height[tip])
    BY <1>2, Chains
  <2>2. \A b \in Block : Height[b] \in Nat  BY Tree
  <2> QED  BY <1>5, <2>1, <2>2
<1> DEFINE there == {k \in 0 .. MaxHeight : \A g \in 0 .. k : blkdb[g] # None}
           tips == {k \in there : blkdb[k] = tip}
<1>8. Height[tip] \in tips
  <2>1. \A g \in 0 .. Height[tip] : blkdb[g] # None  BY <1>6, <1>7, Tree
  <2> QED  BY <1>5, <2>1
<1>9. \A k \in tips : k = Height[tip]
  BY <1>1, <1>2, Tree DEF DbOK
<1>10. tips # {} /\ tips \subseteq Nat /\ \A y \in tips : y <= Height[tip]
  BY <1>5, <1>8, <1>9
<1>11. FillTop = Max(tips)  BY <1>10 DEF FillTop
<1> HIDE DEF tips
<1>12. FillTop = Height[tip]  BY <1>8, <1>10, <1>11, MaxIs
<1>13. Loaded = Ancestors(tip)
  <2>1. \A b \in Loaded : \E h \in 0 .. Height[tip] : b = blkdb[h]  BY <1>12 DEF Loaded
  <2>2. \A h \in 0 .. Height[tip] : blkdb[h] \in Loaded  BY <1>12 DEF Loaded
  <2>3. Loaded \subseteq Ancestors(tip)  BY <1>6, <2>1
  <2>4. Ancestors(tip) \subseteq Loaded  BY <1>4, <1>7, <2>2
  <2> QED  BY <2>3, <2>4
<1>14. \A b \in Ancestors(tip) : LoadedWork[Height[b]] = TotalWork(b)
  <2>1. \A h \in 0 .. Height[tip] :
          LoadedWork[h] = Work[blkdb[h]] + IF h = 0 THEN 0 ELSE LoadedWork[h - 1]
    BY <1>1, <1>12, LoadedWorkIs
  <2> DEFINE P == {b \in Block : LoadedWork[Height[b]] = TotalWork(b)}
  <2>2. ASSUME NEW b \in Ancestors(tip)
        PROVE  b \in P \/ (Prev[b] \in Ancestors(tip) /\ Height[Prev[b]] < Height[b]
                           /\ (Prev[b] \in P => b \in P))
    <3>1. b \in Block /\ Height[b] \in 0 .. Height[tip] /\ blkdb[Height[b]] = b  BY <1>4, <1>7
    <3>2. LoadedWork[Height[b]] =
            Work[b] + IF Height[b] = 0 THEN 0 ELSE LoadedWork[Height[b] - 1]
      BY <2>1, <3>1
    <3>3. TotalWork(b) = Work[b] + IF b = Genesis THEN 0 ELSE TotalWork(Prev[b])
      BY <3>1, TotalWorkIs
    <3>4. CASE b = Genesis
      <4>1. Height[b] = 0  BY <3>4, Tree
      <4> QED  BY <3>1, <3>2, <3>3, <3>4, <4>1
    <3>5. CASE b # Genesis
      <4>1. /\ Height[b] = Height[Prev[b]] + 1 /\ Height[Prev[b]] \in Nat /\ Height[b] \in Nat
            /\ Prev[b] \in Block
        BY <3>1, <3>5, Tree
      <4>2. Height[b] # 0 /\ Height[b] - 1 = Height[Prev[b]] /\ Height[Prev[b]] < Height[b]
        BY <4>1
      <4>3. Prev[b] \in Ancestors(tip)  BY <1>2, <3>5, Chains
      <4>4. LoadedWork[Height[b]] = Work[b] + LoadedWork[Height[Prev[b]]]  BY <3>2, <4>2
      <4>5. TotalWork(b) = Work[b] + TotalWork(Prev[b])  BY <3>3, <3>5
      <4> QED  BY <3>1, <4>2, <4>3, <4>4, <4>5
    <3> QED  BY <3>4, <3>5
  <2>3. Ancestors(tip) \subseteq P
    <3> HIDE DEF P
    <3> QED  BY <1>7, <2>2, ByLinks
  <2> QED  BY <2>3
<1> QED  BY <1>4, <1>5, <1>12, <1>13, <1>14

(* A restart between two commits rebuilds the index of the stored tip's    *)
(* chain.                                                                  *)
LEMMA GoodRestart ==
  ASSUME TypeInv, Good, Rest, Restart
  PROVE  Good' /\ best' = tip /\ (BadLoaded = {} => tip' = tip)
<1>1. TypeOK /\ DbOK  BY DEF TypeInv
<1>2. /\ FillTop = Height[tip] /\ blkdb[FillTop] = tip /\ Loaded = Ancestors(tip)
      /\ \A b \in Ancestors(tip) : blkdb[Height[b]] = b
      /\ \A b \in Ancestors(tip) : LoadedWork[Height[b]] = TotalWork(b)
  BY LoadsTip
<1>3. /\ index' = Ancestors(tip) /\ best' = tip /\ job' = NoJob /\ blkdb' = blkdb
      /\ bestWork' = LoadedWork[Height[tip]] /\ orphan' = [b \in Block |-> None]
      /\ pprev' = [b \in Block |->
              IF b \in Ancestors(tip) \ {Genesis} THEN blkdb[Height[b] - 1] ELSE None]
      /\ cwork' = [b \in Block |-> IF b \in Ancestors(tip) THEN LoadedWork[Height[b]] ELSE 0]
      /\ status' = [b \in Block |-> IF b \in Ancestors(tip) THEN {"data"} ELSE {}]
      /\ tip' = IF BadLoaded = {} THEN tip ELSE blkdb[Min(BadLoaded) - 1]
  BY <1>2, RestartIs
<1>4. tip \in Block /\ Ancestors(tip) \subseteq Block /\ tip \in Ancestors(tip)
  BY <1>1, Chains DEF TypeOK
<1>5. Rest' /\ At' = tip  BY <1>3 DEF Rest, At
<1>6. Links'
  <2>1. ASSUME NEW b \in Ancestors(tip), b # Genesis
        PROVE  blkdb[Height[b] - 1] = Prev[b] /\ Prev[b] \in Ancestors(tip)
    <3>1. Prev[b] \in Ancestors(tip)  BY <1>4, <2>1, Chains
    <3>2. Height[b] = Height[Prev[b]] + 1 /\ Height[Prev[b]] \in Nat  BY <1>4, <2>1, <3>1, Tree
    <3>3. Height[b] - 1 = Height[Prev[b]]  BY <3>2
    <3> QED  BY <1>2, <3>1, <3>3
  <2>2. pprev'[Genesis] = None  BY <1>3, Tree
  <2>3. \A b \in Ancestors(tip) : b # Genesis => pprev'[b] = Prev[b]  BY <1>3, <1>4, <2>1
  <2> QED  BY <1>3, <2>1, <2>2, <2>3 DEF Links
<1>7. Works'  BY <1>2, <1>3, <1>4 DEF Works
<1>8. Stored'  BY <1>2, <1>3, <1>4, <1>5 DEF Stored
<1>9. Kept'  BY <1>3 DEF Kept
<1>10. JobInv'  BY <1>5 DEF JobInv
<1>11. Tips'
  <2>1. bestWork' = TotalWork(best')  BY <1>2, <1>3, <1>4
  <2>2. tip' \in Ancestors(tip)
    <3>1. CASE BadLoaded # {}
      <4>1. FillTop \in Nat  BY <1>1, LoadedIs
      <4>2. BadLoaded \in SUBSET Nat /\ BadLoaded \subseteq 1 .. FillTop
        BY <4>1 DEF BadLoaded
      <4> DEFINE m == Min(BadLoaded)
      <4>3. m \in BadLoaded  BY <3>1, <4>2, MinIn
      <4>4. tip' = blkdb[m - 1]  BY <1>3, <3>1
      <4> HIDE DEF m
      <4>5. m \in 1 .. FillTop  BY <4>2, <4>3
      <4>6. m - 1 \in 0 .. FillTop  BY <4>1, <4>5
      <4>7. blkdb[m - 1] \in Loaded  BY <4>6 DEF Loaded
      <4> QED  BY <1>2, <4>4, <4>7
    <3>2. CASE BadLoaded = {}  BY <1>3, <1>4, <3>2
    <3> QED  BY <3>1, <3>2
  <2> QED  BY <1>3, <2>1, <2>2 DEF Tips
<1> QED  BY <1>3, <1>6, <1>7, <1>8, <1>9, <1>10, <1>11 DEF Good

(* Only a crash in a commit is remembered.                                 *)
LEMMA TornStays ==
  ASSUME TypeInv, [Next]_vars
  PROVE  torn' = torn \/ (Restart /\ torn' = (torn \/ ~Rest))
<1>1. CASE \E b \in Block \ {Genesis} : ProcessBlock(b) \/ AcceptBlockHeader(b)
  BY <1>1 DEF ProcessBlock, AddOrphanBlock, AcceptInvalid, AcceptSide, AcceptBest,
              AcceptBlockHeader
<1>2. CASE CommitStep
  BY <1>2 DEF CommitStep, DisconnectBlock, ConnectCoins, ConnectBlock, FinishCommit, EndCommit
<1>3. CASE \E pool \in SUBSET Pool : ValidateEvent(pool)  BY <1>3 DEF ValidateEvent
<1>4. CASE Restart  BY <1>4, RestartIs
<1>5. CASE UNCHANGED vars  BY <1>5 DEF vars
<1> QED  BY <1>1, <1>2, <1>3, <1>4, <1>5 DEF Next

(* Every step keeps the chain invariant where no commit has been torn.     *)
LEMMA GoodNext ==
  ASSUME TypeInv, GoodInv, Settles, [Next]_vars
  PROVE  GoodInv'
<1> SUFFICES ASSUME ~torn' PROVE Good'  BY DEF GoodInv
<1>1. torn \in BOOLEAN  BY DEF TypeInv, TypeOK
<1>2. Good /\ (Restart => Rest)
  <2>1. ~torn  BY <1>1, TornStays
  <2>2. Restart => torn' = (torn \/ ~Rest)  BY RestartIs
  <2> QED  BY <1>1, <2>1, <2>2 DEF GoodInv
<1>3. CASE \E b \in Block \ {Genesis} : ProcessBlock(b) \/ AcceptBlockHeader(b)
  BY <1>2, <1>3, GoodOrphan, GoodAccept, GoodHeader DEF ProcessBlock
<1>4. CASE \E pool \in SUBSET Pool : DisconnectBlock(pool) \/ ConnectCoins(pool)
  BY <1>2, <1>4, GoodDisconnect, GoodCoins
<1>5. CASE ConnectBlock \/ FinishCommit  BY <1>2, <1>5, GoodConnect, GoodFinish
<1>6. CASE \E pool \in SUBSET Pool : ValidateEvent(pool)  BY <1>2, <1>6, GoodValidate
<1>7. CASE Restart  BY <1>2, <1>7, GoodRestart
<1>8. CASE UNCHANGED vars  BY <1>2, <1>8, GoodStutter
<1> QED  BY <1>3, <1>4, <1>5, <1>6, <1>7, <1>8 DEF Next, CommitStep

(* The chain invariant holds at every step of a commit too, as long as no  *)
(* failed commit goes on to the block that failed.                         *)
THEOREM ChainGood == Spec /\ []Settles => []GoodInv
<1>1. Init => GoodInv  BY GoodInit DEF GoodInv
<1>2. TypeInv /\ GoodInv /\ Settles /\ [Next]_vars => GoodInv'  BY GoodNext
<1> QED  BY <1>1, <1>2, ChainTypeInvariant, PTL DEF Spec

(* Between two commits every block of the best chain is in the block       *)
(* database at its height and flagged so: core_CommitBlock, whatever       *)
(* branches it takes off and puts on and wherever it fails, never leaves a *)
(* block of another branch in the chain's place.                           *)
THEOREM BestChainStored == Spec /\ []Settles => []ChainStored
<1>1. GoodInv => ChainStored  BY DEF GoodInv, Good, Stored, At, ChainStored
<1> QED  BY <1>1, ChainGood, PTL

(* An orphan can be read and is not part of the best chain:                *)
(* shc_RemoveOrphanBlock forgets every block that core_ConnectBlock        *)
(* connects, and disconnecting never brings one back.                      *)
THEOREM OrphansOutside == Spec /\ []Settles => []OrphanOutside
<1>1. GoodInv => OrphanOutside  BY DEF GoodInv, Good, Kept, At, OrphanOutside
<1> QED  BY <1>1, ChainGood, PTL

(* The stored tip is the best block.                                       *)
TipIsBest == ~torn => tip = best

(* Nothing that is loaded lacks its inputs.                                *)
LEMMA NothingBad ==
  ASSUME TypeInv, Good, Rest, ~torn, InputsFound
  PROVE  BadLoaded = {}
<1>1. Loaded = Ancestors(tip)  BY LoadsTip
<1>2. Ancestors(tip) \subseteq Ancestors(best)
  BY Chains DEF Good, Tips, TypeInv, TypeOK
<1>3. /\ FillTop \in Nat
      /\ \A h \in 0 .. FillTop : blkdb[h] \in Loaded /\ Height[blkdb[h]] = h
  BY LoadedIs DEF TypeInv
<1>4. ASSUME NEW h \in 1 .. FillTop PROVE CheckTransactionInputs(blkdb[h])
  <2>1. h \in 0 .. FillTop /\ h # 0  BY <1>3
  <2>2. blkdb[h] # Genesis  BY <1>3, <2>1, Tree
  <2>3. blkdb[h] \in Ancestors(best)  BY <1>1, <1>2, <1>3, <2>1
  <2> QED  BY <2>2, <2>3 DEF InputsFound
<1> QED  BY <1>4 DEF BadLoaded

(* Every step keeps the stored tip at the best block.                      *)
LEMMA TipNext ==
  ASSUME TypeInv, GoodInv, TipIsBest, Settles, InputsFound, [Next]_vars
  PROVE  TipIsBest'
<1> SUFFICES ASSUME ~torn' PROVE tip' = best'  BY DEF TipIsBest
<1>1. torn \in BOOLEAN  BY DEF TypeInv, TypeOK
<1>2. Good /\ ~torn /\ tip = best /\ (Restart => Rest)
  <2>1. ~torn  BY <1>1, TornStays
  <2>2. Restart => torn' = (torn \/ ~Rest)  BY RestartIs
  <2> QED  BY <1>1, <2>1, <2>2 DEF GoodInv, TipIsBest
<1>3. CASE \E b \in Block \ {Genesis} : ProcessBlock(b) \/ AcceptBlockHeader(b)
  <2>1. PICK b \in Block \ {Genesis} : ProcessBlock(b) \/ AcceptBlockHeader(b)  BY <1>3
  <2>2. CASE AddOrphanBlock(b)  BY <1>2, <2>2 DEF AddOrphanBlock
  <2>3. CASE AcceptInvalid(b) \/ AcceptSide(b)  BY <1>2, <2>3 DEF AcceptInvalid, AcceptSide, disk
  <2>4. CASE AcceptBest(b)
    <3>1. tip' = tip \/ tip' = best  BY <2>4 DEF AcceptBest, CommitBlock
    <3> QED  BY <1>2, <2>4, <3>1 DEF AcceptBest
  <2>5. CASE AcceptBlockHeader(b)  BY <1>2, <2>5 DEF AcceptBlockHeader, disk
  <2> QED  BY <2>1, <2>2, <2>3, <2>4, <2>5 DEF ProcessBlock
<1>4. CASE \E pool \in SUBSET Pool : DisconnectBlock(pool) \/ ConnectCoins(pool)
  BY <1>2, <1>4 DEF DisconnectBlock, ConnectCoins
<1>5. CASE ConnectBlock  BY <1>2, <1>5 DEF ConnectBlock
<1>6. CASE FinishCommit  BY <1>2, <1>6, GoodFinish
<1>7. CASE \E pool \in SUBSET Pool : ValidateEvent(pool)  BY <1>2, <1>7 DEF ValidateEvent
<1>8. CASE Restart  BY <1>2, <1>8, GoodRestart, NothingBad
<1>9. CASE UNCHANGED vars  BY <1>2, <1>9 DEF vars, memory, disk
<1> QED
  BY <1>3, <1>4, <1>5, <1>6, <1>7, <1>8, <1>9 DEF Next, CommitStep

(* The stored tip is the best block, during a commit too.                  *)
LEMMA TipInvariant == Spec /\ []Settles /\ []InputsFound => []TipIsBest
<1>1. Init => TipIsBest  BY DEF Init, TipIsBest
<1>2. TypeInv /\ GoodInv /\ TipIsBest /\ Settles /\ InputsFound /\ [Next]_vars => TipIsBest'
  BY TipNext
<1> QED  BY <1>1, <1>2, ChainTypeInvariant, ChainGood, PTL DEF Spec

(* The stored tip, the work to beat and the links in memory always         *)
(* describe the same chain, the best one.                                  *)
THEOREM TipIsDurable == Spec /\ []Settles /\ []InputsFound => []TipDurable
<1>1. ASSUME TypeInv, GoodInv, TipIsBest PROVE TipDurable
  <2> SUFFICES ASSUME Rest, ~torn
               PROVE  tip = best /\ bestWork = TotalWork(best) /\ MainChain = Ancestors(best)
    BY DEF TipDurable
  <2>1. Good /\ tip = best  BY <1>1 DEF GoodInv, TipIsBest
  <2>2. /\ pprev \in [Block -> Block \cup {None}] /\ index \in SUBSET Block /\ best \in index
    BY <1>1 DEF TypeInv, TypeOK
  <2>3. \A c \in index : Branch(c) = Ancestors(c)
    BY <2>1, <2>2, BranchIsChain DEF Good, Links
  <2>4. MainChain = Ancestors(best)  BY <2>2, <2>3 DEF MainChain
  <2> QED  BY <2>1, <2>4 DEF Good, Tips
<1> QED  BY <1>1, ChainTypeInvariant, ChainGood, TipInvariant, PTL

(* A restart between two commits finds the chain that it left.             *)
RestartKeepsBest == Restart /\ Rest /\ ~torn => best' = best
(* shc_LoadBlockIndex after a crash between two commits finds the best     *)
(* block that the service had.                                             *)
THEOREM RestartFindsBest ==
  Spec /\ []Settles /\ []InputsFound => [][RestartKeepsBest]_vars
<1>1. TypeInv /\ GoodInv /\ TipIsBest => [RestartKeepsBest]_vars
  BY GoodRestart DEF GoodInv, TipIsBest, RestartKeepsBest
<1> QED  BY <1>1, ChainTypeInvariant, ChainGood, TipInvariant, PTL


-----------------------------------------------------------------------------
(* What connecting and disconnecting the transactions of a block computes. *)

(* An input can be spent when it is found, mature, and not spent by a      *)
(* transaction of the chain.                                               *)
Found(b, p, pool) ==
  /\ VerifyTxHash(p) \/ p \in pool \/ p \in Txs(b)
  /\ Coinbase(p) =>
       /\ VerifyTxHash(p)
       /\ blkdb[txdb[p]] \in index
       /\ Height[b] >= Height[blkdb[txdb[p]]] + Maturity
Free(t, o) == o = None \/ o = t \/ ~VerifyTxHash(o)

(* Only the mark of the output itself matters.                             *)
LEMMA SpendableIs ==
  ASSUME NEW b, NEW t, NEW p, NEW outs, NEW pool
  PROVE  Spendable(b, t, p, outs, pool) <=> Found(b, p, pool) /\ Free(t, outs[p])
  BY DEF Spendable, Found, Free

(* The transactions of a list.                                             *)
LEMMA InList ==
  ASSUME NEW s \in Seq(Tx)
  PROVE  /\ \A x : x \in ToSet(s) <=> \E i \in 1 .. Len(s) : s[i] = x
         /\ ToSet(s) \subseteq Tx
<1>1. Len(s) \in Nat /\ DOMAIN s = 1 .. Len(s) /\ \A i \in 1 .. Len(s) : s[i] \in Tx
  BY Lists
<1> QED  BY <1>1 DEF ToSet

(* The marks after a transaction, and the verdict.                         *)
MarksInputs(q, r, t) ==
  \A p \in Tx : q.outs[p] = IF p \in ToSet(Vin[t]) THEN t ELSE r.outs[p]
Judged(q, b, pool, r, t) ==
  q.ok <=> r.ok /\ \A p \in ToSet(Vin[t]) : Spendable(b, t, p, r.outs, pool)

(* All inputs of a transaction are marked, and each was free before.       *)
LEMMA SpendsInputs ==
  ASSUME NEW b, NEW pool, NEW r \in SpendState, NEW t \in Tx
  PROVE  /\ MarksInputs(SpendInputs(b, pool, r, t), r, t)
         /\ Judged(SpendInputs(b, pool, r, t), b, pool, r, t)
<1> DEFINE s == Vin[t]
           n == Len(s)
<1>1. PICK run \in [0 .. n -> SpendState] :
        SpendRun(b, pool, r, t, run) /\ SpendInputs(b, pool, r, t) = run[n]
  BY SpendInputsRuns
<1>2. s \in Seq(Tx)  BY ChainAssumption
<1>3. n \in Nat /\ \A i \in 1 .. n : s[i] \in Tx  BY <1>2, Lists
<1>4. \A x : x \in ToSet(s) <=> \E i \in 1 .. n : s[i] = x  BY <1>2, InList
<1>5. /\ run[0] = r
      /\ \A k \in 1 .. n :
           run[k] = [ok |-> run[k - 1].ok /\ Spendable(b, t, s[k], run[k - 1].outs, pool),
                     outs |-> [run[k - 1].outs EXCEPT ![s[k]] = t]]
  BY <1>1 DEF SpendRun
<1> HIDE DEF s, n
<1> DEFINE In(k, p) == \E i \in 1 .. k : s[i] = p
           Outs(k) == \A p \in Tx : run[k].outs[p] = IF In(k, p) THEN t ELSE r.outs[p]
           Ok(k) == run[k].ok <=> r.ok /\ \A i \in 1 .. k : Spendable(b, t, s[i], r.outs, pool)
           P == {k \in 0 .. n : Outs(k) /\ Ok(k)}
<1>6. 0 \in P
  <2>1. 1 .. 0 = {} /\ 0 \in 0 .. n  BY <1>3
  <2>2. Outs(0)  BY <1>5, <2>1
  <2>3. Ok(0)  BY <1>5, <2>1
  <2> QED  BY <2>1, <2>2, <2>3
<1>7. ASSUME NEW k \in 1 .. n, k - 1 \in P PROVE k \in P
  <2>1. k \in 0 .. n /\ k - 1 \in 0 .. n /\ s[k] \in Tx  BY <1>3
  <2>2. 1 .. k = (1 .. (k - 1)) \cup {k}  BY <1>3
  <2>3. /\ run[k].outs = [run[k - 1].outs EXCEPT ![s[k]] = t]
        /\ run[k].ok <=> run[k - 1].ok /\ Spendable(b, t, s[k], run[k - 1].outs, pool)
    <3>1. run[k] = [ok |-> run[k - 1].ok /\ Spendable(b, t, s[k], run[k - 1].outs, pool),
                    outs |-> [run[k - 1].outs EXCEPT ![s[k]] = t]]
      BY <1>5
    <3> DEFINE v == run[k - 1].ok /\ Spendable(b, t, s[k], run[k - 1].outs, pool)
               o == [run[k - 1].outs EXCEPT ![s[k]] = t]
    <3>2. run[k] = [ok |-> v, outs |-> o]  BY <3>1
    <3> HIDE DEF v, o
    <3>3. run[k].ok = v /\ run[k].outs = o  BY <3>2
    <3> QED  BY <3>3 DEF v, o
  <2>4. run[k - 1].outs \in CoinMap  BY <2>1 DEF SpendState
  <2>5. Outs(k - 1) /\ Ok(k - 1)  BY <1>7
  <2>6. Outs(k)
    <3> SUFFICES ASSUME NEW p \in Tx PROVE run[k].outs[p] = IF In(k, p) THEN t ELSE r.outs[p]
      OBVIOUS
    <3>1. In(k, p) <=> In(k - 1, p) \/ s[k] = p  BY <2>2
    <3>2. run[k].outs[p] = IF p = s[k] THEN t ELSE run[k - 1].outs[p]
      BY <2>1, <2>3, <2>4 DEF CoinMap
    <3>3. run[k - 1].outs[p] = IF In(k - 1, p) THEN t ELSE r.outs[p]  BY <2>5
    <3> HIDE DEF In
    <3> QED  BY <3>1, <3>2, <3>3
  <2>7. Ok(k)
    <3>1. run[k - 1].outs[s[k]] = IF In(k - 1, s[k]) THEN t ELSE r.outs[s[k]]  BY <2>1, <2>5
    <3>2. CASE In(k - 1, s[k])
      <4>1. PICK i \in 1 .. (k - 1) : s[i] = s[k]  BY <3>2
      <4>2. Free(t, run[k - 1].outs[s[k]])  BY <3>1, <3>2 DEF Free
      <4>3. Spendable(b, t, s[k], r.outs, pool) <=> Spendable(b, t, s[i], r.outs, pool)
        BY <4>1
      <4>4. Spendable(b, t, s[k], run[k - 1].outs, pool) <=> Found(b, s[k], pool)
        BY <4>2, SpendableIs
      <4>5. Spendable(b, t, s[k], r.outs, pool) => Found(b, s[k], pool)  BY SpendableIs
      <4> QED  BY <2>2, <2>3, <2>5, <4>1, <4>3, <4>4, <4>5
    <3>3. CASE ~In(k - 1, s[k])
      <4>1. Spendable(b, t, s[k], run[k - 1].outs, pool) <=> Spendable(b, t, s[k], r.outs, pool)
        BY <3>1, <3>3, SpendableIs
      <4> QED  BY <2>2, <2>3, <2>5, <4>1
    <3> QED  BY <3>2, <3>3
  <2> HIDE DEF Outs, Ok
  <2> QED  BY <2>1, <2>6, <2>7
<1> HIDE DEF P
<1>8. n \in P
  <2>1. \A k \in 0 .. n : k \in P  BY <1>3, <1>6, <1>7, UpTo
  <2> QED  BY <1>3, <2>1
<1>9. Outs(n) /\ Ok(n) /\ n \in 0 .. n  BY <1>3, <1>8 DEF P
<1>10. \A p \in Tx : run[n].outs[p] = IF p \in ToSet(s) THEN t ELSE r.outs[p]
  BY <1>4, <1>9
<1>11. run[n].ok <=> r.ok /\ \A p \in ToSet(s) : Spendable(b, t, p, r.outs, pool)
  BY <1>4, <1>9
<1>12. MarksInputs(run[n], r, t)  BY <1>10 DEF MarksInputs, s
<1>13. Judged(run[n], b, pool, r, t)  BY <1>11 DEF Judged, s
<1> QED  BY <1>1, <1>12, <1>13

(* What CheckBlock and ConnectBlock would have to refuse and do not: two   *)
(* transactions of a block that spend the same output, and one that comes  *)
(* before an input of it.                                                  *)
SpendsOnce(b) ==
  \A t, u \in Txs(b) : t # u => ToSet(Vin[t]) \cap ToSet(Vin[u]) = {}
InputsFirst(b) ==
  \A i, k \in DOMAIN Vtx[b] : Vtx[b][k] \in ToSet(Vin[Vtx[b][i]]) => k < i
PlainBlocks ==
  \A b \in Block \ (BadBlock \cup BadConnect) : SpendsOnce(b) /\ InputsFirst(b)

(* The lists of transactions of a block and of the inputs of one.          *)
LEMMA TxLists ==
  /\ \A b \in Block :
       /\ Vtx[b] \in Seq(Tx) /\ Len(Vtx[b]) \in Nat
       /\ DOMAIN Vtx[b] = 1 .. Len(Vtx[b])
       /\ \A i \in 1 .. Len(Vtx[b]) : Vtx[b][i] \in Txs(b)
       /\ \A t \in Txs(b) : \E i \in 1 .. Len(Vtx[b]) : Vtx[b][i] = t
       /\ Txs(b) \subseteq Tx
  /\ \A t \in Tx : Vin[t] \in Seq(Tx) /\ ToSet(Vin[t]) \subseteq Tx
<1>1. ASSUME NEW b \in Block
      PROVE  /\ Vtx[b] \in Seq(Tx) /\ Len(Vtx[b]) \in Nat
             /\ DOMAIN Vtx[b] = 1 .. Len(Vtx[b])
             /\ \A i \in 1 .. Len(Vtx[b]) : Vtx[b][i] \in Txs(b)
             /\ \A t \in Txs(b) : \E i \in 1 .. Len(Vtx[b]) : Vtx[b][i] = t
             /\ Txs(b) \subseteq Tx
  <2>1. Vtx[b] \in Seq(Tx)  BY ChainAssumption
  <2>2. Len(Vtx[b]) \in Nat /\ DOMAIN Vtx[b] = 1 .. Len(Vtx[b])  BY <2>1, Lists
  <2>3. /\ \A x : x \in ToSet(Vtx[b]) <=> \E i \in 1 .. Len(Vtx[b]) : Vtx[b][i] = x
        /\ ToSet(Vtx[b]) \subseteq Tx
    BY <2>1, InList
  <2> QED  BY <2>1, <2>2, <2>3 DEF Txs
<1>2. ASSUME NEW t \in Tx PROVE Vin[t] \in Seq(Tx) /\ ToSet(Vin[t]) \subseteq Tx
  <2>1. Vin[t] \in Seq(Tx)  BY ChainAssumption
  <2> QED  BY <2>1, InList
<1> QED  BY <1>1, <1>2

(* Connecting the inputs of a block marks each of them with the one        *)
(* transaction that spends it, and succeeds when each was free before.     *)
LEMMA ConnectsInputs ==
  ASSUME NEW b \in Block, NEW pool, coin \in CoinMap, SpendsOnce(b)
  PROVE  /\ \A t \in Txs(b) : \A p \in ToSet(Vin[t]) : ConnectInputs(b, pool).outs[p] = t
         /\ \A p \in Tx : (\A t \in Txs(b) : p \notin ToSet(Vin[t])) =>
              ConnectInputs(b, pool).outs[p] = coin[p]
         /\ ConnectInputs(b, pool).ok <=>
              \A t \in Txs(b) : \A p \in ToSet(Vin[t]) : Spendable(b, t, p, coin, pool)
<1> DEFINE s == Vtx[b]
           n == Len(s)
<1>1. PICK run \in [0 .. n -> SpendState] :
        /\ run[0] = [ok |-> TRUE, outs |-> coin]
        /\ \A k \in 1 .. n : run[k] = SpendInputs(b, pool, run[k - 1], s[k])
        /\ ConnectInputs(b, pool) = run[n]
  BY ConnectInputsRuns
<1>2. /\ n \in Nat
      /\ \A i \in 1 .. n : s[i] \in Txs(b) /\ s[i] \in Tx
      /\ \A t \in Txs(b) : \E i \in 1 .. n : s[i] = t
  BY TxLists
<1>a. \A t \in Txs(b) : \A p \in ToSet(Vin[t]) : p \in Tx  BY TxLists
<1> HIDE DEF s, n
<1> DEFINE Spent(k, p) == \E i \in 1 .. k : p \in ToSet(Vin[s[i]])
           Marks(k) == \A i \in 1 .. k : \A p \in ToSet(Vin[s[i]]) : run[k].outs[p] = s[i]
           Rest0(k) == \A p \in Tx : ~Spent(k, p) => run[k].outs[p] = coin[p]
           Ok(k) == run[k].ok <=>
                      \A i \in 1 .. k : \A p \in ToSet(Vin[s[i]]) : Spendable(b, s[i], p, coin, pool)
           P == {k \in 0 .. n : Marks(k) /\ Rest0(k) /\ Ok(k)}
<1>3. 0 \in P
  <2>1. 1 .. 0 = {} /\ 0 \in 0 .. n  BY <1>2
  <2>2. run[0].outs = coin /\ run[0].ok  BY <1>1
  <2> QED  BY <2>1, <2>2
<1>4. ASSUME NEW k \in 1 .. n, k - 1 \in P PROVE k \in P
  <2>1. k \in 0 .. n /\ k - 1 \in 0 .. n /\ s[k] \in Tx /\ s[k] \in Txs(b)  BY <1>2
  <2>2. 1 .. k = (1 .. (k - 1)) \cup {k} /\ \A i \in 1 .. k : s[i] \in Txs(b)  BY <1>2
  <2> DEFINE V == ToSet(Vin[s[k]])
             outs == run[k - 1].outs
  <2>3. run[k - 1] \in SpendState /\ outs \in CoinMap  BY <2>1 DEF SpendState
  <2>4. /\ \A p \in Tx : run[k].outs[p] = IF p \in V THEN s[k] ELSE outs[p]
        /\ run[k].ok <=> run[k - 1].ok /\ \A p \in V : Spendable(b, s[k], p, outs, pool)
    <3>1. run[k] = SpendInputs(b, pool, run[k - 1], s[k])  BY <1>1
    <3>2. MarksInputs(run[k], run[k - 1], s[k]) /\ Judged(run[k], b, pool, run[k - 1], s[k])
      BY <2>1, <2>3, <3>1, SpendsInputs
    <3> QED  BY <3>2 DEF MarksInputs, Judged
  <2>5. Marks(k - 1) /\ Rest0(k - 1) /\ Ok(k - 1)  BY <1>4
  <2>6. V \subseteq Tx  BY <2>1, TxLists
  <2>7. ASSUME NEW i \in 1 .. k, NEW p \in ToSet(Vin[s[i]]), p \in V PROVE s[i] = s[k]
    BY <2>1, <2>2, <2>7 DEF SpendsOnce
  <2>8. ASSUME NEW i \in 1 .. k, NEW p \in ToSet(Vin[s[i]]) PROVE run[k].outs[p] = s[i]
    <3>1. p \in Tx  BY <1>a, <2>2
    <3>2. CASE p \in V  BY <2>4, <2>7, <3>1, <3>2
    <3>3. CASE p \notin V
      <4>1. i \in 1 .. (k - 1)  BY <2>2, <3>3
      <4>2. outs[p] = s[i]  BY <2>5, <4>1
      <4> QED  BY <2>4, <3>1, <3>3, <4>2
    <3> QED  BY <3>2, <3>3
  <2>9. ASSUME NEW p \in Tx, ~Spent(k, p) PROVE run[k].outs[p] = coin[p]
    <3>1. p \notin V /\ ~Spent(k - 1, p)  BY <2>2, <2>9
    <3>2. outs[p] = coin[p]  BY <2>5, <3>1
    <3> QED  BY <2>4, <3>1, <3>2
  <2>10. Ok(k)
    <3>1. ASSUME NEW p \in V, ~Spent(k - 1, p)
          PROVE  Spendable(b, s[k], p, outs, pool) <=> Spendable(b, s[k], p, coin, pool)
      <4>1. outs[p] = coin[p]  BY <2>5, <2>6, <3>1
      <4> QED  BY <4>1, SpendableIs
    <3>2. ASSUME NEW p \in V, Spent(k - 1, p),
                 \A i \in 1 .. (k - 1) : \A q \in ToSet(Vin[s[i]]) : Spendable(b, s[i], q, coin, pool)
          PROVE  Spendable(b, s[k], p, outs, pool) /\ Spendable(b, s[k], p, coin, pool)
      <4>1. PICK i \in 1 .. (k - 1) : p \in ToSet(Vin[s[i]])  BY <3>2
      <4>2. s[i] = s[k]  BY <2>2, <2>7, <4>1
      <4>3. outs[p] = s[k]  BY <2>5, <4>1, <4>2
      <4>4. Spendable(b, s[k], p, coin, pool)  BY <3>2, <4>1, <4>2
      <4>5. Found(b, p, pool)  BY <4>4, SpendableIs
      <4>6. Free(s[k], outs[p])  BY <4>3 DEF Free
      <4> QED  BY <4>4, <4>5, <4>6, SpendableIs
    <3> DEFINE All(j) == \A p \in ToSet(Vin[s[j]]) : Spendable(b, s[j], p, coin, pool)
    <3>3. run[k - 1].ok <=> \A i \in 1 .. (k - 1) : All(i)  BY <2>5
    <3>4. ASSUME \A i \in 1 .. (k - 1) : All(i)
          PROVE  (\A p \in V : Spendable(b, s[k], p, outs, pool)) <=> All(k)
      BY <3>1, <3>2, <3>4
    <3> HIDE DEF All
    <3>5. run[k].ok <=> \A i \in 1 .. k : All(i)  BY <2>2, <2>4, <3>3, <3>4
    <3> QED  BY <3>5 DEF All
  <2>11. Marks(k)  BY <2>8
  <2>12. Rest0(k)  BY <2>9
  <2> HIDE DEF Marks, Rest0, Ok
  <2> QED  BY <2>1, <2>10, <2>11, <2>12
<1> HIDE DEF P
<1>5. n \in P
  <2>1. \A k \in 0 .. n : k \in P  BY <1>2, <1>3, <1>4, UpTo
  <2> QED  BY <1>2, <2>1
<1>6. Marks(n) /\ Rest0(n) /\ Ok(n)  BY <1>5 DEF P
<1>7. \A t \in Txs(b) : \A p \in ToSet(Vin[t]) : run[n].outs[p] = t  BY <1>2, <1>6
<1>8. \A p \in Tx : (\A t \in Txs(b) : p \notin ToSet(Vin[t])) => run[n].outs[p] = coin[p]
  BY <1>2, <1>6
<1>9. run[n].ok <=> \A t \in Txs(b) : \A p \in ToSet(Vin[t]) : Spendable(b, t, p, coin, pool)
  <2> DEFINE All(t) == \A p \in ToSet(Vin[t]) : Spendable(b, t, p, coin, pool)
  <2>1. run[n].ok <=> \A i \in 1 .. n : All(s[i])  BY <1>6
  <2> HIDE DEF All
  <2>2. run[n].ok <=> \A t \in Txs(b) : All(t)  BY <1>2, <2>1
  <2> QED  BY <2>2 DEF All
<1> QED  BY <1>1, <1>7, <1>8, <1>9

(* Which transactions are found does not change below a transaction that   *)
(* is taken off.                                                           *)
LEMMA FindsInputs ==
  ASSUME NEW t \in Tx, NEW refs, NEW pool, \A p \in ToSet(Vin[t]) : ReadTx(refs, p)
  PROVE  FillInputs(t, refs, pool) = ToSet(Vin[t])
<1>1. Vin[t] \in Seq(Tx)  BY TxLists
<1>2. Len(Vin[t]) \in Nat /\ DOMAIN Vin[t] = 1 .. Len(Vin[t])  BY <1>1, Lists
<1>3. ASSUME NEW k \in DOMAIN Vin[t], NEW m \in 1 .. k PROVE ReadTx(refs, Vin[t][m])
  <2>1. m \in DOMAIN Vin[t]  BY <1>2
  <2>2. Vin[t][m] \in ToSet(Vin[t])  BY <2>1 DEF ToSet
  <2> QED  BY <2>2
<1>4. {k \in DOMAIN Vin[t] : \A m \in 1 .. k : ReadTx(refs, Vin[t][m]) \/ Vin[t][m] \in pool}
        = DOMAIN Vin[t]
  BY <1>3
<1> QED  BY <1>4 DEF FillInputs, ToSet

(* Disconnecting a block whose inputs are all in the chain takes back the  *)
(* marks of its inputs and of its outputs, and its references, and nothing *)
(* else.                                                                   *)
LEMMA DisconnectsInputs ==
  ASSUME NEW b \in Block, NEW pool, coin \in CoinMap, txdb \in RefMap, InputsFirst(b),
         \A t \in Txs(b) : \A p \in ToSet(Vin[t]) : VerifyTxHash(p)
  PROVE  /\ \A t \in Txs(b) : DisconnectTxs(b, pool).refs[t] = None
         /\ \A t \in Tx \ Txs(b) : DisconnectTxs(b, pool).refs[t] = txdb[t]
         /\ \A p \in Txs(b) : DisconnectTxs(b, pool).coin[p] = None
         /\ \A t \in Txs(b) : \A p \in ToSet(Vin[t]) : DisconnectTxs(b, pool).coin[p] = None
         /\ \A p \in Tx \ Txs(b) : (\A t \in Txs(b) : p \notin ToSet(Vin[t])) =>
              DisconnectTxs(b, pool).coin[p] = coin[p]
<1> DEFINE s == Vtx[b]
           n == Len(s)
<1>1. PICK run \in [1 .. (n + 1) -> UndoState] :
        /\ run[n + 1] = [coin |-> coin, refs |-> txdb]
        /\ \A k \in 1 .. n : run[k] = DisconnectInputs(s[k], run[k + 1], pool)
        /\ DisconnectTxs(b, pool) = run[1]
  BY DisconnectTxsRuns
<1>2. /\ n \in Nat /\ DOMAIN s = 1 .. n
      /\ \A i \in 1 .. n : s[i] \in Txs(b) /\ s[i] \in Tx
      /\ \A t \in Txs(b) : \E i \in 1 .. n : s[i] = t
  BY TxLists
<1>a. \A t \in Txs(b) : \A p \in ToSet(Vin[t]) : p \in Tx  BY TxLists
<1>b. \A i, k \in 1 .. n : s[k] \in ToSet(Vin[s[i]]) => k < i  BY <1>2 DEF InputsFirst
<1> HIDE DEF s, n
<1> DEFINE Gone(k, t) == \E i \in k .. n : s[i] = t
           Freed(k, p) == \E i \in k .. n : p \in ToSet(Vin[s[i]])
           R(k) == \A t \in Tx : run[k].refs[t] = IF Gone(k, t) THEN None ELSE txdb[t]
           C(k) == \A p \in Tx :
                     run[k].coin[p] = IF Gone(k, p) \/ Freed(k, p) THEN None ELSE coin[p]
           P == {k \in 1 .. (n + 1) : R(k) /\ C(k)}
<1>3. n + 1 \in P
  <2>1. (n + 1) .. n = {} /\ n + 1 \in 1 .. (n + 1)  BY <1>2
  <2>2. run[n + 1].refs = txdb /\ run[n + 1].coin = coin  BY <1>1
  <2>3. \A x : ~Gone(n + 1, x) /\ ~Freed(n + 1, x)  BY <2>1
  <2> HIDE DEF Gone, Freed
  <2> QED  BY <2>1, <2>2, <2>3
<1>4. ASSUME NEW k \in 1 .. n, k + 1 \in P PROVE k \in P
  <2>1. k \in 1 .. (n + 1) /\ k + 1 \in 1 .. (n + 1) /\ s[k] \in Tx /\ s[k] \in Txs(b)  BY <1>2
  <2>2. k .. n = {k} \cup ((k + 1) .. n) /\ \A i \in (k + 1) .. n : i \in 1 .. n /\ k < i
    BY <1>2
  <2> DEFINE t == s[k]
             q == run[k + 1]
  <2>3. q \in UndoState /\ q.coin \in CoinMap /\ q.refs \in RefMap  BY <2>1 DEF UndoState
  <2>4. R(k + 1) /\ C(k + 1)  BY <1>4
  <2>5. ASSUME NEW p \in ToSet(Vin[t]) PROVE ReadTx(q.refs, p)
    <3>1. VerifyTxHash(p) /\ p \in Tx  BY <1>a, <2>1
    <3>2. ~Gone(k + 1, p)
      <4> SUFFICES ASSUME NEW i \in (k + 1) .. n, s[i] = p PROVE FALSE  OBVIOUS
      <4>1. i \in 1 .. n /\ k < i  BY <2>2
      <4>2. i < k  BY <1>b, <4>1
      <4> QED  BY <4>1, <4>2, <1>2
    <3>3. q.refs[p] = txdb[p]  BY <2>4, <3>1, <3>2
    <3> QED  BY <3>1, <3>3 DEF VerifyTxHash, ReadTx
  <2>6. FillInputs(t, q.refs, pool) = ToSet(Vin[t])  BY <2>1, <2>5, FindsInputs
  <2>7. /\ run[k].coin = [p \in Tx |-> IF p = t \/ p \in ToSet(Vin[t]) THEN None ELSE q.coin[p]]
        /\ run[k].refs = [q.refs EXCEPT ![t] = None]
    <3>1. run[k] = DisconnectInputs(t, q, pool)  BY <1>1
    <3> HIDE DEF t, q
    <3> QED  BY <2>6, <3>1 DEF DisconnectInputs
  <2>8. \A x : Gone(k, x) <=> t = x \/ Gone(k + 1, x)  BY <2>2
  <2>9. \A x : Freed(k, x) <=> x \in ToSet(Vin[t]) \/ Freed(k + 1, x)  BY <2>2
  <2>10. R(k)
    <3> SUFFICES ASSUME NEW x \in Tx PROVE run[k].refs[x] = IF Gone(k, x) THEN None ELSE txdb[x]
      OBVIOUS
    <3>1. q.refs[x] = IF Gone(k + 1, x) THEN None ELSE txdb[x]  BY <2>4
    <3>2. run[k].refs[x] = IF x = t THEN None ELSE q.refs[x]  BY <2>3, <2>7 DEF RefMap
    <3> HIDE DEF Gone, t, q
    <3> QED  BY <2>8, <3>1, <3>2
  <2>11. C(k)
    <3> SUFFICES ASSUME NEW x \in Tx
                 PROVE  run[k].coin[x] = IF Gone(k, x) \/ Freed(k, x) THEN None ELSE coin[x]
      OBVIOUS
    <3>1. q.coin[x] = IF Gone(k + 1, x) \/ Freed(k + 1, x) THEN None ELSE coin[x]  BY <2>4
    <3>2. run[k].coin[x] = IF x = t \/ x \in ToSet(Vin[t]) THEN None ELSE q.coin[x]  BY <2>7
    <3> HIDE DEF Gone, Freed, t, q
    <3> QED  BY <2>8, <2>9, <3>1, <3>2
  <2> HIDE DEF R, C
  <2> QED  BY <2>1, <2>10, <2>11
<1> HIDE DEF P
<1>5. 1 \in P
  <2>1. \A k \in 1 .. (n + 1) : k \in P  BY <1>2, <1>3, <1>4, DownTo
  <2> QED  BY <1>2, <2>1
<1>6. R(1) /\ C(1)  BY <1>5 DEF P
<1>7. \A x : Gone(1, x) <=> x \in Txs(b)  BY <1>2
<1>8. \A x : Freed(1, x) <=> \E t \in Txs(b) : x \in ToSet(Vin[t])  BY <1>2
<1>9. Txs(b) \subseteq Tx  BY TxLists
<1> HIDE DEF Gone, Freed
<1>10. /\ \A t \in Txs(b) : run[1].refs[t] = None
       /\ \A t \in Tx \ Txs(b) : run[1].refs[t] = txdb[t]
  BY <1>6, <1>7, <1>9
<1>11. /\ \A p \in Txs(b) : run[1].coin[p] = None
       /\ \A t \in Txs(b) : \A p \in ToSet(Vin[t]) : run[1].coin[p] = None
       /\ \A p \in Tx \ Txs(b) : (\A t \in Txs(b) : p \notin ToSet(Vin[t])) =>
              run[1].coin[p] = coin[p]
  BY <1>6, <1>7, <1>8, <1>9, <1>a
<1> QED  BY <1>1, <1>10, <1>11

(* Marking spends that are marked already changes nothing.                 *)
LEMMA MarkedInputs ==
  ASSUME NEW t \in Tx, coin \in CoinMap, \A p \in ToSet(Vin[t]) : coin[p] = t
  PROVE  MarkInputs(coin, t) = coin
<1> DEFINE n == Len(Vin[t])
<1>1. PICK run \in [0 .. n -> CoinMap] :
        /\ run[0] = coin
        /\ \A k \in 1 .. n : run[k] = [run[k - 1] EXCEPT ![Vin[t][k]] = t]
        /\ MarkInputs(coin, t) = run[n]
  BY MarkInputsRuns
<1>2. Vin[t] \in Seq(Tx)  BY TxLists
<1>3. n \in Nat /\ \A i \in 1 .. n : Vin[t][i] \in Tx  BY <1>2, Lists
<1>4. \A i \in 1 .. n : coin[Vin[t][i]] = t  BY <1>2, InList
<1> HIDE DEF n
<1> DEFINE P == {k \in 0 .. n : run[k] = coin}
<1>5. 0 \in P  BY <1>1, <1>3
<1>6. ASSUME NEW k \in 1 .. n, k - 1 \in P PROVE k \in P
  <2>1. k \in 0 .. n /\ run[k - 1] = coin  BY <1>3, <1>6
  <2>2. run[k] = [run[k - 1] EXCEPT ![Vin[t][k]] = t]  BY <1>1
  <2>3. run[k] = [coin EXCEPT ![Vin[t][k]] = t]  BY <2>1, <2>2
  <2>4. run[k] = coin  BY <1>3, <1>4, <2>3 DEF CoinMap
  <2> QED  BY <2>1, <2>4
<1> HIDE DEF P
<1>7. \A k \in 0 .. n : k \in P  BY <1>3, <1>5, <1>6, UpTo
<1>8. n \in P  BY <1>3, <1>7
<1> QED  BY <1>1, <1>8 DEF P

(* The validation scan changes nothing in a block whose spends are marked. *)
LEMMA MarkedBlock ==
  ASSUME NEW b \in Block, NEW pool, coin \in CoinMap,
         \A t \in Txs(b) : \A p \in ToSet(Vin[t]) : coin[p] = t
  PROVE  UpdateBlockCoins(b, pool) = coin
<1> DEFINE n == Len(Vtx[b])
<1>1. PICK run \in [0 .. n -> CoinMap] :
        /\ run[0] = coin
        /\ \A k \in 1 .. n : run[k] = MarkInputs(run[k - 1], Vtx[b][k])
        /\ UpdateBlockCoins(b, pool) \in {run[n], coin}
  BY MarkBlockRuns
<1>2. n \in Nat /\ \A i \in 1 .. n : Vtx[b][i] \in Txs(b) /\ Vtx[b][i] \in Tx  BY TxLists
<1> HIDE DEF n
<1> DEFINE P == {k \in 0 .. n : run[k] = coin}
<1>3. 0 \in P  BY <1>1, <1>2
<1>4. ASSUME NEW k \in 1 .. n, k - 1 \in P PROVE k \in P
  <2>1. k \in 0 .. n /\ run[k - 1] = coin /\ run[k] = MarkInputs(run[k - 1], Vtx[b][k])
    BY <1>1, <1>2, <1>4
  <2>2. MarkInputs(coin, Vtx[b][k]) = coin  BY <1>2, MarkedInputs
  <2> QED  BY <2>1, <2>2
<1> HIDE DEF P
<1>5. \A k \in 0 .. n : k \in P  BY <1>2, <1>3, <1>4, UpTo
<1>6. n \in P  BY <1>2, <1>5
<1> QED  BY <1>1, <1>6 DEF P

-----------------------------------------------------------------------------
(* What the databases say of a chain.                                      *)

(* The transaction database has the transactions of the chain and no       *)
(* others, each at the height of its block.                                *)
RefsOf(refs, S) ==
  \A t \in Tx : \A h \in 0 .. MaxHeight :
    refs[t] = h <=> \E c \in S : t \in Txs(c) /\ Height[c] = h
(* The coin database has the spends of the chain and no others.            *)
MarksOf(marks, S) ==
  \A p, t \in Tx : marks[p] = t <=> \E c \in S : t \in Txs(c) /\ p \in ToSet(Vin[t])
(* Its blocks pass their own checks, and every input is in the chain, old  *)
(* enough.                                                                 *)
Source(S, c, p) ==
  \E d \in S : p \in Txs(d) /\ Height[c] >= Height[d] + IF Coinbase(p) THEN Maturity ELSE 0
FundsOf(S) ==
  /\ S \cap (BadBlock \cup BadConnect) = {}
  /\ \A c \in S : \A t \in Txs(c) : \A p \in ToSet(Vin[t]) : Source(S, c, p)

(* No transaction is in two blocks of a chain that the transaction         *)
(* database describes.                                                     *)
LEMMA OneBlock ==
  ASSUME NEW a \in Block, NEW refs, RefsOf(refs, Ancestors(a)),
         NEW c \in Ancestors(a), NEW d \in Ancestors(a), NEW t, t \in Txs(c), t \in Txs(d)
  PROVE  c = d /\ refs[t] = Height[c]
<1>1. c \in Block /\ d \in Block  BY Chains
<1>2. t \in Tx /\ Height[c] \in 0 .. MaxHeight /\ Height[d] \in 0 .. MaxHeight
  BY <1>1, TxLists, Heights
<1>3. refs[t] = Height[c] /\ refs[t] = Height[d]  BY <1>2 DEF RefsOf
<1> QED  BY <1>3, OnePerHeight

(* Nor is an output spent twice.                                           *)
LEMMA OneSpender ==
  ASSUME NEW a \in Block, NEW refs, NEW marks,
         RefsOf(refs, Ancestors(a)), MarksOf(marks, Ancestors(a)),
         NEW p \in Tx, NEW r \in Spenders(Ancestors(a), p)
  PROVE  marks[p] = r[2] /\ \A s \in Spenders(Ancestors(a), p) : r = s
<1> DEFINE S == Ancestors(a)
<1>1. \A s \in Spenders(S, p) :
        /\ s \in S \X Tx /\ s[1] \in S /\ s[2] \in Tx
        /\ s[2] \in Txs(s[1]) /\ p \in ToSet(Vin[s[2]])
  BY DEF Spenders
<1>2. \A s \in Spenders(S, p) : marks[p] = s[2]  BY <1>1 DEF MarksOf
<1>3. ASSUME NEW s \in Spenders(S, p) PROVE r = s
  <2>1. r[2] = s[2]  BY <1>2
  <2>2. r[1] = s[1]  BY <1>1, <2>1, OneBlock
  <2>3. r = <<r[1], r[2]>> /\ s = <<s[1], s[2]>>  BY <1>1
  <2> QED  BY <2>1, <2>2, <2>3
<1> QED  BY <1>2, <1>3

(* A chain that the databases describe and whose inputs are there is a     *)
(* valid one.                                                              *)
LEMMA DescribedValid ==
  ASSUME NEW a \in Block, NEW refs, NEW marks, RefsOf(refs, Ancestors(a)),
         MarksOf(marks, Ancestors(a)), FundsOf(Ancestors(a))
  PROVE  ValidChain(a)
<1> DEFINE S == Ancestors(a)
<1>1. \A c, d \in S : c # d => Txs(c) \cap Txs(d) = {}  BY OneBlock
<1>2. \A p \in Tx : \A r, s \in Spenders(S, p) : r = s  BY OneSpender
<1>3. /\ S \cap (BadBlock \cup BadConnect) = {}
      /\ \A c \in S : \A t \in Txs(c) : \A p \in ToSet(Vin[t]) :
           \E d \in S : /\ p \in Txs(d)
                        /\ Height[c] >= Height[d] + IF Coinbase(p) THEN Maturity ELSE 0
  BY DEF FundsOf, Source
<1> QED  BY <1>1, <1>2, <1>3 DEF ValidChain

(* The record of the ledger, for such a chain.                             *)
SpentIn(S, p) == {s[2] : s \in Spenders(S, p)}
Recorded(marks, S) == \A p \in Tx : SpentIn(S, p) = {marks[p]} \ {None}
LEMMA DescribedSpends ==
  ASSUME NEW a \in Block, NEW refs, NEW marks \in CoinMap,
         RefsOf(refs, Ancestors(a)), MarksOf(marks, Ancestors(a))
  PROVE  /\ Recorded(marks, Ancestors(a))
         /\ [p \in DOMAIN SpentBy[a] |-> marks[p]] = SpentBy[a]
<1> DEFINE S == Ancestors(a)
<1>0. None \notin Tx  BY ChainAssumption
<1>1. ASSUME NEW p \in Tx, Spenders(S, p) = {} PROVE marks[p] = None
  <2>1. SUFFICES ASSUME marks[p] # None PROVE FALSE  OBVIOUS
  <2>2. marks[p] \in Tx  BY <2>1 DEF CoinMap
  <2>3. PICK c \in S : marks[p] \in Txs(c) /\ p \in ToSet(Vin[marks[p]])
    BY <2>2 DEF MarksOf
  <2>4. <<c, marks[p]>> \in Spenders(S, p)  BY <2>2, <2>3 DEF Spenders
  <2> QED  BY <1>1, <2>4
<1>2. ASSUME NEW p \in Tx, NEW r \in Spenders(S, p)
      PROVE  marks[p] = r[2] /\ Spenders(S, p) = {r} /\ marks[p] # None
  <2>1. marks[p] = r[2] /\ \A s \in Spenders(S, p) : r = s  BY OneSpender
  <2>2. r[2] \in Tx  BY DEF Spenders
  <2> QED  BY <1>0, <2>1, <2>2
<1>3. \A p \in Tx : SpentIn(S, p) = {marks[p]} \ {None}
  <2> SUFFICES ASSUME NEW p \in Tx
               PROVE  {s[2] : s \in Spenders(S, p)} = {marks[p]} \ {None}
    BY DEF SpentIn
  <2>1. CASE Spenders(S, p) = {}  BY <1>1, <2>1
  <2>2. CASE Spenders(S, p) # {}
    <3>1. PICK r : r \in Spenders(S, p)  BY <2>2
    <3>2. marks[p] = r[2] /\ Spenders(S, p) = {r} /\ marks[p] # None  BY <1>2, <3>1
    <3> QED  BY <3>2
  <2> QED  BY <2>1, <2>2
<1>4. \A p \in Tx : marks[p] = IF Spenders(S, p) = {} THEN None
                               ELSE (CHOOSE s \in Spenders(S, p) : TRUE)[2]
  BY <1>1, <1>2
<1>5. UNION {Txs(c) : c \in S} \subseteq Tx
  <2>1. S \subseteq Block  BY Chains
  <2>2. \A c \in S : Txs(c) \subseteq Tx  BY <2>1, TxLists
  <2> QED  BY <2>2
<1> DEFINE D == UNION {Txs(c) : c \in S}
           V(p) == IF Spenders(S, p) = {} THEN None ELSE (CHOOSE s \in Spenders(S, p) : TRUE)[2]
<1>6. SpentBy[a] = [p \in D |-> V(p)]  BY DEF SpentBy
<1>7. \A p \in D : marks[p] = V(p)  BY <1>4, <1>5
<1> HIDE DEF D, V
<1>8. [p \in DOMAIN SpentBy[a] |-> marks[p]] = SpentBy[a]  BY <1>6, <1>7
<1> QED  BY <1>3, <1>8 DEF Recorded

(* What a block of a valid chain ends is a valid chain.                    *)
LEMMA ValidPrefix ==
  ASSUME NEW b \in Block, NEW a \in Ancestors(b), ValidChain(b)
  PROVE  ValidChain(a)
<1> DEFINE S == Ancestors(b)
           T == Ancestors(a)
<1>1. a \in Block /\ T \subseteq S  BY Chains
<1>2. /\ S \cap (BadBlock \cup BadConnect) = {}
      /\ \A c, d \in S : c # d => Txs(c) \cap Txs(d) = {}
      /\ \A c \in S : \A t \in Txs(c) : \A p \in ToSet(Vin[t]) : Source(S, c, p)
      /\ \A p \in Tx : \A r, s \in Spenders(S, p) : r = s
  BY DEF ValidChain, Source
<1>3. ASSUME NEW c \in T, NEW p, Source(S, c, p) PROVE Source(T, c, p)
  <2>1. PICK d \in S : p \in Txs(d) /\ Height[c] >= Height[d] + IF Coinbase(p) THEN Maturity ELSE 0
    BY <1>3 DEF Source
  <2>2. c \in Block /\ d \in Block /\ Height[c] \in Nat /\ Height[d] \in Nat /\ Height[a] \in Nat
    BY <1>1, Chains, Tree
  <2>3. Height[c] >= Height[d]  BY <2>1, <2>2, ChainAssumption
  <2>4. Height[c] <= Height[a]  BY <1>1, <2>2, Chains
  <2>5. d \in T  BY <2>2, <2>3, <2>4, HeightsInOrder
  <2> QED  BY <2>1, <2>5 DEF Source
<1>4. \A p : Spenders(T, p) \subseteq Spenders(S, p)  BY <1>1 DEF Spenders
<1>5. \A c \in T : \A t \in Txs(c) : \A p \in ToSet(Vin[t]) : Source(T, c, p)
  BY <1>1, <1>2, <1>3
<1>6. \A p \in Tx : \A r, s \in Spenders(T, p) : r = s  BY <1>2, <1>4
<1> QED  BY <1>1, <1>2, <1>5, <1>6 DEF ValidChain, Source

(* A longer chain has more work.                                           *)
LEMMA WorkGrows ==
  \A b \in Block : \A a \in Ancestors(b) : TotalWork(a) <= TotalWork(b)
<1> DEFINE Outworked(b) == \A a \in Ancestors(b) : TotalWork(a) <= TotalWork(b)
           P == {b \in Block : Outworked(b)}
<1>1. Outworked(Genesis)
  <2>1. Ancestors(Genesis) = {Genesis} /\ TotalWork(Genesis) \in Nat
    BY AncestorsIs, TotalWorkIs, Tree
  <2> QED  BY <2>1
<1>2. ASSUME NEW b \in Block \ {Genesis}, Outworked(Prev[b]) PROVE Outworked(b)
  <2>1. Prev[b] \in Block /\ Work[b] \in Nat  BY Tree, ChainAssumption
  <2>2. /\ TotalWork(b) = Work[b] + TotalWork(Prev[b])
        /\ TotalWork(Prev[b]) \in Nat /\ TotalWork(b) \in Nat
    BY <2>1, TotalWorkIs
  <2>3. Ancestors(b) = {b} \cup Ancestors(Prev[b])  BY AncestorsIs
  <2>4. \A a \in Ancestors(Prev[b]) : TotalWork(a) \in Nat  BY <2>1, Chains, TotalWorkIs
  <2>5. \A a \in Ancestors(Prev[b]) : TotalWork(a) <= TotalWork(b)
    BY <1>2, <2>1, <2>2, <2>4
  <2> QED  BY <2>2, <2>3, <2>5
<1> HIDE DEF Outworked
<1>3. Genesis \in P /\ \A b \in Block \ {Genesis} : Prev[b] \in P => b \in P
  BY <1>1, <1>2, Tree
<1> HIDE DEF P
<1>4. Block \subseteq P  BY <1>3, FromGenesis
<1> QED  BY <1>4 DEF P, Outworked

-----------------------------------------------------------------------------
(* The invariant of the databases, in a commit too.                        *)

(* The block that a commit connects next.                                  *)
Coming == Lowest(job.conLeft)

(* What the theorems suppose besides Settles. A block that is connected    *)
(* again while it is still at its height has its references: WriteBlock    *)
(* finds the block and returns before it writes them (block.cpp:963).      *)
RefsThere ==
  Connecting /\ job.spent /\ Written(Coming) =>
    \A t \in Txs(Coming) : txdb[t] = Height[Coming]
(* A block that is connected spends no output that only the pool has:      *)
(* core_ConnectCoinInputs would accept it.                                 *)
PoolUnspent ==
  Connecting => \A t \in Txs(Coming) : \A p \in ToSet(Vin[t]) :
    p \in Pool => VerifyTxHash(p) \/ p \in Txs(Coming)

(* Where the chain ends whose spends are marked: the coins of a block are  *)
(* written before the block.                                               *)
Top == IF job.spent THEN Coming ELSE At

Refs == RefsOf(txdb, Ancestors(At))
Marks == MarksOf(coin, Ancestors(Top))
Funds == FundsOf(Ancestors(Top))
(* The commit: the transactions of a block that has its coins are new, a   *)
(* block that failed makes no valid chain, and the new chain has more work *)
(* than the best one.                                                      *)
Progress ==
  /\ job.spent => Connecting /\ \A t \in Txs(Coming) : txdb[t] = None
  /\ job.fail # None => job.fail = Coming /\ job.conLeft # {} /\ ~ValidChain(job.fail)
  /\ ~Rest => TotalWork(job.new) > TotalWork(best)
(* A block that fails its own checks is neither stored nor connected.      *)
Checked ==
  /\ \A b \in BadBlock : status[b] \cap {"data", "undo"} = {}
  /\ job.conLeft \cap BadBlock = {}
Books == Refs /\ Marks /\ Funds /\ Progress /\ Checked
BooksInv == ~torn => Books

(* A transaction is found exactly when it is in the chain.                 *)
LEMMA Reads ==
  ASSUME TypeInv, Good, Refs
  PROVE  /\ \A p \in Tx : VerifyTxHash(p) => \E d \in Ancestors(At) : p \in Txs(d)
         /\ \A d \in Ancestors(At) : \A p \in Txs(d) :
              VerifyTxHash(p) /\ txdb[p] = Height[d] /\ blkdb[txdb[p]] = d
<1>1. At \in Block /\ Ancestors(At) \subseteq Block  BY RestJob, Chains DEF TypeInv, TypeOK
<1>2. txdb \in RefMap  BY DEF TypeInv, TypeOK, RefMap
<1>3. ASSUME NEW p \in Tx, VerifyTxHash(p) PROVE \E d \in Ancestors(At) : p \in Txs(d)
  <2>1. txdb[p] # None  BY <1>3 DEF VerifyTxHash, ReadTx
  <2>2. txdb[p] \in 0 .. MaxHeight  BY <1>2, <2>1 DEF RefMap
  <2> QED  BY <2>2 DEF Refs, RefsOf
<1>4. ASSUME NEW d \in Ancestors(At), NEW p \in Txs(d)
      PROVE  VerifyTxHash(p) /\ txdb[p] = Height[d] /\ blkdb[txdb[p]] = d
  <2>1. d \in Block /\ p \in Tx  BY <1>1, TxLists
  <2>2. Height[d] \in 0 .. MaxHeight  BY <2>1, Heights
  <2>3. txdb[p] = Height[d]  BY <2>1, <2>2 DEF Refs, RefsOf
  <2>4. blkdb[Height[d]] = d  BY DEF Good, Stored
  <2>5. Height[d] # None /\ d # None
    <3>1. None \notin Block /\ None \notin Nat  BY ChainAssumption
    <3>2. Height[d] \in Nat  BY <2>1, Tree
    <3> QED  BY <2>1, <3>1, <3>2
  <2>6. VerifyTxHash(p)  BY <2>3, <2>4, <2>5 DEF VerifyTxHash, ReadTx
  <2> QED  BY <2>3, <2>4, <2>6
<1> QED  BY <1>3, <1>4

(* The inputs of the chain are found.                                      *)
LEMMA FoundInputs ==
  ASSUME TypeInv, Good, Refs, FundsOf(Ancestors(At)),
         NEW c \in Ancestors(At), NEW t \in Txs(c), NEW p \in ToSet(Vin[t])
  PROVE  VerifyTxHash(p)
<1>1. Source(Ancestors(At), c, p)  BY DEF FundsOf
<1>2. PICK d \in Ancestors(At) : p \in Txs(d)  BY <1>1 DEF Source
<1> QED  BY <1>2, Reads

(* The block that comes next stands on the end of the chain.               *)
LEMMA ComesNext ==
  ASSUME TypeInv, Good, job.disconLeft = {}, job.conLeft # {}
  PROVE  /\ ~Rest /\ At = job.last /\ At \in Block /\ job.new \in Block
         /\ Coming \in Block \ {Genesis} /\ Coming \in job.conLeft
         /\ Prev[Coming] = At /\ Ancestors(Coming) = {Coming} \cup Ancestors(At)
         /\ Coming \notin Ancestors(At) /\ Coming \in Ancestors(job.new)
         /\ Ancestors(At) \subseteq Ancestors(job.new)
         /\ job.conLeft = Ancestors(job.new) \ Ancestors(At)
         /\ \A c \in job.conLeft : Height[Coming] <= Height[c]
<1> DEFINE b == Coming
           up == Ancestors(job.new)
           cur == Ancestors(job.last)
<1>2. /\ ~Rest /\ job.new \in Block /\ job.last \in Block
  BY RestJob DEF TypeInv, TypeOK
<1>3. cur \subseteq up /\ job.conLeft = up \ cur
  BY <1>2 DEF Good, JobInv
<1>4. job.conLeft \in SUBSET Block  BY JobFields DEF TypeInv
<1>5. b \in up \ cur /\ \A c \in up \ cur : Height[b] <= Height[c]
  BY <1>3, <1>4, Lowests DEF Coming
<1> HIDE DEF b
<1>6. b \in Block /\ b # Genesis  BY <1>2, <1>5, Chains
<1>7. /\ Prev[b] \in Block /\ Height[b] = Height[Prev[b]] + 1
      /\ Height[Prev[b]] \in Nat /\ Height[b] \in Nat /\ Height[job.last] \in Nat
  BY <1>2, <1>6, Tree
<1>8. Prev[b] = job.last
  <2>1. Prev[b] \in up  BY <1>2, <1>5, <1>6, Chains
  <2>2. Prev[b] \in cur  BY <1>5, <1>7, <2>1
  <2>3. Height[Prev[b]] <= Height[job.last]  BY <1>2, <1>7, <2>2, Chains
  <2>4. job.last \in cur /\ job.last \in up  BY <1>2, <1>3, Chains
  <2>5. Height[b] <= Height[job.last] => b \in cur  BY <1>2, <1>5, <2>4, HeightsInOrder
  <2>6. Height[job.last] = Height[Prev[b]]  BY <1>5, <1>7, <2>3, <2>5
  <2> QED  BY <1>2, <2>2, <2>4, <2>6, OnePerHeight
<1>9. Ancestors(b) = {b} \cup cur  BY <1>6, <1>8, AncestorsIs
<1>10. At = job.last  BY <1>2 DEF At
<1> QED  BY <1>2, <1>3, <1>5, <1>6, <1>8, <1>9, <1>10 DEF b

(* The genesis block spends nothing.                                       *)
LEMMA BooksInit == Init => Books
<1> SUFFICES ASSUME Init PROVE Books  OBVIOUS
<1>0. job = NoJob /\ ~job.spent /\ job.fail = None /\ job.conLeft = {}
  BY DEF Init, NoJob
<1>1. Rest /\ At = Genesis /\ Top = Genesis  BY <1>0 DEF Init, Rest, At, Top
<1>2. Ancestors(Genesis) = {Genesis} /\ Height[Genesis] = 0 /\ Genesis \in Block
  BY AncestorsIs, Tree
<1>3. None \notin Tx /\ None \notin Nat /\ Genesis \notin BadBlock \cup BadConnect
  BY ChainAssumption
<1>4. \A t \in Txs(Genesis) : \A p : p \notin ToSet(Vin[t])
  <2>1. \A t \in Txs(Genesis) : Vin[t] = <<>>  BY ChainAssumption DEF Coinbase
  <2>2. ToSet(<<>>) = {}  BY DEF ToSet
  <2> QED  BY <2>1, <2>2
<1>5. Refs
  <2>1. ASSUME NEW t \in Tx, NEW h \in 0 .. MaxHeight
        PROVE  txdb[t] = h <=> t \in Txs(Genesis) /\ 0 = h
    <3>1. txdb[t] = IF t \in Txs(Genesis) THEN 0 ELSE None  BY DEF Init
    <3>2. h \in Nat /\ h # None  BY <1>3, Heights
    <3> QED  BY <3>1, <3>2
  <2> QED  BY <1>1, <1>2, <2>1 DEF Refs, RefsOf
<1>6. Marks
  <2>1. \A p \in Tx : coin[p] \notin Tx  BY <1>3 DEF Init
  <2> QED  BY <1>1, <1>2, <1>4, <2>1 DEF Marks, MarksOf
<1>7. Funds  BY <1>1, <1>2, <1>3, <1>4 DEF Funds, FundsOf
<1>8. Progress  BY <1>0, <1>1 DEF Progress
<1>9. Checked
  <2>1. \A b \in BadBlock : b \in Block /\ b # Genesis  BY ChainAssumption
  <2>2. \A b \in BadBlock : status[b] = {}  BY <2>1 DEF Init
  <2> QED  BY <1>0, <2>2 DEF Checked
<1> QED  BY <1>5, <1>6, <1>7, <1>8, <1>9 DEF Books

(* What keeps the databases and the ends of the chain keeps what they say. *)
LEMMA SameBooks ==
  ASSUME Refs, Marks, Funds, UNCHANGED <<txdb, coin>>, At' = At, Top' = Top
  PROVE  Refs' /\ Marks' /\ Funds'
<1>1. Refs'  BY DEF Refs, RefsOf
<1>2. Marks'  BY DEF Marks, MarksOf
<1>3. Funds'  BY DEF Funds
<1> QED  BY <1>1, <1>2, <1>3

(* A step outside a commit that flags no bad block as stored.              *)
LEMMA BooksAside ==
  ASSUME Books, UNCHANGED <<txdb, coin, job, best>>,
         \A b \in BadBlock : status'[b] \cap {"data", "undo"} = {}
  PROVE  Books'
<1>1. At' = At /\ Top' = Top /\ Coming' = Coming /\ (Rest' <=> Rest)
  BY DEF At, Top, Coming, Rest
<1>2. Refs' /\ Marks' /\ Funds'  BY <1>1, SameBooks DEF Books
<1>3. Progress'  BY <1>1 DEF Books, Progress, Connecting
<1>4. Checked'  BY DEF Books, Checked
<1> QED  BY <1>2, <1>3, <1>4 DEF Books

(* Headers and orphans leave the databases alone.                          *)
LEMMA BooksHeader ==
  ASSUME Books, NEW b \in Block \ {Genesis}, AcceptBlockHeader(b) \/ AddOrphanBlock(b)
  PROVE  Books'
<1>1. UNCHANGED <<txdb, coin, job, best, status>>
  BY DEF AcceptBlockHeader, AddOrphanBlock, disk
<1> QED  BY <1>1, BooksAside DEF Books, Checked

(* core_AcceptBlock archives no bad block, and starts a commit only for    *)
(* more work and over blocks that it has.                                  *)
LEMMA BooksAccept ==
  ASSUME TypeInv, Good, Books, NEW b \in Block \ {Genesis},
         AcceptInvalid(b) \/ AcceptSide(b) \/ AcceptBest(b)
  PROVE  Books'
<1>1. /\ Rest /\ Prev[b] \in index /\ CreateBlockIndex(b)
      /\ UNCHANGED <<best, txdb, coin>>
  BY DEF AcceptInvalid, AcceptSide, AcceptBest, Accepting, disk
<1>2. status \in [Block -> SUBSET {"data", "undo", "failed"}] /\ BadBlock \subseteq Block
  BY ChainAssumption DEF TypeInv, TypeOK
<1>3. \A c \in BadBlock : status[c] \cap {"data", "undo"} = {}  BY DEF Books, Checked
<1>4. \A c \in BadBlock : status'[c] \cap {"data", "undo"} = {}
  <2>1. CASE AcceptInvalid(b)
    <3>1. status' = [status EXCEPT ![b] = @ \cup {"failed"}]  BY <2>1 DEF AcceptInvalid
    <3>2. \A c \in BadBlock : status'[c] \subseteq status[c] \cup {"failed"}  BY <1>2, <3>1
    <3> QED  BY <1>3, <3>2
  <2>2. CASE AcceptSide(b)  BY <1>2, <1>3, <2>2 DEF AcceptSide
  <2>3. CASE AcceptBest(b)
    <3>1. CommitBlock(b) /\ b \notin BadBlock  BY <2>3 DEF AcceptBest
    <3>2. PICK T : status' = [status EXCEPT ![b] = @ \cup {"data"} \cup T]
      BY <3>1 DEF CommitBlock
    <3> QED  BY <1>2, <1>3, <3>1, <3>2
  <2> QED  BY <2>1, <2>2, <2>3
<1>5. CASE job' = job  BY <1>1, <1>4, <1>5, BooksAside
<1> DEFINE r == GetCommitBranches(b)
<1>6. CASE /\ AcceptBest(b) /\ ~OnMissing(b, r.con)
           /\ job' = [NoJob EXCEPT !.new = b, !.con = r.con, !.discon = r.discon,
                       !.conLeft = r.con, !.disconLeft = r.discon, !.last = best]
  <2> HIDE DEF r
  <2>1. /\ job'.new = b /\ job'.last = best /\ job'.conLeft = r.con
        /\ job'.fail = None /\ ~job'.spent
    BY <1>6 DEF NoJob
  <2>2. ~Rest'
    <3>1. NoJob.new = None  BY DEF NoJob
    <3>2. job'.new # None  BY <2>1, Tree
    <3> QED  BY <3>1, <3>2 DEF Rest
  <2>3. At' = At /\ Top' = Top
    <3>1. ~job.spent  BY <1>1 DEF Rest, NoJob
    <3>2. At' = At  BY <1>1, <2>1, <2>2 DEF At
    <3> QED  BY <2>1, <3>1, <3>2 DEF Top
  <2>4. Refs' /\ Marks' /\ Funds'  BY <1>1, <2>3, SameBooks DEF Books
  <2>5. TotalWork(b) > TotalWork(best)
    <3>1. MoreWork(b)  BY <1>6 DEF AcceptBest
    <3>2. Works'  BY <1>1, LinksGrow DEF Good
    <3>3. cwork'[b] = ChainWork(b) /\ b \in index'
      BY <1>1 DEF CreateBlockIndex, TypeInv, TypeOK
    <3>4. ChainWork(b) = TotalWork(b)  BY <3>2, <3>3 DEF Works
    <3> QED  BY <3>1, <3>4 DEF MoreWork, Good, Tips
  <2>6. Progress'  BY <1>1, <2>1, <2>5 DEF Progress
  <2>7. r.con \cap BadBlock = {}
    <3>1. b \notin BadBlock  BY <1>6 DEF AcceptBest
    <3>2. \A c \in r.con \ {b} : status[c] \cap {"data", "undo"} # {}
      BY <1>6 DEF OnMissing
    <3> QED  BY <1>3, <3>1, <3>2
  <2>8. Checked'  BY <1>4, <2>1, <2>7 DEF Checked
  <2> QED  BY <2>4, <2>6, <2>8 DEF Books
<1>7. CASE AcceptInvalid(b) \/ AcceptSide(b)  BY <1>5, <1>7 DEF AcceptInvalid, AcceptSide
<1>8. CASE AcceptBest(b)
  <2>1. CommitBlock(b)  BY <1>8 DEF AcceptBest
  <2> QED  BY <1>5, <1>6, <1>8, <2>1 DEF CommitBlock
<1> QED  BY <1>7, <1>8

(* The block that core_DisconnectBlock takes off is the end of the chain.  *)
LEMMA TakesOff ==
  ASSUME TypeInv, Good, Books, NEW pool, DisconnectBlock(pool)
  PROVE  /\ Highest(job.disconLeft) = At /\ At \in Block \ {Genesis} /\ Prev[At] \in Block
         /\ Ancestors(At) = {At} \cup Ancestors(Prev[At]) /\ At \notin Ancestors(Prev[At])
         /\ Height[At] > Height[Prev[At]] /\ Height[Prev[At]] \in Nat
         /\ At' = Prev[At] /\ Top = At /\ Top' = Prev[At] /\ ~Rest /\ ~Rest'
         /\ ~job.spent /\ ~job'.spent /\ job.fail = None /\ job'.fail = None
         /\ job'.new = job.new /\ job'.conLeft = job.conLeft
<1> DEFINE b == Highest(job.disconLeft)
           up == Ancestors(job.new)
           cur == Ancestors(job.last)
<1>1. /\ job.disconLeft # {}
      /\ job' = [job EXCEPT !.disconLeft = @ \ {b}, !.last = pprev[b]]
  BY DEF DisconnectBlock
<1>2. /\ ~Rest /\ job.new \in Block /\ job.last \in Block /\ job.last \in index
  BY <1>1, RestJob DEF TypeInv, TypeOK
<1>3. /\ job.disconLeft = cur \ up /\ job.fail = None
  BY <1>1, <1>2 DEF Good, JobInv
<1>4. job.disconLeft \in SUBSET Block  BY JobFields DEF TypeInv
<1>5. b \in cur \ up /\ \A c \in cur \ up : Height[b] >= Height[c]
  BY <1>1, <1>3, <1>4, Highests
<1> HIDE DEF b
<1>6. b = job.last
  <2>1. job.last \in cur /\ \A c \in cur : c = job.last \/ Height[c] < Height[job.last]
    BY <1>2, Chains
  <2>2. job.last \notin up
    <3>1. job.last \in up => cur \subseteq up  BY <1>2, Chains
    <3> QED  BY <1>5, <3>1
  <2>3. Height[b] \in Nat /\ Height[job.last] \in Nat  BY <1>2, <1>4, <1>5, <1>3, Tree
  <2> QED  BY <1>5, <2>1, <2>2, <2>3
<1>7. b \in Block /\ b # Genesis  BY <1>2, <1>5, <1>6, Chains
<1>8. pprev[b] = Prev[b] /\ Prev[b] \in Block
  BY <1>2, <1>6, <1>7, Tree DEF Good, Links
<1>9. Height[b] = Height[Prev[b]] + 1 /\ Height[Prev[b]] \in Nat /\ Height[b] \in Nat
  BY <1>7, <1>8, Tree
<1>10. Ancestors(b) = {b} \cup Ancestors(Prev[b])  BY <1>7, AncestorsIs
<1>11. b \notin Ancestors(Prev[b])
  <2>1. b \in Ancestors(Prev[b]) => b = Prev[b] \/ Height[b] < Height[Prev[b]]  BY <1>8, Chains
  <2> QED  BY <1>9, <2>1
<1>12. ~job.spent  BY <1>1 DEF Books, Progress, Connecting
<1>13. /\ job'.new = job.new /\ job'.last = Prev[b] /\ job'.fail = None
       /\ job'.conLeft = job.conLeft /\ job'.spent = job.spent
  <2>1. job \in JobType  BY DEF TypeInv, JobOK
  <2> QED  BY <1>1, <1>3, <1>8, <2>1 DEF JobType
<1>14. ~Rest'
  <2>1. NoJob.new = None  BY DEF NoJob
  <2> QED  BY <1>2, <1>13, <2>1, Tree DEF Rest
<1>15. At' = Prev[b] /\ At = b  BY <1>2, <1>6, <1>13, <1>14 DEF At
<1>16. Top = b /\ Top' = Prev[b]  BY <1>12, <1>13, <1>15 DEF Top
<1>17. Height[b] > Height[Prev[b]]  BY <1>9
<1> QED
  BY <1>2, <1>3, <1>7, <1>8, <1>9, <1>10, <1>11, <1>12, <1>13, <1>14, <1>15, <1>16, <1>17 DEF b

(* core_DisconnectBlock takes back exactly the references and the marks of *)
(* the block: no other block of the chain has its transactions, and none   *)
(* below it spends them.                                                   *)
LEMMA BooksDisconnect ==
  ASSUME PlainBlocks, TypeInv, Good, Books, NEW pool \in SUBSET Pool, DisconnectBlock(pool)
  PROVE  Books'
<1> DEFINE b == At
           a == Prev[At]
           cur == Ancestors(a)
           u == DisconnectTxs(b, pool)
<1>1. /\ b \in Block \ {Genesis} /\ a \in Block
      /\ Ancestors(b) = {b} \cup cur /\ b \notin cur
      /\ Height[b] > Height[a] /\ Height[a] \in Nat
      /\ At' = a /\ Top = b /\ Top' = a /\ ~Rest /\ ~Rest'
      /\ ~job.spent /\ ~job'.spent /\ job.fail = None /\ job'.fail = None
      /\ job'.new = job.new /\ job'.conLeft = job.conLeft
  BY TakesOff
<1>2. /\ coin' = u.coin /\ txdb' = u.refs /\ best' = best
      /\ status' = [status EXCEPT ![b] = (@ \ {"data"}) \cup {"undo"}]
  <2>1. Highest(job.disconLeft) = At  BY TakesOff
  <2> QED  BY <2>1 DEF DisconnectBlock
<1>3. RefsOf(txdb, Ancestors(b)) /\ MarksOf(coin, Ancestors(b)) /\ FundsOf(Ancestors(b))
  BY <1>1 DEF Books, Refs, Marks, Funds
<1>4. coin \in CoinMap /\ txdb \in RefMap  BY DEF TypeInv, TypeOK, CoinMap, RefMap
<1>5. b \notin BadBlock \cup BadConnect  BY <1>1, <1>3 DEF FundsOf
<1>6. InputsFirst(b)  BY <1>1, <1>5 DEF PlainBlocks
<1>7. \A t \in Txs(b) : \A p \in ToSet(Vin[t]) : VerifyTxHash(p)
  <2>1. b \in Ancestors(At) /\ Refs  BY <1>1 DEF Books
  <2> QED  BY <1>3, <2>1, FoundInputs
<1>8. /\ \A t \in Txs(b) : txdb'[t] = None
      /\ \A t \in Tx \ Txs(b) : txdb'[t] = txdb[t]
      /\ \A p \in Txs(b) : coin'[p] = None
      /\ \A t \in Txs(b) : \A p \in ToSet(Vin[t]) : coin'[p] = None
      /\ \A p \in Tx \ Txs(b) : (\A t \in Txs(b) : p \notin ToSet(Vin[t])) => coin'[p] = coin[p]
  <2>1. coin' = DisconnectTxs(b, pool).coin /\ txdb' = DisconnectTxs(b, pool).refs  BY <1>2
  <2> QED  BY <1>1, <1>4, <1>6, <1>7, <2>1, DisconnectsInputs
<1>9. None \notin Tx /\ None \notin Nat  BY ChainAssumption
<1>10. ASSUME NEW c \in cur, NEW t, t \in Txs(c) PROVE t \notin Txs(b)
  BY <1>1, <1>3, <1>10, OneBlock
<1> HIDE DEF a, b, u
<1>11. Refs'
  <2>1. ASSUME NEW t \in Tx, NEW h \in 0 .. MaxHeight
        PROVE  txdb'[t] = h <=> \E c \in cur : t \in Txs(c) /\ Height[c] = h
    <3>1. h # None  BY <1>9, Heights
    <3>2. CASE t \in Txs(b)  BY <1>8, <1>10, <3>1, <3>2
    <3>3. CASE t \notin Txs(b)
      <4>1. txdb[t] = h <=> \E c \in Ancestors(b) : t \in Txs(c) /\ Height[c] = h
        BY <1>3 DEF RefsOf
      <4> QED  BY <1>1, <1>8, <3>3, <4>1
    <3> QED  BY <3>2, <3>3
  <2>2. RefsOf(txdb', cur)  BY <2>1 DEF RefsOf
  <2> QED  BY <1>1, <2>2 DEF Refs
<1>12. ASSUME NEW c \in cur, NEW t \in Txs(c), NEW p \in ToSet(Vin[t])
       PROVE  p \notin Txs(b) /\ Source(cur, c, p)
  <2>1. c \in Ancestors(b) /\ c \in Block  BY <1>1, Chains
  <2>2. Source(Ancestors(b), c, p)  BY <1>3, <2>1 DEF FundsOf
  <2>3. PICK d \in Ancestors(b) : p \in Txs(d) /\ Height[c] >= Height[d] + IF Coinbase(p) THEN Maturity ELSE 0
    BY <2>2 DEF Source
  <2>4. /\ d \in Block /\ Height[c] \in Nat /\ Height[d] \in Nat /\ Height[b] \in Nat
        /\ Height[c] <= Height[a]
    <3>1. d \in Block  BY <1>1, Chains
    <3>2. c = a \/ Height[c] < Height[a]  BY <1>1, Chains
    <3>3. Height[c] \in Nat /\ Height[d] \in Nat /\ Height[b] \in Nat  BY <1>1, <2>1, <3>1, Tree
    <3> QED  BY <1>1, <3>1, <3>2, <3>3
  <2>5. d # b  BY <1>1, <2>3, <2>4, ChainAssumption
  <2>6. d \in cur  BY <1>1, <2>5
  <2> QED  BY <1>10, <2>3, <2>6 DEF Source
<1>13. Marks'
  <2>1. ASSUME NEW p \in Tx, NEW t \in Tx
        PROVE  coin'[p] = t <=> \E c \in cur : t \in Txs(c) /\ p \in ToSet(Vin[t])
    <3>1. coin[p] = t <=> \E c \in Ancestors(b) : t \in Txs(c) /\ p \in ToSet(Vin[t])
      BY <1>3 DEF MarksOf
    <3>2. CASE p \in Txs(b)
      <4>1. coin'[p] # t  BY <1>8, <1>9, <3>2
      <4> QED  BY <1>12, <3>2, <4>1
    <3>3. CASE \E v \in Txs(b) : p \in ToSet(Vin[v])
      <4>1. PICK v \in Txs(b) : p \in ToSet(Vin[v])  BY <3>3
      <4>2. v \in Tx  BY <1>1, TxLists
      <4>3. coin[p] = v /\ coin'[p] = None  BY <1>1, <1>3, <1>8, <4>1, <4>2 DEF MarksOf
      <4>4. ASSUME NEW c \in cur, t \in Txs(c), p \in ToSet(Vin[t]) PROVE FALSE
        <5>1. coin[p] = t  BY <1>1, <3>1, <4>4
        <5> QED  BY <1>10, <4>1, <4>3, <4>4, <5>1
      <4> QED  BY <1>9, <4>3, <4>4
    <3>4. CASE p \notin Txs(b) /\ \A v \in Txs(b) : p \notin ToSet(Vin[v])
      <4>1. coin'[p] = coin[p]  BY <1>8, <3>4
      <4> QED  BY <1>1, <3>1, <3>4, <4>1
    <3> QED  BY <3>2, <3>3, <3>4
  <2>2. MarksOf(coin', cur)  BY <2>1 DEF MarksOf
  <2> QED  BY <1>1, <2>2 DEF Marks
<1>14. Funds'
  <2>1. FundsOf(cur)  BY <1>1, <1>3, <1>12 DEF FundsOf
  <2> QED  BY <1>1, <2>1 DEF Funds
<1>15. Progress'  BY <1>1, <1>2 DEF Books, Progress
<1>16. Checked'
  <2>1. status \in [Block -> SUBSET {"data", "undo", "failed"}] /\ BadBlock \subseteq Block
    BY ChainAssumption DEF TypeInv, TypeOK
  <2>2. \A c \in BadBlock : status'[c] = status[c]  BY <1>2, <1>5, <2>1
  <2> QED  BY <1>1, <2>2 DEF Books, Checked
<1> QED  BY <1>11, <1>13, <1>14, <1>15, <1>16 DEF Books

(* A block that fails to connect makes no valid chain: the checks of       *)
(* core_ConnectBlock refuse nothing that is valid.                         *)
LEMMA FailsRightly ==
  ASSUME PlainBlocks, TypeInv, Good, Books, NEW pool \in SUBSET Pool, Connecting, ~job.spent,
         \/ ~ConnectInputs(Coming, pool).ok
         \/ Coming \in BadConnect
         \/ \E t \in Txs(Coming) : VerifyTxHash(t) /\ blkdb[txdb[t]] # Coming
  PROVE  ~ValidChain(Coming)
<1> SUFFICES ASSUME ValidChain(Coming) PROVE FALSE  OBVIOUS
<1> DEFINE b == Coming
           S == Ancestors(b)
<1>1. /\ b \in Block \ {Genesis} /\ S = {b} \cup Ancestors(At) /\ At \in Block
      /\ b \notin Ancestors(At)
  BY ComesNext DEF Connecting
<1>2. /\ S \cap (BadBlock \cup BadConnect) = {}
      /\ \A c, d \in S : c # d => Txs(c) \cap Txs(d) = {}
      /\ \A c \in S : \A t \in Txs(c) : \A p \in ToSet(Vin[t]) : Source(S, c, p)
      /\ \A p \in Tx : \A r, s \in Spenders(S, p) : r = s
  BY DEF ValidChain, Source
<1>3. Refs /\ MarksOf(coin, Ancestors(At))  BY DEF Books, Marks, Top
<1>4. b \notin BadBlock \cup BadConnect /\ SpendsOnce(b)  BY <1>1, <1>2 DEF PlainBlocks
<1>5. coin \in CoinMap /\ Txs(b) \subseteq Tx  BY <1>1, TxLists DEF TypeInv, TypeOK, CoinMap
<1>6. CASE \E t \in Txs(b) : VerifyTxHash(t)
  <2>1. PICK t \in Txs(b) : VerifyTxHash(t)  BY <1>6
  <2>2. PICK d \in Ancestors(At) : t \in Txs(d)  BY <1>3, <1>5, <2>1, Reads
  <2>3. d # b /\ d \in S /\ b \in S  BY <1>1
  <2> QED  BY <1>2, <2>1, <2>2, <2>3
<1>7. CASE ~ConnectInputs(b, pool).ok
  <2>1. PICK t \in Txs(b) : \E p \in ToSet(Vin[t]) : ~Spendable(b, t, p, coin, pool)
    BY <1>1, <1>4, <1>5, <1>7, ConnectsInputs
  <2>2. PICK p \in ToSet(Vin[t]) : ~Spendable(b, t, p, coin, pool)  BY <2>1
  <2>3. t \in Tx /\ p \in Tx /\ b \in S  BY <1>1, <1>5, TxLists
  <2>4. ~Found(b, p, pool) \/ ~Free(t, coin[p])  BY <2>2, SpendableIs
  <2>5. CASE ~Found(b, p, pool)
    <3>1. PICK d \in S : p \in Txs(d) /\ Height[b] >= Height[d] + IF Coinbase(p) THEN Maturity ELSE 0
      BY <1>2, <2>3 DEF Source
    <3>2. CASE d = b
      <4>1. Height[b] \in Nat /\ Maturity \in Nat /\ Maturity > 0  BY <1>1, Tree, ChainAssumption
      <4>2. ~Coinbase(p)  BY <3>1, <3>2, <4>1
      <4> QED  BY <2>5, <3>1, <3>2, <4>2 DEF Found
    <3>3. CASE d # b
      <4>1. d \in Ancestors(At)  BY <1>1, <3>3
      <4>2. VerifyTxHash(p) /\ txdb[p] = Height[d] /\ blkdb[txdb[p]] = d
        BY <1>3, <3>1, <4>1, Reads
      <4>3. d \in index
        BY <4>1, RestJob, AncestorsIndexed DEF Good
      <4> QED  BY <2>5, <3>1, <4>2, <4>3 DEF Found
    <3> QED  BY <3>2, <3>3
  <2>6. CASE ~Free(t, coin[p])
    <3>1. coin[p] \in Tx /\ coin[p] # t  BY <1>5, <2>3, <2>6 DEF Free, CoinMap
    <3>2. PICK c \in Ancestors(At) : coin[p] \in Txs(c) /\ p \in ToSet(Vin[coin[p]])
      BY <1>3, <2>3, <3>1 DEF MarksOf
    <3>3. <<c, coin[p]>> \in Spenders(S, p) /\ <<b, t>> \in Spenders(S, p)
      BY <1>1, <2>3, <3>1, <3>2 DEF Spenders
    <3>4. <<c, coin[p]>> = <<b, t>>  BY <1>2, <2>3, <3>3
    <3> QED  BY <3>1, <3>4
  <2> QED  BY <2>4, <2>5, <2>6
<1> QED  BY <1>4, <1>6, <1>7

(* A block that connects extends what the databases say of the chain: its  *)
(* inputs are in the chain and its own spends are the first of them.       *)
LEMMA ConnectsRightly ==
  ASSUME PlainBlocks, PoolUnspent, TypeInv, Good, Books, NEW pool \in SUBSET Pool,
         Connecting, ~job.spent, ConnectInputs(Coming, pool).ok, Coming \notin BadConnect,
         \A t \in Txs(Coming) : VerifyTxHash(t) => blkdb[txdb[t]] = Coming
  PROVE  /\ MarksOf(ConnectInputs(Coming, pool).outs, Ancestors(Coming))
         /\ FundsOf(Ancestors(Coming))
         /\ \A t \in Txs(Coming) : txdb[t] = None
<1> DEFINE b == Coming
           cur == Ancestors(At)
           S == Ancestors(b)
           outs == ConnectInputs(b, pool).outs
<1>1. /\ b \in Block \ {Genesis} /\ S = {b} \cup cur /\ At \in Block
      /\ b \notin cur /\ b \in job.conLeft
  BY ComesNext DEF Connecting
<1>2. b \notin BadBlock \cup BadConnect /\ SpendsOnce(b)
  BY <1>1 DEF PlainBlocks, Books, Checked
<1>3. Refs /\ MarksOf(coin, cur) /\ FundsOf(cur)  BY DEF Books, Marks, Funds, Top
<1>4. coin \in CoinMap /\ txdb \in RefMap /\ Txs(b) \subseteq Tx
  BY <1>1, TxLists DEF TypeInv, TypeOK, CoinMap, RefMap
<1>5. /\ \A t \in Txs(b) : \A p \in ToSet(Vin[t]) : outs[p] = t
      /\ \A p \in Tx : (\A t \in Txs(b) : p \notin ToSet(Vin[t])) => outs[p] = coin[p]
      /\ \A t \in Txs(b) : \A p \in ToSet(Vin[t]) : Spendable(b, t, p, coin, pool)
  BY <1>1, <1>2, <1>4, ConnectsInputs
<1>6. \A t \in Txs(b) : \A p \in ToSet(Vin[t]) : Found(b, p, pool) /\ Free(t, coin[p])
  BY <1>5, SpendableIs
<1>7. \A t \in Txs(b) : \A p \in ToSet(Vin[t]) : VerifyTxHash(p) \/ p \in Txs(b)
  BY <1>6 DEF Found, PoolUnspent
<1>8. \A t \in Txs(b) : \A p \in ToSet(Vin[t]) : p \in Tx  BY <1>4, TxLists
<1> HIDE DEF b, outs
<1>9. ASSUME NEW t \in Txs(b) PROVE txdb[t] = None
  <2>1. SUFFICES ASSUME txdb[t] # None PROVE FALSE  OBVIOUS
  <2>2. txdb[t] \in 0 .. MaxHeight  BY <1>4, <2>1 DEF RefMap
  <2>3. PICK c \in cur : t \in Txs(c)  BY <1>3, <1>4, <2>2 DEF Refs, RefsOf
  <2>4. VerifyTxHash(t) /\ blkdb[txdb[t]] = c  BY <1>3, <2>3, Reads
  <2>5. blkdb[txdb[t]] = b  BY <2>4 DEF b
  <2> QED  BY <1>1, <2>3, <2>4, <2>5
<1>10. ASSUME NEW t \in Txs(b), NEW p \in ToSet(Vin[t]) PROVE Source(S, b, p)
  <2>1. Height[b] \in Nat  BY <1>1, Tree
  <2>2. CASE VerifyTxHash(p)
    <3>1. PICK d \in cur : p \in Txs(d)  BY <1>3, <1>8, <2>2, Reads
    <3>2. blkdb[txdb[p]] = d  BY <1>3, <3>1, Reads
    <3>3. Coinbase(p) => Height[b] >= Height[d] + Maturity  BY <1>6, <3>2 DEF Found
    <3>4. Height[d] \in Nat /\ Height[d] < Height[b]
      <4>1. d \in Block /\ d \in S /\ d # b  BY <1>1, <3>1, Chains
      <4> QED  BY <1>1, <4>1, Chains, Tree
    <3>5. Height[b] >= Height[d] + 0  BY <2>1, <3>4
    <3> QED  BY <1>1, <3>1, <3>3, <3>5 DEF Source
  <2>3. CASE ~VerifyTxHash(p)
    <3>1. p \in Txs(b) /\ ~Coinbase(p)  BY <1>6, <1>7, <2>3 DEF Found
    <3>2. Height[b] >= Height[b] + 0  BY <2>1
    <3> QED  BY <1>1, <3>1, <3>2 DEF Source
  <2> QED  BY <2>2, <2>3
<1>11. FundsOf(S)
  <2>1. ASSUME NEW c \in cur, NEW t \in Txs(c), NEW p \in ToSet(Vin[t]) PROVE Source(S, c, p)
    <3>1. Source(cur, c, p)  BY <1>3 DEF FundsOf
    <3> QED  BY <1>1, <3>1 DEF Source
  <2> QED  BY <1>1, <1>2, <1>3, <1>10, <2>1 DEF FundsOf
<1>12. ASSUME NEW p \in Tx, NEW t \in Tx
       PROVE  outs[p] = t <=> \E c \in S : t \in Txs(c) /\ p \in ToSet(Vin[t])
  <2>1. coin[p] = t <=> \E c \in cur : t \in Txs(c) /\ p \in ToSet(Vin[t])
    BY <1>3 DEF MarksOf
  <2>2. CASE \A u \in Txs(b) : p \notin ToSet(Vin[u])
    <3>1. outs[p] = coin[p]  BY <1>5, <2>2
    <3> QED  BY <1>1, <2>1, <2>2, <3>1
  <2>3. CASE \E u \in Txs(b) : p \in ToSet(Vin[u])
    <3>1. PICK u \in Txs(b) : p \in ToSet(Vin[u])  BY <2>3
    <3>2. outs[p] = u  BY <1>5, <3>1
    <3>3. ASSUME NEW c \in cur, t \in Txs(c), p \in ToSet(Vin[t]) PROVE t = u
      <4>1. coin[p] = t  BY <2>1, <3>3
      <4>2. VerifyTxHash(t)  BY <1>3, <3>3, Reads
      <4>3. Free(u, coin[p])  BY <1>6, <3>1
      <4>4. t # None  BY ChainAssumption
      <4> QED  BY <4>1, <4>2, <4>3, <4>4 DEF Free
    <3>4. t \in Txs(b) /\ p \in ToSet(Vin[t]) => t = u  BY <1>5, <3>2
    <3> QED  BY <1>1, <3>1, <3>2, <3>3, <3>4
  <2> QED  BY <2>2, <2>3
<1>13. MarksOf(outs, S)  BY <1>12 DEF MarksOf
<1> QED  BY <1>9, <1>11, <1>13 DEF b, outs

(* core_ConnectBlock writes the coins of a block that connects, or fails.  *)
LEMMA BooksCoins ==
  ASSUME PlainBlocks, PoolUnspent, TypeInv, Good, Books, NEW pool \in SUBSET Pool,
         ConnectCoins(pool)
  PROVE  Books'
<1> DEFINE b == Coming
           r == ConnectInputs(b, pool)
           ok == /\ r.ok
                 /\ b \notin BadConnect
                 /\ \A t \in Txs(b) : VerifyTxHash(t) => blkdb[txdb[t]] = b
<1>1. /\ Connecting /\ ~job.spent
      /\ coin' = IF ok THEN r.outs ELSE coin
      /\ job' = IF ok THEN [job EXCEPT !.spent = TRUE] ELSE [job EXCEPT !.fail = b]
      /\ UNCHANGED <<status, best, txdb>>
  BY DEF ConnectCoins, Coming
<1>2. /\ ~Rest /\ At = job.last /\ job.new \in Block /\ b \in Block /\ job.conLeft # {}
      /\ job.disconLeft = {} /\ job.fail = None
  BY <1>1, ComesNext DEF Connecting
<1>3. job \in JobType  BY DEF TypeInv, JobOK
<1>4. CASE ok
  <2>1. /\ MarksOf(r.outs, Ancestors(b)) /\ FundsOf(Ancestors(b))
        /\ \A t \in Txs(b) : txdb[t] = None
    BY <1>1, <1>4, ConnectsRightly
  <2>2. job' = [job EXCEPT !.spent = TRUE] /\ coin' = r.outs  BY <1>1, <1>4
  <2> HIDE DEF b, r, ok
  <2>3. /\ job'.spent /\ job'.new = job.new /\ job'.last = job.last /\ job'.fail = None
        /\ job'.conLeft = job.conLeft /\ job'.disconLeft = {}
    BY <1>2, <1>3, <2>2 DEF JobType
  <2>4. ~Rest'
    <3>1. NoJob.new = None  BY DEF NoJob
    <3> QED  BY <1>2, <2>3, <3>1, Tree DEF Rest
  <2>5. At' = At /\ Coming' = b /\ Top' = b
    BY <1>2, <2>3, <2>4 DEF At, Coming, Top, b
  <2>6. Refs'  BY <1>1, <2>5 DEF Books, Refs, RefsOf
  <2>7. Marks' /\ Funds'  BY <2>1, <2>2, <2>5 DEF Marks, Funds
  <2>8. Connecting'  BY <1>2, <2>3 DEF Connecting
  <2>9. Progress'  BY <1>1, <1>2, <2>1, <2>3, <2>5, <2>8 DEF Books, Progress
  <2>10. Checked'  BY <1>1, <2>3 DEF Books, Checked
  <2> QED  BY <2>6, <2>7, <2>9, <2>10 DEF Books
<1>5. CASE ~ok
  <2>1. ~ValidChain(b)  BY <1>1, <1>5, FailsRightly
  <2>2. job' = [job EXCEPT !.fail = b] /\ coin' = coin  BY <1>1, <1>5
  <2> HIDE DEF b, r, ok
  <2>3. /\ job'.spent = job.spent /\ job'.new = job.new /\ job'.last = job.last /\ job'.fail = b
        /\ job'.conLeft = job.conLeft /\ job'.disconLeft = {}
    BY <1>2, <1>3, <2>2 DEF JobType
  <2>4. ~Rest'
    <3>1. NoJob.new = None  BY DEF NoJob
    <3> QED  BY <1>2, <2>3, <3>1, Tree DEF Rest
  <2>5. At' = At /\ Coming' = b /\ Top' = Top
    BY <1>1, <1>2, <2>3, <2>4 DEF At, Coming, Top, b
  <2>6. Refs' /\ Marks' /\ Funds'  BY <1>1, <2>2, <2>5, SameBooks DEF Books
  <2>7. Progress'  BY <1>1, <1>2, <2>1, <2>3, <2>5 DEF Books, Progress
  <2>8. Checked'  BY <1>1, <2>3 DEF Books, Checked
  <2> QED  BY <2>6, <2>7, <2>8 DEF Books
<1> QED  BY <1>4, <1>5

(* The rest of core_ConnectBlock writes the references of the block, whose *)
(* coins are there already.                                                *)
LEMMA BooksConnect ==
  ASSUME RefsThere, TypeInv, Good, Books, ConnectBlock
  PROVE  Books'
<1> DEFINE b == Coming
           cur == Ancestors(At)
<1>1. /\ Connecting /\ job.spent /\ txdb' = TxRefsOf(b)
      /\ status' = [status EXCEPT ![b] = @ \cup {"data"}]
      /\ job' = [job EXCEPT !.conLeft = @ \ {b}, !.last = b, !.spent = FALSE]
      /\ UNCHANGED <<best, coin>>
  BY DEF ConnectBlock, Coming
<1>2. /\ ~Rest /\ job.new \in Block /\ b \in Block /\ job.fail = None
      /\ Ancestors(b) = {b} \cup cur /\ b \in job.conLeft /\ At \in Block
  BY <1>1, ComesNext DEF Connecting
<1>3. \A t \in Txs(b) : txdb[t] = None  BY <1>1 DEF Books, Progress
<1>4. Refs /\ MarksOf(coin, Ancestors(b)) /\ FundsOf(Ancestors(b))
  BY <1>1 DEF Books, Marks, Funds, Top
<1>5. Written(b) => \A t \in Txs(b) : txdb[t] = Height[b]  BY <1>1 DEF RefsThere
<1> HIDE DEF b
<1>6. /\ job'.new = job.new /\ job'.last = b /\ job'.fail = None /\ ~job'.spent
      /\ job'.conLeft = job.conLeft \ {b}
  <2>1. job \in JobType  BY DEF TypeInv, JobOK
  <2> QED  BY <1>1, <1>2, <2>1 DEF JobType
<1>7. ~Rest'
  <2>1. NoJob.new = None  BY DEF NoJob
  <2> QED  BY <1>2, <1>6, <2>1, Tree DEF Rest
<1>8. At' = b /\ Top' = b  BY <1>6, <1>7 DEF At, Top
<1>9. Height[b] \in 0 .. MaxHeight /\ Height[b] \in Nat /\ None \notin Nat
  BY <1>2, Tree, Heights, ChainAssumption
<1>10. /\ \A t \in Txs(b) : txdb'[t] = Height[b]
       /\ \A t \in Tx \ Txs(b) : txdb'[t] = txdb[t]
  <2>1. CASE Written(b)
    <3>1. Txs(b) = {}  BY <1>3, <1>5, <1>9, <2>1
    <3> QED  BY <1>1, <2>1, <3>1 DEF TxRefsOf
  <2>2. CASE ~Written(b)
    <3>1. txdb' = [t \in Tx |-> IF t \in Txs(b) THEN Height[b] ELSE txdb[t]]
      BY <1>1, <2>2 DEF TxRefsOf
    <3>2. Txs(b) \subseteq Tx  BY <1>2, TxLists
    <3> QED  BY <3>1, <3>2
  <2> QED  BY <2>1, <2>2
<1>11. Refs'
  <2>1. ASSUME NEW t \in Tx, NEW h \in 0 .. MaxHeight
        PROVE  txdb'[t] = h <=> \E c \in Ancestors(b) : t \in Txs(c) /\ Height[c] = h
    <3>1. txdb[t] = h <=> \E c \in cur : t \in Txs(c) /\ Height[c] = h
      BY <1>4 DEF Refs, RefsOf
    <3>2. CASE t \in Txs(b)
      <4>1. h # None  BY <1>9, Heights
      <4>2. \A c \in cur : ~(t \in Txs(c) /\ Height[c] = h)  BY <1>3, <3>1, <3>2, <4>1
      <4> QED  BY <1>2, <1>10, <3>2, <4>2
    <3>3. CASE t \notin Txs(b)  BY <1>2, <1>10, <3>1, <3>3
    <3> QED  BY <3>2, <3>3
  <2>2. RefsOf(txdb', Ancestors(b))  BY <2>1 DEF RefsOf
  <2> QED  BY <1>8, <2>2 DEF Refs
<1>12. Marks' /\ Funds'
  <2>1. MarksOf(coin', Ancestors(b))  BY <1>1, <1>4
  <2> QED  BY <1>4, <1>8, <2>1 DEF Marks, Funds
<1>13. Progress'  BY <1>1, <1>2, <1>6 DEF Books, Progress
<1>14. Checked'
  <2>1. status \in [Block -> SUBSET {"data", "undo", "failed"}] /\ BadBlock \subseteq Block
    BY ChainAssumption DEF TypeInv, TypeOK
  <2>2. b \notin BadBlock  BY <1>2 DEF Books, Checked
  <2>3. \A c \in BadBlock : status'[c] = status[c]  BY <1>1, <2>1, <2>2
  <2> QED  BY <1>6, <2>3 DEF Books, Checked
<1> QED  BY <1>11, <1>12, <1>13, <1>14 DEF Books

(* core_CommitBlock ends where the chain ends.                             *)
LEMMA EndsThere ==
  ASSUME TypeInv, Good, Books, Settles, FinishCommit
  PROVE  /\ ~Rest /\ Rest' /\ job' = NoJob /\ best' = At /\ At' = At /\ Top = At /\ Top' = At
         /\ job.new \in Block /\ job.disconLeft = {} /\ At \in Block /\ ~job.spent
         /\ job.fail = None => job.new = At
<1> DEFINE end == IF Reestablish THEN job.last ELSE job.new
<1>1. /\ job.new # None /\ job.disconLeft = {} /\ best' = end /\ job' = NoJob
      /\ (job.conLeft = {}) \/ (job.fail # None)
  BY DEF FinishCommit, EndCommit
<1>2. ~Rest /\ job.new \in Block /\ job.last \in Block  BY <1>1, RestJob DEF TypeInv, TypeOK
<1>3. job.fail = None => job.last = job.new
  <2> SUFFICES ASSUME job.fail = None PROVE job.last = job.new  OBVIOUS
  <2>1. Ancestors(job.last) = Ancestors(job.new)  BY <1>1, <1>2 DEF Good, JobInv
  <2>2. job.last \in Ancestors(job.new) /\ job.new \in Ancestors(job.last)
    BY <1>2, <2>1, Chains
  <2>3. Height[job.last] \in Nat /\ Height[job.new] \in Nat  BY <1>2, Tree
  <2>4. job.last = job.new \/ Height[job.last] < Height[job.new]  BY <1>2, <2>2, Chains
  <2>5. job.last = job.new \/ Height[job.new] < Height[job.last]  BY <1>2, <2>2, Chains
  <2> QED  BY <2>3, <2>4, <2>5
<1>4. end = job.last  BY <1>3 DEF Settles
<1> HIDE DEF end
<1>5. Rest' /\ ~job'.spent  BY <1>1 DEF Rest, NoJob
<1>6. At = job.last /\ At' = job.last  BY <1>1, <1>2, <1>4, <1>5 DEF At
<1>7. ~job.spent  BY <1>1 DEF Books, Progress, Connecting
<1>8. Top = At /\ Top' = At  BY <1>5, <1>6, <1>7 DEF Top
<1> QED  BY <1>1, <1>2, <1>3, <1>4, <1>5, <1>6, <1>7, <1>8

(* The end of a commit touches no database.                                *)
LEMMA BooksFinish ==
  ASSUME TypeInv, Good, Books, Settles, FinishCommit
  PROVE  Books'
<1>1. Rest' /\ job' = NoJob /\ At' = At /\ Top' = Top  BY EndsThere
<1>2. UNCHANGED <<txdb, coin>>  BY DEF FinishCommit
<1>3. Refs' /\ Marks' /\ Funds'  BY <1>1, <1>2, SameBooks DEF Books
<1>4. ~job'.spent /\ job'.fail = None /\ job'.conLeft = {}  BY <1>1 DEF NoJob
<1>5. Progress'  BY <1>1, <1>4 DEF Progress
<1>6. Checked'
  <2>1. \/ status' = status
        \/ status' = [status EXCEPT ![job.fail] = @ \cup {"failed"}]
    BY DEF FinishCommit, EndCommit
  <2>2. status \in [Block -> SUBSET {"data", "undo", "failed"}] /\ BadBlock \subseteq Block
    BY ChainAssumption DEF TypeInv, TypeOK
  <2>3. \A c \in BadBlock : status'[c] \subseteq status[c] \cup {"failed"}  BY <2>1, <2>2
  <2>4. \A c \in BadBlock : status[c] \cap {"data", "undo"} = {}  BY DEF Books, Checked
  <2>5. \A c \in BadBlock : status'[c] \cap {"data", "undo"} = {}  BY <2>3, <2>4
  <2> QED  BY <1>4, <2>5 DEF Checked
<1> QED  BY <1>3, <1>5, <1>6 DEF Books

(* The validation scan finds every spend marked.                           *)
LEMMA BooksValidate ==
  ASSUME TypeInv, Good, Books, NEW pool \in SUBSET Pool, ValidateEvent(pool)
  PROVE  Books' /\ coin' = coin
<1>1. Rest /\ scan # None /\ UNCHANGED <<txdb, job, best, status>>  BY DEF ValidateEvent
<1>2. At = best /\ Top = best
  <2>1. ~job.spent  BY <1>1 DEF Rest, NoJob
  <2> QED  BY <1>1, <2>1 DEF At, Top
<1>3. best \in Block /\ Height[best] \in Nat /\ scan \in Nat /\ coin \in CoinMap
  BY <1>1, Tree DEF TypeInv, TypeOK, CoinMap
<1>4. coin' = coin
  <2>1. CASE coin' = coin  BY <2>1
  <2>2. CASE scan <= Height[best] /\ coin' = UpdateBlockCoins(blkdb[scan], pool)
    <3>1. scan \in 0 .. Height[best]  BY <1>3, <2>2
    <3>2. PICK c \in Ancestors(best) : Height[c] = scan  BY <1>3, <3>1, EveryHeight
    <3>3. blkdb[scan] = c  BY <1>2, <3>2 DEF Good, Stored
    <3>4. c \in Block  BY <1>3, <3>2, Chains
    <3>5. ASSUME NEW t \in Txs(c), NEW p \in ToSet(Vin[t]) PROVE coin[p] = t
      <4>1. t \in Tx /\ p \in Tx  BY <3>4, TxLists
      <4> QED  BY <1>2, <3>2, <4>1 DEF Books, Marks, MarksOf
    <3>6. UpdateBlockCoins(c, pool) = coin  BY <1>3, <3>4, <3>5, MarkedBlock
    <3> QED  BY <2>2, <3>3, <3>6
  <2>3. ~(scan > Height[best]) => scan <= Height[best]  BY <1>3
  <2> QED  BY <2>1, <2>2, <2>3 DEF ValidateEvent
<1>5. Books'  BY <1>1, <1>4, BooksAside DEF Books, Checked
<1> QED  BY <1>4, <1>5

(* What InputsFound supposes follows.                                      *)
LEMMA BooksFind ==
  ASSUME TypeInv, GoodInv, BooksInv
  PROVE  InputsFound
<1> SUFFICES ASSUME Rest, ~torn, NEW b \in Ancestors(best), b # Genesis
             PROVE  CheckTransactionInputs(b)
  BY DEF InputsFound
<1>1. Good /\ Books  BY DEF GoodInv, BooksInv
<1>2. At = best /\ Top = best
  <2>1. ~job.spent  BY DEF Rest, NoJob
  <2> QED  BY <2>1 DEF At, Top
<1>3. Refs /\ FundsOf(Ancestors(At))  BY <1>1, <1>2 DEF Books, Funds
<1>4. \A t \in Txs(b) : \A p \in ToSet(Vin[t]) : VerifyTxHash(p)
  BY <1>1, <1>2, <1>3, FoundInputs
<1> QED  BY <1>4 DEF CheckTransactionInputs

(* A restart between two commits leaves the databases and finds the same   *)
(* chain.                                                                  *)
LEMMA BooksRestart ==
  ASSUME TypeInv, Good, Books, Rest, tip = best, Restart
  PROVE  Books' /\ best' = best
<1>1. best' = best /\ job' = NoJob /\ job = NoJob /\ UNCHANGED <<txdb, coin>>
  BY GoodRestart, RestartIs DEF Rest
<1>2. status' = [b \in Block |-> IF b \in Ancestors(tip) THEN {"data"} ELSE {}]
  <2>1. Loaded = Ancestors(tip)  BY LoadsTip
  <2> QED  BY <2>1, RestartIs
<1>3. Top = best
  <2>1. ~job.spent  BY DEF Rest, NoJob
  <2> QED  BY <2>1 DEF At, Top
<1>4. Ancestors(best) \cap BadBlock = {}  BY <1>3 DEF Books, Funds, FundsOf
<1>5. \A b \in BadBlock : status'[b] = {}  BY <1>2, <1>4, ChainAssumption
<1>6. Books'  BY <1>1, <1>5, BooksAside
<1> QED  BY <1>1, <1>6

(* Every step keeps what the databases say where no commit has been torn.  *)
LEMMA BooksNext ==
  ASSUME PlainBlocks, RefsThere, PoolUnspent, Settles,
         TypeInv, GoodInv, TipIsBest, BooksInv, [Next]_vars
  PROVE  BooksInv'
<1> SUFFICES ASSUME ~torn' PROVE Books'  BY DEF BooksInv
<1>1. torn \in BOOLEAN  BY DEF TypeInv, TypeOK
<1>2. Good /\ Books /\ tip = best /\ (Restart => Rest)
  <2>1. ~torn  BY <1>1, TornStays
  <2>2. Restart => torn' = (torn \/ ~Rest)  BY RestartIs
  <2> QED  BY <1>1, <2>1, <2>2 DEF GoodInv, BooksInv, TipIsBest
<1>3. CASE \E b \in Block \ {Genesis} : ProcessBlock(b) \/ AcceptBlockHeader(b)
  BY <1>2, <1>3, BooksHeader, BooksAccept DEF ProcessBlock
<1>4. CASE \E pool \in SUBSET Pool : DisconnectBlock(pool) \/ ConnectCoins(pool)
  BY <1>2, <1>4, BooksDisconnect, BooksCoins
<1>5. CASE ConnectBlock \/ FinishCommit  BY <1>2, <1>5, BooksConnect, BooksFinish
<1>6. CASE \E pool \in SUBSET Pool : ValidateEvent(pool)  BY <1>2, <1>6, BooksValidate
<1>7. CASE Restart  BY <1>2, <1>7, BooksRestart
<1>8. CASE UNCHANGED vars
  <2>1. UNCHANGED <<txdb, coin, job, best, status>>  BY <1>8 DEF vars, memory, disk
  <2> QED  BY <1>2, <2>1, BooksAside DEF Books, Checked
<1> QED  BY <1>3, <1>4, <1>5, <1>6, <1>7, <1>8 DEF Next, CommitStep

-----------------------------------------------------------------------------
(* The theorems.                                                           *)

(* What they suppose, of the blocks and of every state.                    *)
Regular == PlainBlocks /\ Settles /\ RefsThere /\ PoolUnspent

(* At every step of every commit the transaction database holds the        *)
(* transactions of the chain as far as it is connected, the coin database  *)
(* its spends with those of the block whose coins are written ahead, and   *)
(* all its inputs are there; the stored tip is the best block.             *)
THEOREM BooksKept == Spec /\ []Regular => [](BooksInv /\ TipIsBest)
<1>1. Init => BooksInv /\ TipIsBest  BY BooksInit DEF BooksInv, TipIsBest, Init
<1>2. ASSUME TypeInv, GoodInv, BooksInv, TipIsBest, Regular, [Next]_vars
      PROVE  BooksInv' /\ TipIsBest'
  <2>1. BooksInv'  BY <1>2, BooksNext DEF Regular
  <2>2. InputsFound  BY <1>2, BooksFind
  <2>3. TipIsBest'  BY <1>2, <2>2, TipNext DEF Regular
  <2> QED  BY <2>1, <2>3
<1>3. Regular => Settles  BY DEF Regular
<1> QED  BY <1>1, <1>2, <1>3, ChainTypeInvariant, ChainGood, PTL DEF Spec

(* Between two commits the chain that the databases describe is the best   *)
(* one.                                                                    *)
LEMMA AtRest ==
  ASSUME TypeInv, GoodInv, BooksInv, Rest, ~torn
  PROVE  /\ best \in Block /\ coin \in CoinMap /\ RefsOf(txdb, Ancestors(best))
         /\ MarksOf(coin, Ancestors(best)) /\ FundsOf(Ancestors(best))
<1>1. At = best /\ Top = best
  <2>1. ~job.spent  BY DEF Rest, NoJob
  <2> QED  BY <2>1 DEF At, Top
<1>2. best \in Block /\ coin \in CoinMap  BY DEF TypeInv, TypeOK, CoinMap
<1> QED  BY <1>1, <1>2 DEF BooksInv, Books, Refs, Marks, Funds

(* The best chain is a valid one: whatever branches arrive, in whatever    *)
(* order, and wherever a reorganisation fails, core_CommitBlock settles on *)
(* a block all of whose ancestors pass their checks, spend what is there   *)
(* and mature, and spend nothing twice.                                    *)
THEOREM BestIsValid == Spec /\ []Regular => []BestValid
<1>1. ASSUME TypeInv, GoodInv, BooksInv PROVE BestValid
  <2> SUFFICES ASSUME Rest, ~torn PROVE ValidChain(best)  BY DEF BestValid
  <2> QED  BY <1>1, AtRest, DescribedValid
<1>2. Regular => Settles  BY DEF Regular
<1> QED  BY <1>1, <1>2, ChainTypeInvariant, ChainGood, BooksKept, PTL

(* Every transaction of the best chain is found by its hash: the           *)
(* references that disconnecting a branch erases and connecting another    *)
(* writes end as those of the new chain.                                   *)
THEOREM ChainTxsFound == Spec /\ []Regular => []ChainTxFound
<1>1. ASSUME TypeInv, GoodInv, BooksInv PROVE ChainTxFound
  <2> SUFFICES ASSUME Rest, ~torn, NEW b \in Ancestors(best), NEW t \in Txs(b)
               PROVE  txdb[t] = Height[b]
    BY DEF ChainTxFound
  <2> QED  BY <1>1, AtRest, OneBlock
<1>2. Regular => Settles  BY DEF Regular
<1> QED  BY <1>1, <1>2, ChainTypeInvariant, ChainGood, BooksKept, PTL

(* The coin database names for each output of the best chain the           *)
(* transaction of the chain that spends it, and none else: a               *)
(* reorganisation takes the marks of the old branch back and leaves those  *)
(* of the new one.                                                         *)
THEOREM SpendsAreRecorded == Spec /\ []Regular => []SpendsRecorded
<1>1. ASSUME TypeInv, GoodInv, BooksInv PROVE SpendsRecorded
  <2> SUFFICES ASSUME Rest, ~torn, NEW b \in Ancestors(best), NEW p \in Txs(b)
               PROVE  SpentIn(Ancestors(best), p) = {coin[p]} \ {None}
    BY DEF SpendsRecorded, SpentIn
  <2>1. /\ best \in Block /\ coin \in CoinMap /\ RefsOf(txdb, Ancestors(best))
        /\ MarksOf(coin, Ancestors(best))
    BY <1>1, AtRest
  <2>2. p \in Tx  BY <2>1, Chains, TxLists
  <2>3. Recorded(coin, Ancestors(best))  BY <2>1, DescribedSpends
  <2> QED  BY <2>2, <2>3 DEF Recorded
<1>2. Regular => Settles  BY DEF Regular
<1> QED  BY <1>1, <1>2, ChainTypeInvariant, ChainGood, BooksKept, PTL

(* Restarting loses nothing: a restart between two commits finds all       *)
(* inputs of the stored chain, so it leaves the stored tip, the work to    *)
(* beat and the links at the best chain.                                   *)
THEOREM RestartLosesNothing ==
  Spec /\ []Regular => []TipDurable /\ [][RestartKeepsBest]_vars
<1>1. TypeInv /\ GoodInv /\ BooksInv => InputsFound  BY BooksFind
<1>2. Regular => Settles  BY DEF Regular
<1> QED
  BY <1>1, <1>2, ChainTypeInvariant, ChainGood, BooksKept, TipIsDurable, RestartFindsBest, PTL

-----------------------------------------------------------------------------
(* The refinement.                                                         *)

(* The ledger that the coin database stands for.                           *)
Bar == IF Rest THEN [p \in DOMAIN SpentBy[best] |-> coin[p]] ELSE SpentBy[best]

(* It is the record of the best chain, in a commit and between two.        *)
BarInv == ~torn => Bar = SpentBy[best]
LEMMA BarIs ==
  ASSUME TypeInv, GoodInv, BooksInv
  PROVE  BarInv
<1> SUFFICES ASSUME ~torn PROVE Bar = SpentBy[best]  BY DEF BarInv
<1>1. CASE Rest  BY <1>1, AtRest, DescribedSpends DEF Bar
<1>2. CASE ~Rest  BY <1>2 DEF Bar
<1> QED  BY <1>1, <1>2

(* The best block changes only when a commit ends.                         *)
LEMMA BestStays ==
  ASSUME TypeInv, GoodInv, TipIsBest, [Next]_vars, ~torn, ~torn', ~FinishCommit
  PROVE  best' = best
<1>1. CASE \E b \in Block \ {Genesis} : ProcessBlock(b) \/ AcceptBlockHeader(b)
  BY <1>1 DEF ProcessBlock, AddOrphanBlock, AcceptInvalid, AcceptSide, AcceptBest,
              AcceptBlockHeader
<1>2. CASE \E pool \in SUBSET Pool : DisconnectBlock(pool) \/ ConnectCoins(pool)
  BY <1>2 DEF DisconnectBlock, ConnectCoins
<1>3. CASE ConnectBlock  BY <1>3 DEF ConnectBlock
<1>4. CASE \E pool \in SUBSET Pool : ValidateEvent(pool)  BY <1>4 DEF ValidateEvent
<1>5. CASE Restart
  <2>1. Good /\ tip = best  BY DEF GoodInv, TipIsBest
  <2>2. Rest
    <3>1. torn' = (torn \/ ~Rest)  BY <1>5, RestartIs
    <3> QED  BY <3>1
  <2> QED  BY <1>5, <2>1, <2>2, GoodRestart
<1>6. CASE UNCHANGED vars  BY <1>6 DEF vars, memory
<1> QED  BY <1>1, <1>2, <1>3, <1>4, <1>5, <1>6 DEF Next, CommitStep

(* A commit that ends well is a step to a better valid chain, one that     *)
(* fails a step to the best valid part of the chain that failed.           *)
LEMMA CommitSettles ==
  ASSUME TypeInv, GoodInv, BooksInv, Settles, FinishCommit, ~torn
  PROVE  /\ best' \in Block /\ best' \in Valid
         /\ \/ Total[best'] > Total[best]
            \/ \E c \in Block \ Valid :
                 /\ Total[c] > Total[best]
                 /\ best' \in ChainOf[c] \cap Valid
                 /\ \A d \in ChainOf[c] \cap Valid : Total[d] <= Total[best']
<1>1. Good /\ Books  BY DEF GoodInv, BooksInv
<1>2. /\ ~Rest /\ best' = At /\ Top = At /\ job.new \in Block /\ job.disconLeft = {}
      /\ At \in Block /\ (job.fail = None => job.new = At)
  BY <1>1, EndsThere
<1>3. ValidChain(At)  BY <1>1, <1>2, DescribedValid DEF Books, Refs, Marks, Funds
<1>4. TotalWork(job.new) > TotalWork(best) /\ best \in Block
  BY <1>1, <1>2 DEF Books, Progress, TypeInv, TypeOK
<1>5. /\ \A b \in Block : Total[b] = TotalWork(b) /\ ChainOf[b] = Ancestors(b)
      /\ \A b \in Block : b \in Valid <=> ValidChain(b)
  BY DEF Total, ChainOf, Valid
<1>6. CASE job.fail = None  BY <1>2, <1>3, <1>4, <1>5, <1>6
<1>7. CASE job.fail # None
  <2>1. job.fail = Coming /\ job.conLeft # {} /\ ~ValidChain(Coming)
    BY <1>1, <1>7 DEF Books, Progress
  <2>2. /\ Coming \in Block /\ Coming \in Ancestors(job.new)
        /\ Ancestors(At) \subseteq Ancestors(job.new)
        /\ job.conLeft = Ancestors(job.new) \ Ancestors(At)
        /\ \A c \in job.conLeft : Height[Coming] <= Height[c]
    BY <1>1, <1>2, <2>1, ComesNext
  <2>3. ~ValidChain(job.new)  BY <1>2, <2>1, <2>2, ValidPrefix
  <2>4. At \in Ancestors(job.new)  BY <1>2, <2>2, Chains
  <2>5. ASSUME NEW d \in Ancestors(job.new), ValidChain(d) PROVE TotalWork(d) <= TotalWork(At)
    <3>1. CASE d \in Ancestors(At)  BY <1>2, <3>1, WorkGrows
    <3>2. CASE d \notin Ancestors(At)
      <4>1. Height[Coming] <= Height[d] /\ d \in Block  BY <1>2, <2>2, <3>2, Chains
      <4>2. Coming \in Ancestors(d)  BY <1>2, <2>2, <4>1, HeightsInOrder
      <4>3. ValidChain(Coming)  BY <2>5, <4>1, <4>2, ValidPrefix
      <4> QED  BY <2>1, <4>3
    <3> QED  BY <3>1, <3>2
  <2>6. \A d \in ChainOf[job.new] \cap Valid : Total[d] <= Total[At]
    <3>1. Ancestors(job.new) \subseteq Block  BY <1>2, Chains
    <3> QED  BY <1>2, <1>5, <2>5, <3>1
  <2>7. /\ job.new \in Block \ Valid /\ Total[job.new] > Total[best]
        /\ At \in ChainOf[job.new] \cap Valid
    BY <1>2, <1>3, <1>4, <1>5, <2>3, <2>4
  <2> QED  BY <1>2, <1>3, <1>5, <2>6, <2>7
<1> QED  BY <1>6, <1>7

(* Each step of the service is a step of the ledger or none.               *)
LEMMA StepImplements ==
  ASSUME TypeInv, GoodInv, BooksInv, TipIsBest, Settles, [Next]_vars, BarInv, BarInv'
  PROVE  [L!Next]_(L!vars)
<1>1. torn \in BOOLEAN /\ torn' \in BOOLEAN
  <2>1. TypeInv'  BY TypeNext
  <2> QED  BY <2>1 DEF TypeInv, TypeOK
<1>2. CASE torn'
  <2>1. torn' = TRUE  BY <1>1, <1>2
  <2> QED  BY <2>1 DEF L!Next, L!Lose
<1>3. CASE ~torn'
  <2>1. torn' = torn /\ ~torn  BY <1>1, <1>3, TornStays
  <2>2. Bar = SpentBy[best]  BY <2>1 DEF BarInv
  <2>3. Bar' = SpentBy[best']  BY <1>3 DEF BarInv
  <2>4. CASE FinishCommit
    <3>1. /\ best' \in Block /\ best' \in Valid
          /\ \/ Total[best'] > Total[best]
             \/ \E c \in Block \ Valid :
                  /\ Total[c] > Total[best]
                  /\ best' \in ChainOf[c] \cap Valid
                  /\ \A d \in ChainOf[c] \cap Valid : Total[d] <= Total[best']
      BY <2>1, <2>4, CommitSettles
    <3>2. PICK x \in Block : x = best'  BY <3>1
    <3>3. L!Settle(x)  BY <2>1, <2>3, <3>2 DEF L!Settle, Bar
    <3>4. L!Advance(x) \/ L!Retreat(x)  BY <3>1, <3>2, <3>3 DEF L!Advance, L!Retreat
    <3> QED  BY <3>2, <3>4 DEF L!Next
  <2>5. CASE ~FinishCommit
    <3>1. best' = best  BY <1>3, <2>1, <2>5, BestStays
    <3>2. Bar' = Bar  BY <2>2, <2>3, <3>1
    <3> QED  BY <2>1, <3>1, <3>2 DEF L!vars, Bar
  <2> QED  BY <2>4, <2>5
<1> QED  BY <1>2, <1>3

(* The service starts as the ledger does.                                  *)
LEMMA InitImplements == Init => L!Init
<1> SUFFICES ASSUME Init PROVE L!Init  OBVIOUS
<1>1. TypeInv /\ GoodInv /\ BooksInv /\ ~torn /\ best = Genesis
  BY TypeInit, GoodInit, BooksInit DEF GoodInv, BooksInv, Init
<1>2. Bar = SpentBy[Genesis]  BY <1>1, BarIs DEF BarInv
<1>3. torn = FALSE  BY DEF Init
<1> QED  BY <1>1, <1>2, <1>3 DEF L!Init, Bar

(* The block chain implements the ledger: to the rest of the program       *)
(* core_CommitBlock is one step from a valid chain to a better one, or to  *)
(* the best valid part of a bad one, together with the record of what that *)
(* chain spends, and restarts are invisible.                               *)
THEOREM ChainImplementsLedger == Spec /\ []Regular => ImplementsLedger
<1>1. Init => L!Init  BY InitImplements
<1>2. TypeInv /\ GoodInv /\ BooksInv /\ TipIsBest /\ Regular /\ [Next]_vars /\ BarInv /\ BarInv'
        => [L!Next]_(L!vars)
  BY StepImplements DEF Regular
<1>3. Regular => Settles  BY DEF Regular
<1>4. TypeInv /\ GoodInv /\ BooksInv => BarInv  BY BarIs
<1> QED
  BY <1>1, <1>2, <1>3, <1>4, ChainTypeInvariant, ChainGood, BooksKept, PTL
     DEF Spec, ImplementsLedger, L!Spec
=============================================================================
