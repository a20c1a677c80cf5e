------------------------------ MODULE SyncProofs ------------------------------
(***************************************************************************)
(* Proofs about the synchronisation with peers (Sync), for any number of   *)
(* peers, any tree of blocks and any number of broken connections and      *)
(* crashes: what the service remembers of a peer is in its index, and the  *)
(* peer has it.                                                            *)
(***************************************************************************)
EXTENDS Sync, ChainProofs

-----------------------------------------------------------------------------
(* Lists of blocks by height.                                              *)

(* The lists with no and with one element.                                 *)
LEMMA ShortLists ==
  ASSUME NEW S
  PROVE  /\ <<>> \in Seq(S)
         /\ \A x \in S : <<x>> \in Seq(S)
         /\ \A x : <<x>> # <<>> /\ <<x>>[1] = x /\ Len(<<x>>) = 1 /\ ToSet(<<x>>) = {x}
<1>1. <<>> \in Seq(S) /\ \A x \in S : <<x>> \in Seq(S)  OBVIOUS
<1>2. ASSUME NEW x PROVE <<x>> # <<>> /\ <<x>>[1] = x /\ Len(<<x>>) = 1 /\ ToSet(<<x>>) = {x}
  <2>1. <<x>> \in Seq({x}) /\ Len(<<x>>) = 1 /\ <<x>>[1] = x /\ <<x>> # <<>>  OBVIOUS
  <2> DEFINE s == <<x>>
  <2>2. s \in Seq({x}) /\ Len(s) = 1 /\ s[1] = x  BY <2>1
  <2> HIDE DEF s
  <2>3. ToSet(s) = {x}
    <3>1. 1 \in 1 .. Len(s)  BY <2>2
    <3>2. ToSet(s) \subseteq {x} /\ x \in ToSet(s)  BY <2>2, <3>1, Elements
    <3> QED  BY <3>2
  <2> QED  BY <2>1, <2>3 DEF s
<1> QED  BY <1>1, <1>2

(* ByHeight lists a set of blocks.                                         *)
LEMMA Listed ==
  ASSUME NEW S \in SUBSET Block
  PROVE  /\ ByHeight[S] \in Seq(S) /\ Len(ByHeight[S]) = Cardinality(S)
         /\ ToSet(ByHeight[S]) = S
         /\ Ordered(ByHeight[S])
<1>1. ByHeight[S] = Ascending(S)  BY DEF ByHeight
<1> QED  BY <1>1, AscendingLists

-----------------------------------------------------------------------------
(* What a peer whose best block is t may have sent: blocks of its chain,   *)
(* each header after that of its predecessor.                              *)

Linked(s) == \A i \in 2 .. Len(s) : Prev[s[i]] = s[i - 1]
Kinds == {"version", "sendheaders", "headers", "inv", "block"}
Messages(t) ==
  {m \in [kind : Kinds, blocks : Seq(ChainOf[t])] :
     /\ m.kind # "sendheaders" => m.blocks # <<>>
     /\ m.kind # "version" => Genesis \notin ToSet(m.blocks)
     /\ m.kind = "headers" => Linked(m.blocks)}

(* The chain of a block.                                                   *)
LEMMA ChainIs ==
  \A b \in Block : ChainOf[b] = Ancestors(b) /\ ChainOf[b] \in SUBSET Block
  BY Chains DEF ChainOf

(* A chain grows.                                                          *)
LEMMA ChainGrows ==
  ASSUME NEW b \in Block \ {Genesis}
  PROVE  Prev[b] \in Block /\ ChainOf[Prev[b]] \subseteq ChainOf[b] /\ b \in ChainOf[b]
<1>1. Prev[b] \in Block  BY Tree
<1>2. Ancestors(b) = {b} \cup Ancestors(Prev[b])  BY AncestorsIs
<1> QED  BY <1>1, <1>2, ChainIs

(* What it has sent it may have sent when its chain has grown.             *)
LEMMA MessagesGrow ==
  ASSUME NEW t \in Block, NEW u \in Block, ChainOf[t] \subseteq ChainOf[u]
  PROVE  Messages(t) \subseteq Messages(u)
<1>1. Seq(ChainOf[t]) \subseteq Seq(ChainOf[u])  OBVIOUS
<1> QED  BY <1>1 DEF Messages

(* The blocks above a fork are each the predecessor of the next.           *)
LEMMA ForkLinked ==
  ASSUME NEW t \in Block, NEW b \in Block
  PROVE  /\ AboveFork[t][b] \in Seq(ChainOf[t])
         /\ Genesis \notin ToSet(AboveFork[t][b])
         /\ Linked(AboveFork[t][b])
<1> DEFINE S == ChainOf[t] \ ChainOf[b]
           s == AboveFork[t][b]
<1>1. /\ ChainOf[t] = Ancestors(t) /\ ChainOf[b] = Ancestors(b) /\ S \in SUBSET Block
  BY ChainIs
<1>2. s = ByHeight[S]  BY DEF AboveFork
<1>3. s \in Seq(S) /\ Len(s) = Cardinality(S) /\ ToSet(s) = S /\ Ordered(s)
  BY <1>1, <1>2, Listed
<1>4. Genesis \notin S  BY <1>1, Chains
<1>5. S \subseteq ChainOf[t]  OBVIOUS
<1>6. /\ \A c \in S : c \in Ancestors(t) /\ c \notin Ancestors(b) /\ c \in Block /\ c # Genesis
      /\ \A c \in Block : c \in Ancestors(t) /\ c \notin Ancestors(b) => c \in S
  BY <1>1, <1>4
<1> HIDE DEF S, s
<1>7. Len(s) \in Nat /\ DOMAIN s = 1 .. Len(s) /\ \A i \in 1 .. Len(s) : s[i] \in S
  BY <1>3, Elements
<1>8. \A x \in S : \E i \in 1 .. Len(s) : s[i] = x  BY <1>3, Elements
<1>9. \A i, j \in 1 .. Len(s) : s[i] = s[j] => i = j
  <2>1. s \in [1 .. Len(s) -> S]  BY <1>3, <1>7
  <2>2. s \in Surjection(1 .. Len(s), S)  BY <1>8, <2>1 DEF Surjection
  <2>3. IsFiniteSet(1 .. Len(s)) /\ Cardinality(1 .. Len(s)) = Len(s)
    BY <1>7, FS_Interval
  <2>4. s \in Injection(1 .. Len(s), S)
    BY <1>3, <2>2, <2>3, FS_SurjSameCardinalityImpliesInj
  <2> QED  BY <2>4 DEF Injection, IsInjective
<1>10. ASSUME NEW i \in 1 .. Len(s), NEW j \in 1 .. Len(s), i < j
       PROVE  Height[s[i]] < Height[s[j]]
  <2>1. Height[s[i]] <= Height[s[j]]  BY <1>3, <1>7, <1>10 DEF Ordered
  <2>2. s[i] # s[j]  BY <1>7, <1>9, <1>10
  <2>3. Height[s[i]] # Height[s[j]]  BY <1>6, <1>7, <2>2, OnePerHeight
  <2>4. Height[s[i]] \in Nat /\ Height[s[j]] \in Nat  BY <1>6, <1>7, Tree
  <2> QED  BY <2>1, <2>3, <2>4
<1>11. ASSUME NEW i \in 2 .. Len(s) PROVE Prev[s[i]] = s[i - 1]
  <2>1. i \in 1 .. Len(s) /\ i - 1 \in 1 .. Len(s) /\ i - 1 < i  BY <1>7
  <2>2. s[i] \in S /\ s[i - 1] \in S /\ Height[s[i - 1]] < Height[s[i]]
    BY <1>7, <1>10, <2>1
  <2> DEFINE x == s[i]
             y == s[i - 1]
  <2> HIDE DEF x, y
  <2>3. /\ x \in Block /\ x # Genesis /\ x \in Ancestors(t) /\ y \in Ancestors(t)
        /\ y \notin Ancestors(b) /\ y \in Block /\ Height[y] < Height[x]
    BY <1>6, <2>2 DEF x, y
  <2>4. /\ Prev[x] \in Block /\ Height[x] = Height[Prev[x]] + 1
        /\ Height[x] \in Nat /\ Height[Prev[x]] \in Nat /\ Height[y] \in Nat
    BY <2>3, Tree
  <2>5. Prev[x] \in Ancestors(t)  BY <2>3, Chains
  <2>6. Height[y] <= Height[Prev[x]]  BY <2>3, <2>4
  <2>7. y \in Ancestors(Prev[x])  BY <2>3, <2>5, <2>6, HeightsInOrder
  <2>8. Prev[x] \notin Ancestors(b)  BY <2>3, <2>7, Chains
  <2>9. Prev[x] \in S  BY <1>6, <2>4, <2>5, <2>8
  <2>10. PICK k \in 1 .. Len(s) : s[k] = Prev[x]  BY <1>8, <2>9
  <2>11. k < i
    <3>1. CASE i < k
      <4>1. Height[s[i]] < Height[s[k]]  BY <1>10, <2>1, <3>1
      <4> QED  BY <2>4, <2>10, <4>1 DEF x
    <3>2. CASE i = k  BY <2>4, <2>10, <3>2 DEF x
    <3> QED  BY <1>7, <3>1, <3>2
  <2>12. CASE k = i - 1  BY <2>10, <2>12 DEF x
  <2>13. CASE k # i - 1
    <3>1. k < i - 1  BY <1>7, <2>11, <2>13
    <3>2. Height[s[k]] < Height[s[i - 1]]  BY <1>10, <2>1, <3>1
    <3> QED  BY <2>4, <2>6, <2>10, <3>2 DEF y
  <2> QED  BY <2>12, <2>13
<1>12. Linked(s)  BY <1>11 DEF Linked
<1>13. s \in Seq(ChainOf[t])
  <2>1. Seq(S) \subseteq Seq(ChainOf[t])  BY <1>5
  <2> QED  BY <1>3, <2>1
<1> QED  BY <1>3, <1>4, <1>12, <1>13 DEF s

(* The first blocks of such a list are one too.                            *)
LEMMA FirstOf ==
  ASSUME NEW S, NEW s \in Seq(S), NEW n \in 0 .. Len(s)
  PROVE  /\ SubSeq(s, 1, n) \in Seq(S) /\ Len(SubSeq(s, 1, n)) = n
         /\ \A i \in 1 .. n : SubSeq(s, 1, n)[i] = s[i]
         /\ ToSet(SubSeq(s, 1, n)) \subseteq ToSet(s)
         /\ Linked(s) => Linked(SubSeq(s, 1, n))
<1>0. Len(s) \in Nat /\ n \in Nat /\ n <= Len(s)  OBVIOUS
<1>1. /\ SubSeq(s, 1, n) \in Seq(S) /\ Len(SubSeq(s, 1, n)) = n
      /\ \A i \in 1 .. n : SubSeq(s, 1, n)[i] = s[i]
  BY <1>0
<1> DEFINE q == SubSeq(s, 1, n)
<1> HIDE DEF q
<1>2. q \in Seq(S) /\ Len(q) = n /\ \A i \in 1 .. n : q[i] = s[i]  BY <1>1 DEF q
<1>3. ToSet(q) \subseteq ToSet(s)
  <2>1. \A x \in ToSet(q) : \E i \in 1 .. n : q[i] = x  BY <1>2, Elements
  <2>2. \A x \in ToSet(q) : \E i \in 1 .. Len(s) : s[i] = x  BY <1>0, <1>2, <2>1
  <2> QED  BY <2>2, Elements
<1>4. Linked(s) => Linked(q)
  <2>1. \A i \in 2 .. n : i \in 1 .. n /\ i - 1 \in 1 .. n /\ i \in 2 .. Len(s)  BY <1>0
  <2> QED  BY <1>2, <2>1 DEF Linked
<1> QED  BY <1>1, <1>3, <1>4 DEF q

-----------------------------------------------------------------------------
(* The answers of a peer.                                                  *)

(* A message with one or more blocks of the chain.                         *)
LEMMA MessageTyped ==
  ASSUME NEW t \in Block, NEW s \in Seq(ChainOf[t]), s # <<>>, Genesis \notin ToSet(s)
  PROVE  /\ Message("inv", s) \in Messages(t)
         /\ Message("block", s) \in Messages(t)
         /\ Linked(s) => Message("headers", s) \in Messages(t)
         /\ \A k : Message(k, s).kind = k /\ Message(k, s).blocks = s
<1>1. \A k : Message(k, s).kind = k /\ Message(k, s).blocks = s  BY DEF Message
<1>2. \A k \in Kinds : Message(k, s) \in [kind : Kinds, blocks : Seq(ChainOf[t])]
  BY DEF Message
<1>3. {"headers", "inv", "block"} \subseteq Kinds  BY DEF Kinds
<1> QED  BY <1>1, <1>2, <1>3 DEF Messages

(* The answer to getheaders.                                               *)
LEMMA HeadersTyped ==
  ASSUME NEW p \in Peer, ptip[p] \in Block, NEW b \in Block, NEW stop
  PROVE  GetHeaders(p, b, stop) \in Seq(Messages(ptip[p]))
<1> DEFINE t == ptip[p]
           s == AboveFork[t][b]
           N == {Len(s), MaxHeaders} \cup {i \in DOMAIN s : s[i] = stop}
           q == SubSeq(s, 1, Min(N))
<1>1. s \in Seq(ChainOf[t]) /\ Genesis \notin ToSet(s) /\ Linked(s)  BY ForkLinked
<1>2. HeadersFor(p, b, stop) = q  BY DEF HeadersFor
<1>t. t \in Block  OBVIOUS
<1> HIDE DEF s, t
<1>3. Len(s) \in Nat /\ DOMAIN s = 1 .. Len(s)  BY <1>1, Elements
<1>4. N \in SUBSET Nat /\ N # {} /\ Len(s) \in N  BY <1>3, SyncAssumption
<1> HIDE DEF N
<1>5. Min(N) \in 0 .. Len(s)
  <2>1. Min(N) \in N /\ \A y \in N : Min(N) <= y  BY <1>4, MinIn
  <2> HIDE DEF q
  <2>2. Min(N) \in Nat /\ Min(N) <= Len(s)  BY <1>4, <2>1
  <2> QED  BY <1>3, <2>2
<1>6. /\ q \in Seq(ChainOf[t]) /\ Len(q) = Min(N) /\ ToSet(q) \subseteq ToSet(s)
      /\ Linked(q)
  BY <1>1, <1>5, FirstOf
<1> HIDE DEF q
<1>7. q # <<>> => Message("headers", q) \in Messages(t)  BY <1>t, <1>1, <1>6, MessageTyped
<1>8. GetHeaders(p, b, stop) = IF q = <<>> THEN <<>> ELSE <<Message("headers", q)>>
  BY <1>2 DEF GetHeaders
<1>9. GetHeaders(p, b, stop) \in Seq(Messages(t))  BY <1>7, <1>8, ShortLists
<1> QED  BY <1>9 DEF t

(* The answer to getblocks.                                                *)
LEMMA BlocksTyped ==
  ASSUME NEW p \in Peer, ptip[p] \in Block, NEW b \in Block, NEW stop
  PROVE  GetBlocks(p, b, stop) \in Seq(Messages(ptip[p]))
<1> DEFINE t == ptip[p]
           s == AboveFork[t][b]
           N == {Len(s)} \cup {i - 1 : i \in {j \in DOMAIN s : s[j] = stop}}
           q == SubSeq(s, 1, Min(N))
<1>1. s \in Seq(ChainOf[t]) /\ Genesis \notin ToSet(s)  BY ForkLinked
<1>2. GetBlocks(p, b, stop) = IF Min(N) = 0 THEN <<>> ELSE <<Message("inv", q)>>
  BY DEF GetBlocks
<1>t. t \in Block  OBVIOUS
<1> HIDE DEF s, t
<1>3. Len(s) \in Nat /\ DOMAIN s = 1 .. Len(s)  BY <1>1, Elements
<1>4. N \in SUBSET Nat /\ N # {} /\ Len(s) \in N  BY <1>3
<1> HIDE DEF N
<1>5. Min(N) \in 0 .. Len(s)
  <2>1. Min(N) \in N /\ \A y \in N : Min(N) <= y  BY <1>4, MinIn
  <2> HIDE DEF q
  <2>2. Min(N) \in Nat /\ Min(N) <= Len(s)  BY <1>4, <2>1
  <2> QED  BY <1>3, <2>2
<1>6. q \in Seq(ChainOf[t]) /\ Len(q) = Min(N) /\ ToSet(q) \subseteq ToSet(s)
  BY <1>1, <1>5, FirstOf
<1> HIDE DEF q
<1>7. Min(N) # 0 => q # <<>>  BY <1>6
<1>8. Min(N) # 0 => Message("inv", q) \in Messages(t)
  BY <1>t, <1>1, <1>6, <1>7, MessageTyped
<1>9. GetBlocks(p, b, stop) \in Seq(Messages(t))  BY <1>2, <1>8, ShortLists
<1> QED  BY <1>9 DEF t

(* The answer to getdata.                                                  *)
LEMMA DataTyped ==
  ASSUME NEW p \in Peer, ptip[p] \in Block, NEW S, Genesis \notin S
  PROVE  GetData(p, S) \in Seq(Messages(ptip[p]))
<1> DEFINE t == ptip[p]
           T == S \cap ChainOf[t]
           held == ByHeight[T]
<1>t. t \in Block  OBVIOUS
<1>1. T \in SUBSET Block /\ T \subseteq ChainOf[t] /\ Genesis \notin T  BY ChainIs
<1>2. GetData(p, S) = [i \in DOMAIN held |-> Message("block", <<held[i]>>)]
  BY DEF GetData
<1> HIDE DEF t, T
<1>3. held \in Seq(T)  BY <1>1, Listed
<1> HIDE DEF held
<1>4. Len(held) \in Nat /\ DOMAIN held = 1 .. Len(held) /\ \A i \in 1 .. Len(held) : held[i] \in T
  BY <1>3, Elements
<1>5. ASSUME NEW i \in 1 .. Len(held) PROVE Message("block", <<held[i]>>) \in Messages(t)
  <2>1. held[i] \in ChainOf[t] /\ held[i] # Genesis  BY <1>1, <1>4
  <2> DEFINE q == <<held[i]>>
  <2>2. q \in Seq(ChainOf[t]) /\ q # <<>> /\ Genesis \notin ToSet(q)
    BY <2>1, ShortLists
  <2> HIDE DEF q
  <2>3. Message("block", q) \in Messages(t)  BY <1>t, <2>2, MessageTyped
  <2> QED  BY <2>3 DEF q
<1> QED  BY <1>2, <1>4, <1>5 DEF t

(* What the peer notes when it has sent headers.                           *)
LEMMA SentTyped ==
  ASSUME NEW p \in Peer, NEW t \in Block, NEW out \in Seq(Messages(t)),
         psent \in [Peer -> Block \cup {None}], SentHeaders(p, out)
  PROVE  psent' \in [Peer -> Block \cup {None}]
<1> DEFINE sent == {i \in DOMAIN out : out[i].kind = "headers"}
           m == out[Max(sent)]
<1>1. psent' = IF sent = {} THEN psent ELSE [psent EXCEPT ![p] = Last(m.blocks)]
  BY DEF SentHeaders
<1>2. CASE sent = {}  BY <1>1, <1>2
<1>3. CASE sent # {}
  <2>1. Len(out) \in Nat /\ sent \in SUBSET (1 .. Len(out))  BY Elements
  <2>2. Max(sent) \in sent  BY <1>3, <2>1, MaxIn
  <2>3. m \in Messages(t) /\ m.kind = "headers"  BY <2>1, <2>2
  <2> HIDE DEF m
  <2>4. m.blocks \in Seq(ChainOf[t]) /\ m.blocks # <<>>  BY <2>3 DEF Messages
  <2>5. Last(m.blocks) \in ChainOf[t]  BY <2>4 DEF Last
  <2>6. Last(m.blocks) \in Block  BY <2>5, ChainIs
  <2> QED  BY <1>1, <1>3, <2>6
<1> QED  BY <1>2, <1>3

-----------------------------------------------------------------------------
(* What the service keeps of a peer with the best block t: what it knows   *)
(* the peer to have is in the index and in the peer's chain.               *)

Nodes(idx, t, G) ==
  [version : BOOLEAN, prefer : BOOLEAN,
   known : (idx \cap ChainOf[t]) \cup {None}, unknown : ChainOf[t] \cup {None},
   lastHeader : idx \cup {None}, lastBlock : (idx \cap ChainOf[t]) \cup {None},
   ask : SUBSET (ChainOf[t] \ {Genesis}), getblocks : G]

(* It stays so when the index and the chain grow.                          *)
LEMMA NodesGrow ==
  ASSUME NEW idx, NEW jdx, NEW t, NEW u, NEW G, NEW H, NEW n \in Nodes(idx, t, G),
         idx \subseteq jdx, ChainOf[t] \subseteq ChainOf[u], n.getblocks \in H
  PROVE  n \in Nodes(jdx, u, H)
  BY DEF Nodes

(* What a new connection knows.                                            *)
LEMMA NewNodeTyped ==
  ASSUME NEW idx, NEW t
  PROVE  NewNode \in Nodes(idx, t, {NewNode.getblocks})
  BY DEF NewNode, Nodes

(* ProcessBlockAvailability.                                               *)
LEMMA ProcessTyped ==
  ASSUME NEW idx \in SUBSET Block, NEW t, NEW G, NEW n \in Nodes(idx, t, G), NEW work
  PROVE  ProcessBlockAvailability(n, idx, work) \in Nodes(idx, t, G)
<1>1. n.unknown \in idx => n.unknown \in idx \cap ChainOf[t]  BY Tree DEF Nodes
<1>2. n.unknown \in idx => [n EXCEPT !.known = n.unknown] \in Nodes(idx, t, G)
  BY <1>1 DEF Nodes
<1> QED  BY <1>2 DEF ProcessBlockAvailability

(* UpdateBlockAvailability for a block of the peer.                        *)
LEMMA UpdateTyped ==
  ASSUME NEW idx \in SUBSET Block, NEW t, NEW G, NEW n \in Nodes(idx, t, G), NEW work,
         NEW b \in ChainOf[t]
  PROVE  UpdateBlockAvailability(n, b, idx, work) \in Nodes(idx, t, G)
<1> DEFINE m == ProcessBlockAvailability(n, idx, work)
<1>1. m \in Nodes(idx, t, G)  BY ProcessTyped
<1>2. UpdateBlockAvailability(n, b, idx, work) =
        IF b \notin idx THEN [m EXCEPT !.unknown = b]
        ELSE IF MoreKnown(m, b, work) THEN [m EXCEPT !.known = b] ELSE m
  BY DEF UpdateBlockAvailability
<1> HIDE DEF m
<1>3. [m EXCEPT !.unknown = b] \in Nodes(idx, t, G)  BY <1>1 DEF Nodes
<1>4. b \in idx => [m EXCEPT !.known = b] \in Nodes(idx, t, G)  BY <1>1 DEF Nodes
<1> QED  BY <1>1, <1>2, <1>3, <1>4

(* PushGetBlocks.                                                          *)
LEMMA PushTyped ==
  ASSUME NEW p \in Peer, ptip[p] \in Block, NEW idx, NEW t, NEW G,
         NEW n \in Nodes(idx, t, G), NEW b \in Block, NEW stop, <<b, stop>> \in G
  PROVE  /\ PushGetBlocks(p, n, b, stop).n \in Nodes(idx, t, G)
         /\ PushGetBlocks(p, n, b, stop).out \in Seq(Messages(ptip[p]))
<1>1. GetBlocks(p, b, stop) \in Seq(Messages(ptip[p]))  BY BlocksTyped
<1>2. <<>> \in Seq(Messages(ptip[p]))  BY ShortLists
<1>3. [n EXCEPT !.getblocks = <<b, stop>>] \in Nodes(idx, t, G)  BY DEF Nodes
<1>4. CASE n.getblocks = <<b, stop>>
  BY <1>2, <1>4 DEF PushGetBlocks
<1>5. CASE n.getblocks # <<b, stop>>
  <2> DEFINE m == [n EXCEPT !.getblocks = <<b, stop>>]
             o == GetBlocks(p, b, stop)
  <2>1. PushGetBlocks(p, n, b, stop) = [n |-> m, out |-> o]  BY <1>5 DEF PushGetBlocks
  <2> HIDE DEF m, o
  <2>2. PushGetBlocks(p, n, b, stop).n = m /\ PushGetBlocks(p, n, b, stop).out = o
    BY <2>1
  <2> QED  BY <1>1, <1>3, <2>2 DEF m, o
<1> QED  BY <1>4, <1>5

(* The block from which headers are asked for.                             *)
LEMMA LocatorTyped ==
  ASSUME TypeInv, bestHeader \in index \cup {None}
  PROVE  LocatorTip \in index /\ LocatorTip \in Block
  BY DEF LocatorTip, TypeInv, TypeOK

(* The state of the loop of inv, and the requests for blocks it may leave. *)
Asks(p) == {node[p].getblocks} \cup {<<b, None>> : b \in Block}
             \cup {<<best, OrphanRoot(b, orphan)>> : b \in Block}
InvStates(p) == [n : Nodes(index, ptip[p], Asks(p)), out : Seq(Messages(ptip[p]))]

(* One block of an inv.                                                    *)
LEMMA InvOneTyped ==
  ASSUME TypeInv, bestHeader \in index \cup {None}, NEW p \in Peer, ptip[p] \in Block,
         NEW last, NEW r \in InvStates(p), NEW b \in ChainOf[ptip[p]], b # Genesis
  PROVE  InvOne(p, last, r, b) \in InvStates(p)
<1> DEFINE t == ptip[p]
           N == Nodes(index, t, Asks(p))
           M == Seq(Messages(t))
           n == IF r.n.prefer THEN UpdateBlockAvailability(r.n, b, index, cwork) ELSE r.n
           more == IF \E q \in Block : orphan[q] = b
                   THEN PushGetBlocks(p, n, best, OrphanRoot(b, orphan))
                   ELSE IF b = last THEN PushGetBlocks(p, n, b, None)
                   ELSE [n |-> n, out |-> <<>>]
           ask == [n EXCEPT !.ask = @ \cup {b}]
           hdrs == IF n.prefer THEN GetHeaders(p, LocatorTip, b) ELSE <<>>
<1>1. InvOne(p, last, r, b) =
        IF b \notin index THEN [n |-> ask, out |-> r.out \o hdrs]
        ELSE [n |-> more.n, out |-> r.out \o more.out]
  BY DEF InvOne
<1>2. index \in SUBSET Block /\ best \in Block /\ b \in Block /\ LocatorTip \in Block
  BY LocatorTyped, ChainIs DEF TypeInv, TypeOK
<1>3. r.n \in N /\ r.out \in M  BY DEF InvStates
<1>4. n \in N  BY <1>2, <1>3, UpdateTyped
<1>5. hdrs \in M  BY <1>2, HeadersTyped, ShortLists
<1> HIDE DEF n, hdrs
<1>6. ask \in N  BY <1>4 DEF Nodes
<1>7. more.n \in N /\ more.out \in M
  <2>1. CASE \E q \in Block : orphan[q] = b
    <3>1. <<best, OrphanRoot(b, orphan)>> \in Asks(p)  BY <1>2 DEF Asks
    <3>2. more = PushGetBlocks(p, n, best, OrphanRoot(b, orphan))  BY <2>1
    <3> QED  BY <1>2, <1>4, <3>1, <3>2, PushTyped
  <2>2. CASE ~(\E q \in Block : orphan[q] = b) /\ b = last
    <3>1. <<b, None>> \in Asks(p)  BY <1>2 DEF Asks
    <3>2. more = PushGetBlocks(p, n, b, None)  BY <2>2
    <3> QED  BY <1>2, <1>4, <3>1, <3>2, PushTyped
  <2>3. CASE ~(\E q \in Block : orphan[q] = b) /\ b # last
    <3>1. more = [n |-> n, out |-> <<>>]  BY <2>3
    <3> HIDE DEF more
    <3>2. more.n = n /\ more.out = <<>>  BY <3>1
    <3> QED  BY <1>4, <3>2, ShortLists
  <2> QED  BY <2>1, <2>2, <2>3
<1> HIDE DEF more, ask, N, M
<1>8. \A x \in M : r.out \o x \in M  BY <1>3 DEF M
<1>9. InvOne(p, last, r, b) \in [n : N, out : M]
  BY <1>1, <1>5, <1>6, <1>7, <1>8
<1> QED  BY <1>9 DEF InvStates, N, M

(* All blocks of an inv.                                                   *)
LEMMA InvTyped ==
  ASSUME TypeInv, bestHeader \in index \cup {None}, NEW p \in Peer, ptip[p] \in Block,
         [n |-> node[p], out |-> <<>>] \in InvStates(p),
         NEW s \in Seq(ChainOf[ptip[p]]), Genesis \notin ToSet(s)
  PROVE  InvAll(p, s) \in InvStates(p)
<1> DEFINE n == Len(s)
           last == Last(s)
           r == [n |-> node[p], out |-> <<>>]
           A == InvStates(p)
           Fold(h) == h = [x \in SUBSET DOMAIN s |-> IF x = {} THEN r
                             ELSE InvOne(p, last, h[x \ {Max(x)}], s[Max(x)])]
           I == CHOOSE h : Fold(h)
           F == [i \in 1 .. n |-> [a \in A |-> InvOne(p, last, a, s[i])]]
<1>1. InvAll(p, s) = I[DOMAIN s]  BY DEF InvAll, FoldLeft, MapThenFoldSet
<1>2. n \in Nat /\ DOMAIN s = 1 .. n /\ \A i \in 1 .. n : s[i] \in ChainOf[ptip[p]]
  BY Elements
<1>3. \A i \in 1 .. n : s[i] # Genesis  BY Elements
<1>n. n \in Nat  BY <1>2
<1>b. r \in A  OBVIOUS
<1>c. ASSUME NEW i \in 1 .. n, NEW a \in A PROVE InvOne(p, last, a, s[i]) \in A
  BY <1>2, <1>3, InvOneTyped
<1> HIDE DEF n, A, last, r
<1>4. F \in [1 .. n -> [A -> A]]  BY <1>c
<1>5. \A i \in 1 .. n : \A a \in A : F[i][a] = InvOne(p, last, a, s[i])  OBVIOUS
<1> HIDE DEF F, Fold, I
<1>6. PICK g \in [SUBSET (1 .. n) -> A] : IsLeftFold(g, n, r, F)
  BY <1>n, <1>b, <1>4, FoldsLeft
<1>7. ASSUME NEW x \in SUBSET (1 .. n), x # {}
      PROVE  Max(x) \in 1 .. n /\ x \ {Max(x)} \in SUBSET (1 .. n)
  BY <1>n, <1>7, MaxIn
<1>8. Fold(g)
  <2>1. \A x \in SUBSET (1 .. n) : x # {} =>
          g[x] = InvOne(p, last, g[x \ {Max(x)}], s[Max(x)])
    BY <1>5, <1>6, <1>7 DEF IsLeftFold
  <2>2. g[{}] = r  BY <1>6 DEF IsLeftFold
  <2> QED  BY <1>2, <1>6, <2>1, <2>2 DEF Fold
<1>9. Fold(I)  BY <1>8 DEF I
<1>10. I[{}] = r /\ \A x \in SUBSET (1 .. n) : x # {} =>
         I[x] = InvOne(p, last, I[x \ {Max(x)}], s[Max(x)])
  BY <1>2, <1>9 DEF Fold
<1>11. ASSUME NEW k \in 1 .. n, I[1 .. (k - 1)] \in A PROVE I[1 .. k] \in A
  <2>1. /\ 1 .. k \in SUBSET (1 .. n) /\ 1 .. k # {}
        /\ Max(1 .. k) = k /\ (1 .. k) \ {k} = 1 .. (k - 1)
    BY <1>n, Prefix
  <2>2. I[1 .. k] = InvOne(p, last, I[1 .. (k - 1)], s[k])  BY <1>10, <2>1
  <2> QED  BY <1>c, <1>11, <2>2
<1>12. I[1 .. n] \in A  BY <1>n, <1>b, <1>10, <1>11, FoldedLeft
<1> QED  BY <1>1, <1>2, <1>12 DEF A

-----------------------------------------------------------------------------
(* The headers of a message, one after the other.                          *)

HeaderStates ==
  [ok : BOOLEAN, index : SUBSET Block, pprev : [Block -> Block \cup {None}],
   cwork : [Block -> Nat], top : Block \cup {None}]

(* The index with some of them: those it had keep their links, the others  *)
(* are linked to their predecessors.                                       *)
HeadersIn(r) ==
  /\ r \in HeaderStates /\ index \subseteq r.index
  /\ \A b \in index : r.pprev[b] = pprev[b]
  /\ \A b \in r.index \ index : r.pprev[b] = Prev[b] /\ Prev[b] \in r.index /\ b # Genesis
  /\ r.top \in r.index \cup {None}

(* One header, typed.                                                      *)
LEMMA AcceptTyped ==
  ASSUME NEW r \in HeaderStates, NEW b \in Block \ {Genesis}
  PROVE  AcceptHeader(r, b) \in HeaderStates
<1> DEFINE w == r.cwork[Prev[b]] + Work[b]
           i == r.index \cup {b}
           q == [r.pprev EXCEPT ![b] = Prev[b]]
           c == [r.cwork EXCEPT ![b] = w]
           h == BestHeader(r.top, r.cwork, b, w)
           no == [r EXCEPT !.ok = FALSE]
           new == [ok |-> TRUE, index |-> i, pprev |-> q, cwork |-> c, top |-> h]
<1>1. /\ r.index \in SUBSET Block /\ r.pprev \in [Block -> Block \cup {None}]
      /\ r.cwork \in [Block -> Nat] /\ r.top \in Block \cup {None}
  BY DEF HeaderStates
<1>2. Prev[b] \in Block  BY Tree
<1>3. w \in Nat  BY <1>1, <1>2, ChainAssumption
<1>4. h \in Block \cup {None}  BY <1>1 DEF BestHeader
<1>5. AcceptHeader(r, b) \in {no, r, new}  BY DEF AcceptHeader
<1> HIDE DEF w, h
<1>6. i \in SUBSET Block /\ q \in [Block -> Block \cup {None}] /\ c \in [Block -> Nat]
  BY <1>1, <1>2, <1>3
<1>7. no \in HeaderStates  BY DEF HeaderStates
<1> HIDE DEF i, q, c
<1>8. new \in HeaderStates  BY <1>4, <1>6 DEF HeaderStates
<1> QED  BY <1>5, <1>7, <1>8

(* One header whose predecessor is there.                                  *)
LEMMA AcceptKeeps ==
  ASSUME NEW r, HeadersIn(r), NEW b \in Block \ {Genesis},
         r.ok => Prev[b] \in r.index
  PROVE  /\ HeadersIn(AcceptHeader(r, b))
         /\ AcceptHeader(r, b).ok => b \in AcceptHeader(r, b).index
<1> DEFINE w == r.cwork[Prev[b]] + Work[b]
           i == r.index \cup {b}
           q == [r.pprev EXCEPT ![b] = Prev[b]]
           c == [r.cwork EXCEPT ![b] = w]
           h == BestHeader(r.top, r.cwork, b, w)
           fail == "failed" \in status[IF b \in r.index THEN b ELSE Prev[b]]
           a == AcceptHeader(r, b)
<1>1. a \in HeaderStates  BY AcceptTyped DEF HeadersIn
<1>2. /\ r \in HeaderStates /\ r.index \in SUBSET Block
      /\ r.pprev \in [Block -> Block \cup {None}] /\ r.ok \in BOOLEAN
  BY DEF HeadersIn, HeaderStates
<1>3. a = IF ~r.ok \/ fail THEN [r EXCEPT !.ok = FALSE]
          ELSE IF b \in r.index THEN r
          ELSE [ok |-> TRUE, index |-> i, pprev |-> q, cwork |-> c, top |-> h]
  BY DEF AcceptHeader
<1>4. h \in {b, r.top}  BY DEF BestHeader
<1> HIDE DEF a, w, fail, h
<1>5. CASE ~r.ok \/ fail
  <2>1. a = [r EXCEPT !.ok = FALSE]  BY <1>3, <1>5
  <2>2. a.ok = FALSE /\ a.index = r.index /\ a.pprev = r.pprev /\ a.top = r.top
    BY <1>2, <2>1 DEF HeaderStates
  <2> QED  BY <1>1, <2>2 DEF HeadersIn, a
<1>6. CASE ~(~r.ok \/ fail) /\ b \in r.index
  <2>1. a = r  BY <1>3, <1>6
  <2> QED  BY <1>6, <2>1 DEF a
<1>7. CASE ~(~r.ok \/ fail) /\ b \notin r.index
  <2>1. a = [ok |-> TRUE, index |-> i, pprev |-> q, cwork |-> c, top |-> h]
    BY <1>3, <1>7
  <2>2. i = r.index \cup {b} /\ q = [r.pprev EXCEPT ![b] = Prev[b]]  OBVIOUS
  <2> HIDE DEF i, q, c
  <2>3. a.index = i /\ a.pprev = q /\ a.top = h  BY <2>1
  <2>4. b \notin index /\ Prev[b] \in r.index  BY <1>7 DEF HeadersIn
  <2>5. q[b] = Prev[b] /\ \A x \in r.index : q[x] = r.pprev[x]
    BY <1>2, <1>7, <2>2
  <2>6. \A x \in index : q[x] = pprev[x]  BY <2>5 DEF HeadersIn
  <2>7. \A x \in i \ index : q[x] = Prev[x] /\ Prev[x] \in i /\ x # Genesis
    BY <2>2, <2>4, <2>5 DEF HeadersIn
  <2>8. index \subseteq i /\ h \in i \cup {None} /\ b \in i
    BY <1>4, <2>2 DEF HeadersIn
  <2>9. HeadersIn(a)  BY <1>1, <2>3, <2>6, <2>7, <2>8 DEF HeadersIn, a
  <2> QED  BY <2>3, <2>8, <2>9 DEF a
<1> QED  BY <1>5, <1>6, <1>7

(* All headers of a message.                                               *)
LEMMA HeadersAccepted ==
  ASSUME TypeInv, bestHeader \in index \cup {None}, NEW s \in Seq(Block), s # <<>>,
         Genesis \notin ToSet(s), Linked(s), Prev[s[1]] \in index
  PROVE  /\ HeadersIn(ProcessNewBlockHeaders(s))
         /\ ProcessNewBlockHeaders(s).ok => Last(s) \in ProcessNewBlockHeaders(s).index
<1> DEFINE n == Len(s)
           A == HeaderStates
           r == [ok |-> TRUE, index |-> index, pprev |-> pprev, cwork |-> cwork,
                 top |-> bestHeader]
           Fold(h) == h = [x \in SUBSET DOMAIN s |-> IF x = {} THEN r
                             ELSE AcceptHeader(h[x \ {Max(x)}], s[Max(x)])]
           I == CHOOSE h : Fold(h)
           F == [i \in 1 .. n |-> [a \in A |-> AcceptHeader(a, s[i])]]
<1>1. ProcessNewBlockHeaders(s) = I[DOMAIN s]
  BY DEF ProcessNewBlockHeaders, FoldLeft, MapThenFoldSet
<1>2. n \in Nat /\ n # 0 /\ DOMAIN s = 1 .. n /\ \A i \in 1 .. n : s[i] \in Block
  BY Elements
<1>3. \A i \in 1 .. n : s[i] \in Block \ {Genesis}  BY <1>2, Elements
<1>b. r \in A /\ HeadersIn(r) /\ r.index = index
  <2>1. /\ index \in SUBSET Block /\ pprev \in [Block -> Block \cup {None}]
        /\ cwork \in [Block -> Nat]
    BY DEF TypeInv, TypeOK
  <2>2. r \in A  BY <2>1 DEF HeaderStates
  <2> QED  BY <2>2 DEF HeadersIn
<1>c. ASSUME NEW i \in 1 .. n, NEW a \in A PROVE AcceptHeader(a, s[i]) \in A
  BY <1>3, AcceptTyped
<1>l. \A i \in 2 .. n : Prev[s[i]] = s[i - 1]  BY DEF Linked
<1>m. Last(s) = s[n]  BY DEF Last
<1> HIDE DEF n, A, r
<1>4. F \in [1 .. n -> [A -> A]]  BY <1>c
<1>5. \A i \in 1 .. n : \A a \in A : F[i][a] = AcceptHeader(a, s[i])  OBVIOUS
<1> HIDE DEF F, Fold, I
<1>6. PICK g \in [SUBSET (1 .. n) -> A] : IsLeftFold(g, n, r, F)
  BY <1>2, <1>b, <1>4, FoldsLeft
<1>7. ASSUME NEW x \in SUBSET (1 .. n), x # {}
      PROVE  Max(x) \in 1 .. n /\ x \ {Max(x)} \in SUBSET (1 .. n)
  BY <1>2, <1>7, MaxIn
<1>8. Fold(g)
  <2>1. \A x \in SUBSET (1 .. n) : x # {} =>
          g[x] = AcceptHeader(g[x \ {Max(x)}], s[Max(x)])
    BY <1>5, <1>6, <1>7 DEF IsLeftFold
  <2>2. g[{}] = r  BY <1>6 DEF IsLeftFold
  <2> QED  BY <1>2, <1>6, <2>1, <2>2 DEF Fold
<1>9. Fold(I)  BY <1>8 DEF I
<1>10. I[{}] = r /\ \A x \in SUBSET (1 .. n) : x # {} =>
         I[x] = AcceptHeader(I[x \ {Max(x)}], s[Max(x)])
  BY <1>2, <1>9 DEF Fold
<1> DEFINE Done(k) == HeadersIn(I[1 .. k]) /\ (k # 0 /\ I[1 .. k].ok => s[k] \in I[1 .. k].index)
           P == {k \in 0 .. n : Done(k)}
<1>11. 0 \in P
  <2>1. 1 .. 0 = {} /\ 0 \in 0 .. n  BY <1>2
  <2> QED  BY <1>b, <1>10, <2>1
<1>12. ASSUME NEW k \in 1 .. n, k - 1 \in P PROVE k \in P
  <2>1. /\ 1 .. k \in SUBSET (1 .. n) /\ 1 .. k # {}
        /\ Max(1 .. k) = k /\ (1 .. k) \ {k} = 1 .. (k - 1)
    BY <1>2, Prefix
  <2> DEFINE a == I[1 .. (k - 1)]
             b == s[k]
  <2>2. I[1 .. k] = AcceptHeader(a, b)  BY <1>10, <2>1
  <2>3. HeadersIn(a) /\ (k - 1 # 0 /\ a.ok => s[k - 1] \in a.index)  BY <1>12
  <2>4. b \in Block \ {Genesis} /\ k \in 0 .. n  BY <1>2, <1>3
  <2>5. a.ok => Prev[b] \in a.index
    <3>1. CASE k = 1  BY <2>3, <3>1 DEF HeadersIn
    <3>2. CASE k # 1
      <4>1. k \in 2 .. n /\ k - 1 # 0  BY <1>2, <3>2
      <4> QED  BY <1>l, <2>3, <4>1
    <3> QED  BY <3>1, <3>2
  <2> HIDE DEF a, b
  <2>6. HeadersIn(AcceptHeader(a, b)) /\ (AcceptHeader(a, b).ok => b \in AcceptHeader(a, b).index)
    BY <2>3, <2>4, <2>5, AcceptKeeps
  <2>7. Done(k)  BY <2>2, <2>6 DEF b
  <2> QED  BY <2>4, <2>7
<1> HIDE DEF P
<1>13. \A k \in 0 .. n : k \in P  BY <1>2, <1>11, <1>12, UpTo
<1>14. n \in P /\ n \in 0 .. n  BY <1>2, <1>13
<1>15. Done(n)  BY <1>14 DEF P
<1> QED  BY <1>1, <1>2, <1>15, <1>m

-----------------------------------------------------------------------------
(* The invariant.  A restart after a torn commit links the blocks it loads *)
(* by their heights, whatever their predecessors are; these blocks have    *)
(* their data flag, and the others are linked to their predecessors, so    *)
(* that the blocks of a branch without data are ancestors of its end.      *)

Flagged(b) == status[b] \cap {"data", "undo"} # {}
LinksOK ==
  \E S \in SUBSET index :
    /\ Genesis \in S
    /\ \A b \in S : Flagged(b) /\ (b # Genesis => pprev[b] \in S)
    /\ \A b \in index \ S : pprev[b] = Prev[b]
NodesOK ==
  /\ node = [p \in Peer |-> node[p]]
  /\ \A p \in Peer : node[p] \in Nodes(index, ptip[p], {node[p].getblocks})
InboxOK ==
  /\ inbox = [p \in Peer |-> inbox[p]]
  /\ \A p \in Peer : inbox[p] \in Seq(Messages(ptip[p]))
SyncInv ==
  /\ TypeInv /\ LinksOK /\ bestHeader \in index \cup {None} /\ scanning \in BOOLEAN
  /\ ptip \in [Peer -> Block] /\ psent \in [Peer -> Block \cup {None}]
  /\ NodesOK /\ InboxOK

(* It says what the two properties say.                                    *)
LEMMA InvImplies == SyncInv => SyncTypeOK /\ KnownHeld
<1> SUFFICES ASSUME SyncInv PROVE SyncTypeOK /\ KnownHeld  OBVIOUS
<1>1. ASSUME NEW p \in Peer
      PROVE  /\ {node[p].known, node[p].lastHeader, node[p].lastBlock} \subseteq index \cup {None}
             /\ node[p].unknown \in Block \cup {None} /\ node[p].ask \subseteq Block
             /\ {node[p].known, node[p].lastBlock} \subseteq ChainOf[ptip[p]] \cup {None}
  <2>1. ptip[p] \in Block  BY DEF SyncInv
  <2>2. ChainOf[ptip[p]] \subseteq Block  BY <2>1, ChainIs
  <2>3. node[p] \in Nodes(index, ptip[p], {node[p].getblocks})  BY DEF SyncInv, NodesOK
  <2> DEFINE n == node[p]
             t == ptip[p]
  <2> HIDE DEF n, t
  <2>4. n \in Nodes(index, t, {n.getblocks})  BY <2>3 DEF n, t
  <2>5. /\ {n.known, n.lastHeader, n.lastBlock} \subseteq index \cup {None}
        /\ n.unknown \in ChainOf[t] \cup {None} /\ n.ask \subseteq ChainOf[t]
        /\ {n.known, n.lastBlock} \subseteq ChainOf[t] \cup {None}
    BY <2>4 DEF Nodes
  <2> QED  BY <2>2, <2>5 DEF n, t
<1> QED  BY <1>1 DEF SyncTypeOK, KnownHeld, SyncInv

(* The node and the stream of one peer change.                             *)
LEMMA OneNode ==
  ASSUME SyncInv, index \subseteq index', NEW p \in Peer, NEW n,
         node' = [node EXCEPT ![p] = n], ptip' \in [Peer -> Block],
         n \in Nodes(index', ptip'[p], {n.getblocks}),
         \A q \in Peer \ {p} : ptip'[q] = ptip[q]
  PROVE  NodesOK'
<1>1. node = [q \in Peer |-> node[q]]  BY DEF SyncInv, NodesOK
<1>2. /\ node' = [q \in Peer |-> node'[q]] /\ node'[p] = n
      /\ \A q \in Peer \ {p} : node'[q] = node[q]
  BY <1>1
<1>3. ASSUME NEW q \in Peer \ {p} PROVE node'[q] \in Nodes(index', ptip'[q], {node'[q].getblocks})
  <2>1. node[q] \in Nodes(index, ptip[q], {node[q].getblocks})  BY DEF SyncInv, NodesOK
  <2>2. node'[q] = node[q] /\ ptip'[q] = ptip[q]  BY <1>2
  <2> DEFINE m == node[q]
             t == ptip[q]
  <2> HIDE DEF m, t
  <2>3. m \in Nodes(index, t, {m.getblocks})  BY <2>1 DEF m, t
  <2>4. m \in Nodes(index', t, {m.getblocks})  BY <2>3, NodesGrow
  <2> QED  BY <2>2, <2>4 DEF m, t
<1> QED  BY <1>2, <1>3 DEF NodesOK

LEMMA OneInbox ==
  ASSUME SyncInv, NEW p \in Peer, NEW m, inbox' = [inbox EXCEPT ![p] = m],
         ptip' \in [Peer -> Block], m \in Seq(Messages(ptip'[p])),
         \A q \in Peer \ {p} : ptip'[q] = ptip[q]
  PROVE  InboxOK'
<1>1. inbox = [q \in Peer |-> inbox[q]]  BY DEF SyncInv, InboxOK
<1>2. /\ inbox' = [q \in Peer |-> inbox'[q]] /\ inbox'[p] = m
      /\ \A q \in Peer \ {p} : inbox'[q] = inbox[q]
  BY <1>1
<1>3. \A q \in Peer \ {p} : inbox'[q] \in Seq(Messages(ptip'[q]))
  BY <1>2 DEF SyncInv, InboxOK
<1> QED  BY <1>2, <1>3 DEF InboxOK

(* The nodes stay while the index grows.                                   *)
LEMMA SameNodes ==
  ASSUME SyncInv, index \subseteq index', UNCHANGED <<node, ptip>>
  PROVE  NodesOK'
<1>1. ASSUME NEW q \in Peer PROVE node'[q] \in Nodes(index', ptip'[q], {node'[q].getblocks})
  <2>1. node[q] \in Nodes(index, ptip[q], {node[q].getblocks})  BY DEF SyncInv, NodesOK
  <2> DEFINE m == node[q]
             t == ptip[q]
  <2>0. node'[q] = m /\ ptip'[q] = t  OBVIOUS
  <2> HIDE DEF m, t
  <2>3. m \in Nodes(index, t, {m.getblocks})  BY <2>1 DEF m, t
  <2>4. m \in Nodes(index', t, {m.getblocks})  BY <2>3, NodesGrow
  <2> QED  BY <2>0, <2>4
<1>2. node' = [q \in Peer |-> node'[q]]  BY DEF SyncInv, NodesOK
<1> QED  BY <1>1, <1>2 DEF NodesOK

LEMMA SameInbox ==
  ASSUME SyncInv, UNCHANGED <<inbox, ptip>>
  PROVE  InboxOK'
  BY DEF SyncInv, InboxOK

(* A message is taken from the stream and answered.                        *)
LEMMA MessageRead ==
  ASSUME SyncInv, NEW p \in Peer, NEW kind, Received(p, kind)
  PROVE  /\ ptip[p] \in Block
         /\ Head(inbox[p]) \in Messages(ptip[p]) /\ Head(inbox[p]).kind = kind
         /\ Tail(inbox[p]) \in Seq(Messages(ptip[p]))
<1>1. inbox[p] \in Seq(Messages(ptip[p])) /\ ptip[p] \in Block  BY DEF SyncInv, InboxOK
<1>2. inbox[p] # <<>> /\ Head(inbox[p]).kind = kind  BY DEF Received
<1>3. ASSUME NEW S, NEW s \in Seq(S), s # <<>> PROVE Head(s) \in S /\ Tail(s) \in Seq(S)
  BY <1>3
<1>4. Head(inbox[p]) \in Messages(ptip[p]) /\ Tail(inbox[p]) \in Seq(Messages(ptip[p]))
  BY <1>1, <1>2, <1>3
<1> QED  BY <1>1, <1>2, <1>4

LEMMA AnswerTyped ==
  ASSUME SyncInv, NEW p \in Peer, NEW kind, Received(p, kind), UNCHANGED ptip,
         NEW out \in Seq(Messages(ptip[p])), Answered(p, out)
  PROVE  InboxOK'
<1> DEFINE m == Tail(inbox[p]) \o out
<1>1. m \in Seq(Messages(ptip[p]))  BY MessageRead
<1>2. inbox' = [inbox EXCEPT ![p] = m]  BY DEF Answered
<1> HIDE DEF m
<1> QED  BY <1>1, <1>2, OneInbox DEF SyncInv

(* The links stay right while the index grows and no block loses both its  *)
(* flags.                                                                  *)
LEMMA LinksKept ==
  ASSUME TypeInv, LinksOK, index \subseteq index',
         \A b \in index : pprev'[b] = pprev[b],
         \A b \in index' \ index : pprev'[b] = Prev[b],
         \A b \in index : Flagged(b) => Flagged(b)'
  PROVE  LinksOK'
<1>1. PICK S \in SUBSET index :
        /\ Genesis \in S
        /\ \A b \in S : Flagged(b) /\ (b # Genesis => pprev[b] \in S)
        /\ \A b \in index \ S : pprev[b] = Prev[b]
  BY DEF LinksOK
<1>2. /\ S \in SUBSET index' /\ Genesis \in S
      /\ \A b \in S : Flagged(b)' /\ (b # Genesis => pprev'[b] \in S)
      /\ \A b \in index' \ S : pprev'[b] = Prev[b]
  BY <1>1
<1> QED  BY <1>2 DEF LinksOK

(* The chain does not change.                                              *)
LEMMA ChainStays ==
  ASSUME TypeInv, LinksOK, UNCHANGED vars
  PROVE  TypeInv' /\ LinksOK' /\ index' = index
<1>1. UNCHANGED <<index, pprev, status>>  BY DEF vars, memory
<1>2. \A b \in index : Flagged(b) => Flagged(b)'  BY <1>1 DEF Flagged
<1>3. LinksOK'  BY <1>1, <1>2, LinksKept
<1> QED  BY <1>1, <1>3, TypeStutter

-----------------------------------------------------------------------------
(* Every step keeps the invariant.                                         *)

(* The first states.                                                       *)
LEMMA HandshakeTyped ==
  ASSUME NEW p \in Peer, ptip[p] \in Block
  PROVE  Handshake(p) \in Seq(Messages(ptip[p]))
<1> DEFINE t == ptip[p]
           s == <<t>>
<1>1. t \in ChainOf[t]  BY ChainIs, Chains
<1>2. s \in Seq(ChainOf[t]) /\ s # <<>>  BY <1>1, ShortLists
<1>3. Handshake(p) = <<Message("version", s)>>  BY DEF Handshake
<1> HIDE DEF t, s
<1>4. Message("version", s) \in Messages(t)  BY <1>2 DEF Message, Messages, Kinds
<1>5. <<Message("version", s)>> \in Seq(Messages(t))  BY <1>4, ShortLists
<1> QED  BY <1>3, <1>5 DEF t

LEMMA SyncStarts == SyncInit => SyncInv
<1> SUFFICES ASSUME SyncInit PROVE SyncInv  OBVIOUS
<1>1. TypeInv  BY TypeInit DEF SyncInit
<1>2. ptip \in [Peer -> Block]  BY SyncAssumption DEF SyncInit
<1>3. LinksOK
  <2>1. index = {Genesis} /\ Flagged(Genesis)  BY Tree DEF SyncInit, Init, Flagged
  <2> QED  BY <2>1 DEF LinksOK
<1>4. NodesOK
  <2>1. node = [p \in Peer |-> NewNode]  BY DEF SyncInit
  <2>2. \A p \in Peer : NewNode \in Nodes(index, ptip[p], {NewNode.getblocks})  BY NewNodeTyped
  <2> HIDE DEF NewNode
  <2> QED  BY <2>1, <2>2 DEF NodesOK
<1>5. InboxOK  BY <1>2, HandshakeTyped DEF SyncInit, InboxOK
<1> QED  BY <1>1, <1>2, <1>3, <1>4, <1>5 DEF SyncInit, SyncInv

(* A version message, and the preference for headers.                      *)
LEMMA VersionKeeps ==
  ASSUME SyncInv, NEW p \in Peer, HandleVersion(p) \/ HandleSendHeaders(p)
  PROVE  SyncInv'
<1> DEFINE n == node[p]
           t == ptip[p]
           a == [n EXCEPT !.version = TRUE]
           b == [n EXCEPT !.prefer = TRUE]
           out == <<Message("sendheaders", <<>>)>>
<1>1. UNCHANGED <<vars, bestHeader, ptip, psent>>
  BY DEF HandleVersion, HandleSendHeaders
<1>2. TypeInv' /\ LinksOK' /\ index' = index  BY <1>1, ChainStays DEF SyncInv
<1>3. scanning' \in BOOLEAN
  <2>1. scanning' = (scanning \/ Height[Head(inbox[p]).blocks[1]] > 0) => scanning' \in BOOLEAN
    OBVIOUS
  <2> QED  BY <2>1 DEF HandleVersion, HandleSendHeaders, SyncInv
<1>4. n \in Nodes(index, t, {n.getblocks}) /\ t \in Block  BY DEF SyncInv, NodesOK
<1>5. node' = [node EXCEPT ![p] = a] \/ node' = [node EXCEPT ![p] = b]
  BY DEF HandleVersion, HandleSendHeaders
<1>6. <<>> \in Seq(Messages(t)) /\ out \in Seq(Messages(t))
  <2>1. Message("sendheaders", <<>>) \in Messages(t)
    <3>1. <<>> \in Seq(ChainOf[t])  BY ShortLists
    <3>2. Genesis \notin ToSet(<<>>)  BY DEF ToSet
    <3> HIDE DEF t
    <3> QED  BY <3>1, <3>2 DEF Message, Messages, Kinds
  <2> QED  BY <2>1, ShortLists
<1>7. InboxOK'
  <2>1. CASE HandleVersion(p)
    <3>1. Received(p, "version") /\ Answered(p, out)  BY <2>1 DEF HandleVersion
    <3> HIDE DEF out
    <3> QED  BY <1>1, <1>6, <3>1, AnswerTyped
  <2>2. CASE HandleSendHeaders(p)
    <3>1. Received(p, "sendheaders") /\ Answered(p, <<>>)  BY <2>2 DEF HandleSendHeaders
    <3> QED  BY <1>1, <1>6, <3>1, AnswerTyped
  <2> QED  BY <2>1, <2>2
<1> HIDE DEF n
<1>8. a \in Nodes(index, t, {a.getblocks}) /\ b \in Nodes(index, t, {b.getblocks})
  BY <1>4 DEF Nodes
<1> HIDE DEF a, b
<1>9. NodesOK'
  <2>1. ptip' \in [Peer -> Block] /\ ptip'[p] = t /\ \A q \in Peer \ {p} : ptip'[q] = ptip[q]
    BY <1>1 DEF SyncInv
  <2>2. a \in Nodes(index', ptip'[p], {a.getblocks}) /\ b \in Nodes(index', ptip'[p], {b.getblocks})
    BY <1>2, <1>8, <2>1
  <2> QED  BY <1>2, <1>5, <2>1, <2>2, OneNode
<1> QED  BY <1>1, <1>2, <1>3, <1>7, <1>9 DEF SyncInv

(* An inv.                                                                 *)
LEMMA InvKeeps ==
  ASSUME SyncInv, NEW p \in Peer, HandleInv(p)
  PROVE  SyncInv'
<1> DEFINE t == ptip[p]
           s == Head(inbox[p]).blocks
           r == InvAll(p, s)
           base == [n |-> node[p], out |-> <<>>]
<1>1. /\ Received(p, "inv") /\ node' = [node EXCEPT ![p] = r.n]
      /\ Answered(p, r.out) /\ SentHeaders(p, r.out)
      /\ UNCHANGED <<vars, bestHeader, scanning, ptip>>
  BY DEF HandleInv
<1>2. TypeInv' /\ LinksOK' /\ index' = index  BY <1>1, ChainStays DEF SyncInv
<1>3. t \in Block /\ Head(inbox[p]) \in Messages(t) /\ Head(inbox[p]).kind = "inv"
  BY <1>1, MessageRead
<1>4. s \in Seq(ChainOf[t]) /\ Genesis \notin ToSet(s)
  <2> DEFINE m == Head(inbox[p])
  <2> HIDE DEF m
  <2>1. m \in Messages(t) /\ m.kind = "inv"  BY <1>3 DEF m
  <2>2. m.blocks \in Seq(ChainOf[t]) /\ Genesis \notin ToSet(m.blocks)  BY <2>1 DEF Messages
  <2> QED  BY <2>2 DEF m
<1>5. base \in InvStates(p)
  <2>1. node[p] \in Nodes(index, t, {node[p].getblocks})  BY DEF SyncInv, NodesOK
  <2>2. node[p].getblocks \in Asks(p)  BY DEF Asks
  <2> DEFINE n == node[p]
  <2>3. n \in Nodes(index, t, Asks(p))  BY <2>1, <2>2, NodesGrow
  <2>4. <<>> \in Seq(Messages(t))  BY ShortLists
  <2> HIDE DEF n
  <2>5. [n |-> n, out |-> <<>>] \in InvStates(p)  BY <2>3, <2>4 DEF InvStates
  <2> QED  BY <2>5 DEF n
<1>6. r \in InvStates(p)  BY <1>3, <1>4, <1>5, InvTyped DEF SyncInv
<1> HIDE DEF r
<1>7. r.n \in Nodes(index, t, Asks(p)) /\ r.out \in Seq(Messages(t))  BY <1>6 DEF InvStates
<1>8. InboxOK'  BY <1>1, <1>7, AnswerTyped
<1>9. psent' \in [Peer -> Block \cup {None}]  BY <1>1, <1>3, <1>7, SentTyped DEF SyncInv
<1>10. NodesOK'
  <2> DEFINE n == r.n
  <2>1. ptip' \in [Peer -> Block] /\ ptip'[p] = t /\ \A q \in Peer \ {p} : ptip'[q] = ptip[q]
    BY <1>1 DEF SyncInv
  <2>2. n \in Nodes(index, t, Asks(p)) /\ node' = [node EXCEPT ![p] = n]  BY <1>1, <1>7
  <2> HIDE DEF n
  <2>3. n \in Nodes(index, t, {n.getblocks})  BY <2>2, NodesGrow
  <2>4. n \in Nodes(index', ptip'[p], {n.getblocks})  BY <1>2, <2>1, <2>3
  <2> QED  BY <1>2, <2>1, <2>2, <2>4, OneNode
<1> QED  BY <1>1, <1>2, <1>8, <1>9, <1>10 DEF SyncInv

(* What is left to show when the chain stays as it is and one peer has     *)
(* answered.                                                               *)
LEMMA PeerStep ==
  ASSUME SyncInv, NEW p \in Peer, NEW kind, Received(p, kind), UNCHANGED ptip,
         TypeInv', LinksOK', index \subseteq index',
         bestHeader' \in index' \cup {None}, scanning' \in BOOLEAN,
         NEW n, node' = [node EXCEPT ![p] = n], n \in Nodes(index', ptip[p], {n.getblocks}),
         NEW out \in Seq(Messages(ptip[p])), Answered(p, out),
         SentHeaders(p, out) \/ UNCHANGED psent
  PROVE  SyncInv'
<1>1. InboxOK'  BY AnswerTyped
<1>2. ptip[p] \in Block /\ psent \in [Peer -> Block \cup {None}]  BY DEF SyncInv
<1>3. psent' \in [Peer -> Block \cup {None}]  BY <1>2, SentTyped
<1>4. ptip' \in [Peer -> Block] /\ ptip'[p] = ptip[p] /\ \A q \in Peer \ {p} : ptip'[q] = ptip[q]
  BY DEF SyncInv
<1>5. n \in Nodes(index', ptip'[p], {n.getblocks})  BY <1>4
<1>6. NodesOK'  BY <1>4, <1>5, OneNode
<1> QED  BY <1>1, <1>3, <1>4, <1>6 DEF SyncInv

(* The node of a peer, when its node does not change.                      *)
LEMMA OwnNode ==
  ASSUME SyncInv, NEW p \in Peer
  PROVE  /\ node[p] \in Nodes(index, ptip[p], {node[p].getblocks})
         /\ node = [node EXCEPT ![p] = node[p]]
         /\ ptip[p] \in Block
<1>1. node = [q \in Peer |-> node[q]]  BY DEF SyncInv, NodesOK
<1>2. node = [node EXCEPT ![p] = node[p]]  BY <1>1
<1> QED  BY <1>2 DEF SyncInv, NodesOK

(* UpdateBlockAvailability for the node of a peer.                         *)
LEMMA OwnUpdate ==
  ASSUME SyncInv, NEW p \in Peer, NEW idx \in SUBSET Block, index \subseteq idx, NEW work,
         NEW b \in ChainOf[ptip[p]], NEW n, n = UpdateBlockAvailability(node[p], b, idx, work)
  PROVE  n \in Nodes(idx, ptip[p], {n.getblocks})
<1>1. node[p] \in Nodes(index, ptip[p], {node[p].getblocks})  BY OwnNode
<1> DEFINE m == node[p]
           g == {m.getblocks}
<1>2. m \in Nodes(index, ptip[p], g) /\ m.getblocks \in g  BY <1>1
<1> HIDE DEF m, g
<1>3. m \in Nodes(idx, ptip[p], g)  BY <1>2, NodesGrow
<1>4. n \in Nodes(idx, ptip[p], g)  BY <1>3, UpdateTyped DEF m
<1> QED  BY <1>4, NodesGrow

(* The blocks of a headers message.                                        *)
LEMMA HeadersRead ==
  ASSUME SyncInv, NEW p \in Peer, Received(p, "headers")
  PROVE  LET s == Head(inbox[p]).blocks IN
         /\ s \in Seq(ChainOf[ptip[p]]) /\ s \in Seq(Block) /\ s # <<>>
         /\ Genesis \notin ToSet(s) /\ Linked(s)
         /\ Last(s) \in ChainOf[ptip[p]] /\ Last(s) \in Block
<1> DEFINE m == Head(inbox[p])
           t == ptip[p]
           s == m.blocks
<1>1. t \in Block /\ m \in Messages(t) /\ m.kind = "headers"  BY MessageRead
<1> HIDE DEF m, t
<1>2. s \in Seq(ChainOf[t]) /\ s # <<>> /\ Genesis \notin ToSet(s) /\ Linked(s)
  BY <1>1 DEF Messages
<1> HIDE DEF s
<1>3. Last(s) \in ChainOf[t]  BY <1>2 DEF Last
<1>4. ChainOf[t] \subseteq Block  BY <1>1, ChainIs
<1>5. s \in Seq(Block)
  <2>1. Seq(ChainOf[t]) \subseteq Seq(Block)  BY <1>4
  <2> QED  BY <1>2, <2>1
<1> QED  BY <1>2, <1>3, <1>4, <1>5 DEF s, m, t

(* The index with the headers is one.                                      *)
LEMMA HeadersIndexed ==
  ASSUME SyncInv, NEW r, HeadersIn(r), index' = r.index, pprev' = r.pprev, cwork' = r.cwork,
         UNCHANGED <<pnext, status, best, bestWork, orphan, scan, job, disk, crashes, torn>>
  PROVE  TypeInv' /\ LinksOK' /\ index \subseteq index' /\ r.index \in SUBSET Block
<1>1. TypeInv /\ LinksOK /\ TypeOK /\ IndexOK /\ DbOK /\ JobOK  BY DEF SyncInv, TypeInv
<1>2. /\ index' \in SUBSET Block /\ pprev' \in [Block -> Block \cup {None}]
      /\ cwork' \in [Block -> Nat]
  BY DEF HeadersIn, HeaderStates
<1>3. index \subseteq index' /\ \A b \in index : pprev'[b] = pprev[b]  BY DEF HeadersIn
<1>4. \A b \in index' \ index : pprev'[b] = Prev[b] /\ Prev[b] \in index' /\ b # Genesis
  BY DEF HeadersIn
<1>5. IndexOK'
  <2>1. Genesis \in index' /\ pprev'[Genesis] = None  BY <1>1, <1>3 DEF IndexOK
  <2>2. \A b \in index : b # Genesis =>
          pprev'[b] \in index' /\ Height[pprev'[b]] < Height[b]
    BY <1>1, <1>3 DEF IndexOK
  <2>3. ASSUME NEW b \in index' \ index PROVE pprev'[b] \in index' /\ Height[pprev'[b]] < Height[b]
    <3>1. b \in Block /\ b # Genesis /\ pprev'[b] = Prev[b] /\ Prev[b] \in index'
      BY <1>2, <1>4
    <3>2. Height[b] = Height[Prev[b]] + 1 /\ Height[Prev[b]] \in Nat  BY <3>1, Tree
    <3> QED  BY <3>1, <3>2
  <2>4. \A b \in index' : b # Genesis => pprev'[b] \in index' /\ Height[pprev'[b]] < Height[b]
    BY <2>2, <2>3
  <2> QED  BY <2>1, <2>4 DEF IndexOK
<1>6. JobOK'  BY <1>1, <1>3, SameJob
<1>7. TypeOK'  BY <1>1, <1>2, <1>3 DEF TypeOK, disk
<1>8. DbOK'  BY <1>1 DEF DbOK, disk
<1>9. \A b \in index : Flagged(b) => Flagged(b)'  BY DEF Flagged
<1>10. LinksOK'  BY <1>1, <1>3, <1>4, <1>9, LinksKept
<1> QED  BY <1>2, <1>3, <1>5, <1>6, <1>7, <1>8, <1>10 DEF TypeInv

(* A headers message.                                                      *)
LEMMA HeadersKeep ==
  ASSUME SyncInv, NEW p \in Peer, HandleHeaders(p)
  PROVE  SyncInv'
<1> DEFINE s == Head(inbox[p]).blocks
           Known(idx, work) == UpdateBlockAvailability(node[p], Last(s), idx, work)
           Ask(out) == Answered(p, out) /\ SentHeaders(p, out)
           r == ProcessNewBlockHeaders(s)
           more == IF Len(s) = MaxHeaders THEN GetHeaders(p, Last(s), None) ELSE <<>>
<1>1. Received(p, "headers") /\ UNCHANGED ptip  BY DEF HandleHeaders
<1>2. /\ s \in Seq(Block) /\ s # <<>> /\ Genesis \notin ToSet(s) /\ Linked(s)
      /\ Last(s) \in ChainOf[ptip[p]] /\ Last(s) \in Block
  BY <1>1, HeadersRead
<1>3. /\ node[p] \in Nodes(index, ptip[p], {node[p].getblocks})
      /\ node = [node EXCEPT ![p] = node[p]] /\ ptip[p] \in Block
  BY OwnNode
<1>4. <<>> \in Seq(Messages(ptip[p])) /\ index \in SUBSET Block
  BY ShortLists DEF SyncInv, TypeInv, TypeOK
<1>5. CASE Prev[s[1]] \notin index
  <2>1. /\ \/ node' = [node EXCEPT ![p] = Known(index, cwork)]
              /\ Ask(GetHeaders(p, LocatorTip, None))
           \/ Ask(<<>>) /\ node' = node
        /\ UNCHANGED <<vars, bestHeader, scanning>>
    BY <1>5 DEF HandleHeaders
  <2>2. TypeInv' /\ LinksOK' /\ index' = index  BY <2>1, ChainStays DEF SyncInv
  <2>3. bestHeader' \in index' \cup {None} /\ scanning' \in BOOLEAN /\ index \subseteq index'
    BY <2>1, <2>2 DEF SyncInv
  <2> DEFINE n == Known(index, cwork)
             g == GetHeaders(p, LocatorTip, None)
  <2>4. n \in Nodes(index, ptip[p], {n.getblocks})
    BY <1>2, <1>4, OwnUpdate
  <2>5. g \in Seq(Messages(ptip[p]))
    BY <1>3, LocatorTyped, HeadersTyped DEF SyncInv
  <2> HIDE DEF n, g, s
  <2>6. CASE node' = [node EXCEPT ![p] = n] /\ Ask(g)
    BY <1>1, <2>2, <2>3, <2>4, <2>5, <2>6, PeerStep
  <2>7. CASE Ask(<<>>) /\ node' = node
    <3> DEFINE m == node[p]
    <3>1. node' = [node EXCEPT ![p] = m] /\ m \in Nodes(index', ptip[p], {m.getblocks})
      BY <1>3, <2>2, <2>7
    <3> HIDE DEF m
    <3> QED  BY <1>1, <1>4, <2>2, <2>3, <2>7, <3>1, PeerStep
  <2> QED  BY <2>1, <2>6, <2>7 DEF n, g
<1>6. CASE Prev[s[1]] \in index
  <2>1. /\ index' = r.index /\ pprev' = r.pprev /\ cwork' = r.cwork /\ bestHeader' = r.top
        /\ \/ r.ok /\ node' = [node EXCEPT ![p] = Known(r.index, r.cwork)]
              /\ scanning' = TRUE /\ Ask(more)
           \/ Ask(<<>>) /\ node' = node /\ scanning' = scanning
        /\ UNCHANGED <<pnext, status, best, bestWork, orphan, scan, job, disk, crashes, torn>>
    BY <1>6 DEF HandleHeaders
  <2>2. HeadersIn(r)
    BY <1>2, <1>6, HeadersAccepted DEF SyncInv
  <2> DEFINE n == Known(r.index, r.cwork)
  <2>3. more \in Seq(Messages(ptip[p]))  BY <1>2, <1>3, <1>4, HeadersTyped
  <2> HIDE DEF r, more
  <2>4. TypeInv' /\ LinksOK' /\ index \subseteq index' /\ r.index \in SUBSET Block
    BY <2>1, <2>2, HeadersIndexed
  <2>5. bestHeader' \in index' \cup {None}  BY <2>1, <2>2 DEF HeadersIn
  <2>6. n \in Nodes(r.index, ptip[p], {n.getblocks})
    <3>1. index \subseteq r.index  BY <2>2 DEF HeadersIn
    <3> QED  BY <1>2, <2>4, <3>1, OwnUpdate
  <2> HIDE DEF n, s
  <2>7. CASE node' = [node EXCEPT ![p] = n] /\ scanning' = TRUE /\ Ask(more)
    BY <1>1, <2>1, <2>3, <2>4, <2>5, <2>6, <2>7, PeerStep
  <2>8. CASE Ask(<<>>) /\ node' = node /\ scanning' = scanning
    <3> DEFINE m == node[p]
    <3>1. node' = [node EXCEPT ![p] = m] /\ m \in Nodes(index, ptip[p], {m.getblocks})
      BY <1>3, <2>8
    <3> HIDE DEF m
    <3>2. m \in Nodes(index', ptip[p], {m.getblocks})  BY <2>4, <3>1, NodesGrow
    <3>3. scanning' \in BOOLEAN  BY <2>8 DEF SyncInv
    <3> QED  BY <1>1, <1>4, <2>4, <2>5, <2>8, <3>1, <3>2, <3>3, PeerStep
  <2> QED  BY <2>1, <2>7, <2>8 DEF n
<1> QED  BY <1>5, <1>6

(* The index with a block that arrives.                                    *)
LEMMA BlockIndexed ==
  ASSUME SyncInv, NEW b \in Block \ {Genesis},
         AcceptInvalid(b) \/ AcceptSide(b) \/ AcceptBest(b)
  PROVE  /\ TypeInv' /\ LinksOK' /\ index \subseteq index' /\ b \in index'
         /\ HeaderWith(b) \in index' \cup {None} /\ best \in index'
<1>1. TypeInv /\ LinksOK /\ index \in SUBSET Block /\ best \in index
      /\ pprev \in [Block -> Block \cup {None}]
      /\ status \in [Block -> SUBSET {"data", "undo", "failed"}]
  BY DEF SyncInv, TypeInv, TypeOK
<1>2. TypeInv'  BY <1>1, TypeAccept
<1>3. CreateBlockIndex(b)  BY DEF AcceptInvalid, AcceptSide, AcceptBest, Accepting
<1>4. /\ index' = index \cup {b}
      /\ pprev' = IF b \in index THEN pprev ELSE [pprev EXCEPT ![b] = Prev[b]]
  BY <1>3 DEF CreateBlockIndex
<1>5. /\ \A c \in index : pprev'[c] = pprev[c]
      /\ \A c \in index' \ index : pprev'[c] = Prev[c]
  BY <1>1, <1>4
<1>6. \E S : status' = [status EXCEPT ![b] = @ \cup S]
  <2>1. ASSUME NEW A, NEW B, NEW C, A = (B \cup {"data"}) \cup C PROVE A = B \cup ({"data"} \cup C)
    BY <2>1
  <2>2. AcceptBest(b) => \E S : status' = [status EXCEPT ![b] = @ \cup S]
    <3> SUFFICES ASSUME AcceptBest(b) PROVE \E S : status' = [status EXCEPT ![b] = @ \cup S]
      OBVIOUS
    <3>1. \E C : status' = [status EXCEPT ![b] = (@ \cup {"data"}) \cup C]
      BY DEF AcceptBest, CommitBlock
    <3>2. PICK C : status' = [status EXCEPT ![b] = (@ \cup {"data"}) \cup C]  BY <3>1
    <3>3. (status[b] \cup {"data"}) \cup C = status[b] \cup ({"data"} \cup C)  OBVIOUS
    <3> QED  BY <3>2, <3>3
  <2>3. AcceptInvalid(b) \/ AcceptSide(b) => \E S : status' = [status EXCEPT ![b] = @ \cup S]
    BY DEF AcceptInvalid, AcceptSide
  <2> QED  BY <2>2, <2>3
<1>7. \A c \in index : Flagged(c) => Flagged(c)'
  <2>1. \A c \in Block : status[c] \subseteq status'[c]  BY <1>1, <1>6
  <2> QED  BY <1>1, <2>1 DEF Flagged
<1>8. index \subseteq index' /\ b \in index'  BY <1>4
<1>9. LinksOK'  BY <1>1, <1>5, <1>7, <1>8, LinksKept
<1>10. HeaderWith(b) \in {bestHeader, b}  BY DEF HeaderWith, BestHeader
<1> QED  BY <1>1, <1>2, <1>8, <1>9, <1>10 DEF SyncInv

(* The block of a block message.                                           *)
LEMMA BlockRead ==
  ASSUME SyncInv, NEW p \in Peer, Received(p, "block")
  PROVE  Head(inbox[p]).blocks[1] \in Block \ {Genesis}
<1> DEFINE m == Head(inbox[p])
           t == ptip[p]
           s == m.blocks
<1>1. t \in Block /\ m \in Messages(t) /\ m.kind = "block"  BY MessageRead
<1> HIDE DEF m, t
<1>2. s \in Seq(ChainOf[t]) /\ s # <<>> /\ Genesis \notin ToSet(s)  BY <1>1 DEF Messages
<1> HIDE DEF s
<1>3. 1 \in 1 .. Len(s)  BY <1>2
<1>4. s[1] \in ChainOf[t] /\ s[1] \in ToSet(s)  BY <1>2, <1>3, Elements
<1>5. s[1] \in Block \ {Genesis}  BY <1>1, <1>2, <1>4, ChainIs
<1> QED  BY <1>5 DEF s, m

(* A block message.                                                        *)
LEMMA BlockKeeps ==
  ASSUME SyncInv, NEW p \in Peer, HandleBlock(p)
  PROVE  SyncInv'
<1> DEFINE b == Head(inbox[p]).blocks[1]
           root == OrphanRoot(b, orphan')
           more == PushGetBlocks(p, node[p], best, root)
           m == node[p]
<1>1. Received(p, "block") /\ UNCHANGED <<ptip, psent>>  BY DEF HandleBlock
<1>2. b \in Block \ {Genesis}  BY <1>1, BlockRead
<1>3. m \in Nodes(index, ptip[p], {m.getblocks}) /\ node = [node EXCEPT ![p] = m] /\ ptip[p] \in Block
  BY OwnNode
<1>4. <<>> \in Seq(Messages(ptip[p])) /\ index \in SUBSET Block /\ best \in Block
  BY ShortLists DEF SyncInv, TypeInv, TypeOK
<1>5. TypeInv /\ LinksOK /\ scanning \in BOOLEAN /\ bestHeader \in index \cup {None}
  BY DEF SyncInv
<1>6. ASSUME index \subseteq index' PROVE m \in Nodes(index', ptip[p], {m.getblocks})
  <2> HIDE DEF m
  <2> QED  BY <1>3, <1>6, NodesGrow
<1>7. CASE /\ Refused(b) /\ Answered(p, <<>>)
           /\ UNCHANGED <<vars, bestHeader, scanning, node>>
  <2>1. TypeInv' /\ LinksOK' /\ index' = index  BY <1>5, <1>7, ChainStays
  <2>2. node' = [node EXCEPT ![p] = m] /\ m \in Nodes(index', ptip[p], {m.getblocks})
    BY <1>3, <1>6, <1>7, <2>1
  <2>3. bestHeader' \in index' \cup {None} /\ scanning' \in BOOLEAN  BY <1>5, <1>7, <2>1
  <2> HIDE DEF m
  <2> QED  BY <1>1, <1>4, <1>7, <2>1, <2>2, <2>3, PeerStep
<1>8. CASE /\ AddOrphanBlock(b) /\ node' = [node EXCEPT ![p] = more.n]
           /\ scanning' = (scanning \/ Height[best] > 0)
           /\ Answered(p, more.out) /\ UNCHANGED bestHeader
  <2>1. TypeInv'  BY <1>2, <1>5, <1>8, TypeOrphan
  <2>2. UNCHANGED <<index, pprev, status>>  BY <1>8 DEF AddOrphanBlock
  <2>3. \A c \in index : Flagged(c) => Flagged(c)'  BY <2>2 DEF Flagged
  <2>4. LinksOK' /\ index \subseteq index'  BY <1>5, <2>2, <2>3, LinksKept
  <2> DEFINE G == {m.getblocks, <<best, root>>}
             n == more.n
             out == more.out
  <2>5. n \in Nodes(index, ptip[p], G) /\ out \in Seq(Messages(ptip[p]))
    <3>1. m.getblocks \in G /\ <<best, root>> \in G  OBVIOUS
    <3> HIDE DEF m, G, root
    <3>2. m \in Nodes(index, ptip[p], G)  BY <1>3, <3>1, NodesGrow
    <3> QED  BY <1>3, <1>4, <3>1, <3>2, PushTyped DEF m
  <2>6. node' = [node EXCEPT ![p] = n] /\ Answered(p, out)  BY <1>8
  <2>7. scanning' \in BOOLEAN
    <3>1. scanning' = (scanning \/ Height[best] > 0) => scanning' \in BOOLEAN  OBVIOUS
    <3> QED  BY <1>8, <3>1
  <2>8. bestHeader' \in index' \cup {None}  BY <1>5, <1>8, <2>2
  <2> HIDE DEF n, out, G
  <2>9. n \in Nodes(index', ptip[p], {n.getblocks})  BY <2>4, <2>5, NodesGrow
  <2> QED  BY <1>1, <2>1, <2>4, <2>5, <2>6, <2>7, <2>8, <2>9, PeerStep
<1>9. ASSUME AcceptInvalid(b) \/ AcceptSide(b) \/ AcceptBest(b), Answered(p, <<>>),
             scanning' \in BOOLEAN, node' = node,
             bestHeader' \in {None, best, HeaderWith(b)}
      PROVE  SyncInv'
  <2>1. /\ TypeInv' /\ LinksOK' /\ index \subseteq index'
        /\ HeaderWith(b) \in index' \cup {None} /\ best \in index'
    BY <1>2, <1>9, BlockIndexed
  <2>2. node' = [node EXCEPT ![p] = m] /\ m \in Nodes(index', ptip[p], {m.getblocks})
    BY <1>3, <1>6, <1>9, <2>1
  <2>3. bestHeader' \in index' \cup {None}  BY <1>9, <2>1
  <2> HIDE DEF m, b
  <2> QED  BY <1>1, <1>4, <1>9, <2>1, <2>2, <2>3, PeerStep
<1>10. \/ Refused(b) /\ Answered(p, <<>>) /\ UNCHANGED <<vars, bestHeader, scanning, node>>
       \/ /\ AddOrphanBlock(b) /\ node' = [node EXCEPT ![p] = more.n]
          /\ scanning' = (scanning \/ Height[best] > 0)
          /\ Answered(p, more.out) /\ UNCHANGED bestHeader
       \/ /\ AcceptInvalid(b) \/ AcceptSide(b) \/ AcceptBest(b)
          /\ Answered(p, <<>>) /\ node' = node
          /\ scanning' = TRUE \/ scanning' = scanning
          /\ bestHeader' \in {None, best, HeaderWith(b)}
  <2>1. HandleBlock(p)  OBVIOUS
  <2> HIDE DEF b, more
  <2>2. \/ Refused(b) /\ Answered(p, <<>>) /\ UNCHANGED <<vars, bestHeader, scanning, node>>
        \/ /\ AddOrphanBlock(b) /\ node' = [node EXCEPT ![p] = more.n]
           /\ scanning' = (scanning \/ Height[best] > 0)
           /\ Answered(p, more.out) /\ UNCHANGED bestHeader
        \/ /\ AcceptInvalid(b)
           /\ bestHeader' = (IF HeaderWith(b) = b THEN None ELSE HeaderWith(b))
           /\ Answered(p, <<>>) /\ UNCHANGED <<scanning, node>>
        \/ /\ AcceptSide(b) /\ bestHeader' = HeaderWith(b) /\ scanning' = TRUE
           /\ Answered(p, <<>>) /\ UNCHANGED node
        \/ /\ AcceptBest(b) /\ bestHeader' = (IF Abandoned THEN best ELSE HeaderWith(b))
           /\ Answered(p, <<>>) /\ UNCHANGED <<scanning, node>>
    BY <2>1 DEF HandleBlock, b, more
  <2> QED  BY <2>2
<1>11. scanning' = TRUE \/ scanning' = scanning => scanning' \in BOOLEAN  BY <1>5
<1> HIDE DEF b, more, m
<1> QED  BY <1>7, <1>8, <1>9, <1>10, <1>11

(* The blocks of a branch that have no data are ancestors of its end.      *)
LEMMA MissingAbove ==
  ASSUME TypeInv, LinksOK, NEW k \in index
  PROVE  \A b \in Branch(k) : b \in index /\ (Flagged(b) \/ (b \in ChainOf[k] /\ b # Genesis))
<1>1. /\ TypeOK /\ IndexOK /\ index \in SUBSET Block
      /\ pprev \in [Block -> Block \cup {None}] /\ None \notin Block
  BY Tree DEF TypeInv, TypeOK
<1>2. PICK S \in SUBSET index :
        /\ Genesis \in S
        /\ \A b \in S : Flagged(b) /\ (b # Genesis => pprev[b] \in S)
        /\ \A b \in index \ S : pprev[b] = Prev[b]
  BY DEF LinksOK
<1>3. \A b \in Block : Branch(b) =
        IF pprev[b] = None THEN {b} ELSE {b} \cup Branch(pprev[b])
  BY <1>1, BranchIs
<1>4. /\ Branch(Genesis) = {Genesis}
      /\ \A b \in index \ {Genesis} :
           /\ Branch(b) = {b} \cup Branch(pprev[b])
           /\ pprev[b] \in index /\ Height[pprev[b]] < Height[b]
  BY <1>1, <1>3, Tree DEF IndexOK
<1> DEFINE P == {b \in Block : Branch(b) \subseteq S}
<1>5. S \subseteq P
  <2>1. ASSUME NEW b \in S
        PROVE  b \in P \/ (pprev[b] \in S /\ Height[pprev[b]] < Height[b]
                           /\ (pprev[b] \in P => b \in P))
    <3>1. CASE b = Genesis  BY <1>1, <1>2, <1>4, <3>1
    <3>2. CASE b # Genesis  BY <1>1, <1>2, <1>4, <3>2
    <3> QED  BY <3>1, <3>2
  <2>2. S \in SUBSET Block  BY <1>1
  <2> HIDE DEF P
  <2> QED  BY <2>1, <2>2, ByLinks
<1> DEFINE Q == {b \in Block : Branch(b) \subseteq S \cup Ancestors(b)}
<1>6. index \subseteq Q
  <2>1. ASSUME NEW b \in index
        PROVE  b \in Q \/ (pprev[b] \in index /\ Height[pprev[b]] < Height[b]
                           /\ (pprev[b] \in Q => b \in Q))
    <3>1. CASE b \in S  BY <1>1, <1>5, <3>1
    <3>2. CASE b \notin S
      <4>1. b # Genesis /\ pprev[b] = Prev[b] /\ b \in Block  BY <1>1, <1>2, <3>2
      <4>2. Ancestors(b) = {b} \cup Ancestors(Prev[b])  BY <4>1, AncestorsIs
      <4> QED  BY <1>4, <4>1, <4>2
    <3> QED  BY <3>1, <3>2
  <2> HIDE DEF Q
  <2> QED  BY <1>1, <2>1, ByLinks
<1>7. ChainOf[k] = Ancestors(k)  BY <1>1, ChainIs
<1>8. Branch(k) \subseteq index  BY <1>1, BranchInIndex
<1> QED  BY <1>2, <1>6, <1>7, <1>8

(* FindNextBlocksToDownload chooses among them.                            *)
LEMMA DownloadIs ==
  ASSUME NEW T \in SUBSET Block, NEW ahead \in Seq(T)
  PROVE  ToDownload(ahead) = <<>> \/ ToDownload(ahead) \in Seq({b \in T : ~Flagged(b)})
<1> DEFINE k == Min({MaxBatch, Len(ahead)})
           w == SubSeq(ahead, 1, k)
           M == {b \in ToSet(w) : status[b] \cap {"data", "undo"} = {}}
<1>1. ToDownload(ahead) = <<>> \/ ToDownload(ahead) = ByHeight[M]
  BY DEF ToDownload
<1>2. Len(ahead) \in Nat /\ ToSet(ahead) \subseteq T  BY Elements
<1>3. k \in 0 .. Len(ahead)
  <2> DEFINE N == {MaxBatch, Len(ahead)}
  <2>1. N \in SUBSET Nat /\ N # {} /\ Len(ahead) \in N  BY <1>2, SyncAssumption
  <2> HIDE DEF N
  <2>2. Min(N) \in N /\ \A y \in N : Min(N) <= y  BY <2>1, MinIn
  <2>3. Min(N) \in Nat /\ Min(N) <= Len(ahead)  BY <2>1, <2>2
  <2>4. Min(N) \in 0 .. Len(ahead)  BY <1>2, <2>3
  <2> QED  BY <2>4 DEF N
<1> HIDE DEF k
<1>4. ToSet(w) \subseteq T  BY <1>2, <1>3, FirstOf
<1>5. M \subseteq {b \in T : ~Flagged(b)} /\ M \in SUBSET Block  BY <1>4 DEF Flagged
<1> HIDE DEF M
<1>6. ByHeight[M] \in Seq(M)  BY <1>5, Listed
<1>7. Seq(M) \subseteq Seq({b \in T : ~Flagged(b)})  BY <1>5
<1> QED  BY <1>1, <1>6, <1>7

(* ServiceBlockGetDataEvent asks for blocks that the peer has.             *)
LEMMA WantedHeld ==
  ASSUME SyncInv, NEW t \in Block, NEW G, NEW n \in Nodes(index, t, G)
  PROVE  \/ Wanted(n, Ahead(n)) = <<>>
         \/ Wanted(n, Ahead(n)) \in Seq((index \cap ChainOf[t]) \ {Genesis})
<1> DEFINE ahead == Ahead(n)
           T == Branch(n.known) \ MainChain
           H == (index \cap ChainOf[t]) \ {Genesis}
<1>1. Wanted(n, ahead) = <<>> \/ (ahead # <<>> /\ Wanted(n, ahead) = ToDownload(ahead))
  BY DEF Wanted
<1>2. TypeInv /\ LinksOK /\ index \in SUBSET Block  BY DEF SyncInv, TypeInv, TypeOK
<1>3. n.known = None => ahead = <<>>  BY DEF Ahead
<1>4. CASE n.known # None
  <2>1. n.known \in index /\ n.known \in ChainOf[t]  BY <1>4 DEF Nodes
  <2>2. \A b \in Branch(n.known) :
          b \in index /\ (Flagged(b) \/ (b \in ChainOf[n.known] /\ b # Genesis))
    BY <1>2, <2>1, MissingAbove
  <2>3. ChainOf[n.known] \subseteq ChainOf[t]
    BY <1>2, <2>1, ChainIs, Chains
  <2>4. T \in SUBSET Block /\ {b \in T : ~Flagged(b)} \subseteq H  BY <1>2, <2>2, <2>3
  <2>5. ahead = ByHeight[T]  BY <1>4 DEF Ahead
  <2> HIDE DEF T, H, ahead
  <2>6. ahead \in Seq(T)  BY <2>4, <2>5, Listed
  <2>7. ToDownload(ahead) = <<>> \/ ToDownload(ahead) \in Seq({b \in T : ~Flagged(b)})
    BY <2>4, <2>6, DownloadIs
  <2>8. Seq({b \in T : ~Flagged(b)}) \subseteq Seq(H)  BY <2>4
  <2> QED  BY <1>1, <2>7, <2>8 DEF H, ahead
<1> QED  BY <1>1, <1>3, <1>4

(* What is left to show when a peer is asked for something.                *)
LEMMA AskStep ==
  ASSUME SyncInv, NEW p \in Peer, UNCHANGED <<vars, bestHeader, scanning, ptip>>,
         NEW n, node' = [node EXCEPT ![p] = n], n \in Nodes(index, ptip[p], {n.getblocks}),
         NEW m \in Seq(Messages(ptip[p])), inbox' = [inbox EXCEPT ![p] = m],
         psent' \in [Peer -> Block \cup {None}]
  PROVE  SyncInv'
<1>1. TypeInv' /\ LinksOK' /\ index' = index  BY ChainStays DEF SyncInv
<1>2. ptip' \in [Peer -> Block] /\ ptip'[p] = ptip[p] /\ \A q \in Peer \ {p} : ptip'[q] = ptip[q]
  BY DEF SyncInv
<1>3. n \in Nodes(index', ptip'[p], {n.getblocks}) /\ m \in Seq(Messages(ptip'[p]))
  BY <1>1, <1>2
<1>4. NodesOK'  BY <1>1, <1>2, <1>3, OneNode
<1>5. InboxOK'  BY <1>2, <1>3, OneInbox
<1> QED  BY <1>1, <1>2, <1>4, <1>5 DEF SyncInv

(* The block event.                                                        *)
LEMMA EventKeeps ==
  ASSUME SyncInv, NEW p \in Peer, ServiceBlockEvent(p)
  PROVE  SyncInv'
<1> DEFINE t == ptip[p]
           g == {node[p].getblocks}
           n == ProcessBlockAvailability(node[p], index, cwork)
           s == Wanted(n, Ahead(n))
           out == IF s # <<>> THEN GetData(p, ToSet(s))
                  ELSE IF WantsHeaders(n) THEN GetHeaders(p, LocatorTip, None) ELSE <<>>
           c == IF s # <<>> THEN [n EXCEPT !.lastBlock = Last(s)]
                ELSE IF WantsHeaders(n) THEN [n EXCEPT !.lastHeader = LocatorTip] ELSE n
           M == Seq(Messages(t))
           H == (index \cap ChainOf[t]) \ {Genesis}
<1>1. /\ node' = [node EXCEPT ![p] = c] /\ inbox' = [inbox EXCEPT ![p] = @ \o out]
      /\ SentHeaders(p, out) /\ UNCHANGED <<vars, bestHeader, scanning, ptip>>
  BY DEF ServiceBlockEvent
<1>2. node[p] \in Nodes(index, t, g) /\ t \in Block  BY OwnNode
<1>3. index \in SUBSET Block /\ LocatorTip \in index /\ LocatorTip \in Block
  BY LocatorTyped DEF SyncInv, TypeInv, TypeOK
<1>4. n \in Nodes(index, t, g)  BY <1>2, <1>3, ProcessTyped
<1>5. s = <<>> \/ s \in Seq(H)  BY <1>2, <1>4, WantedHeld
<1>6. out \in M
  <2>1. s # <<>> => Genesis \notin ToSet(s)  BY <1>5, Elements
  <2> HIDE DEF s
  <2>2. s # <<>> => GetData(p, ToSet(s)) \in M  BY <1>2, <2>1, DataTyped
  <2>3. GetHeaders(p, LocatorTip, None) \in M /\ <<>> \in M
    BY <1>2, <1>3, HeadersTyped, ShortLists
  <2> QED  BY <2>2, <2>3
<1> HIDE DEF n, s
<1>7. c \in Nodes(index, t, g)
  <2>1. s # <<>> => Last(s) \in index \cap ChainOf[t]
    <3>1. s # <<>> => Last(s) \in H  BY <1>5 DEF Last
    <3> QED  BY <3>1
  <2> DEFINE x == Last(s)
  <2> HIDE DEF x
  <2>2. x \in index \cap ChainOf[t] => [n EXCEPT !.lastBlock = x] \in Nodes(index, t, g)
    BY <1>4 DEF Nodes
  <2>3. [n EXCEPT !.lastHeader = LocatorTip] \in Nodes(index, t, g)  BY <1>3, <1>4 DEF Nodes
  <2> QED  BY <1>4, <2>1, <2>2, <2>3 DEF x
<1> DEFINE m == inbox[p] \o out
<1>8. inbox[p] \in M  BY DEF SyncInv, InboxOK
<1> HIDE DEF out, c
<1>9. m \in M /\ inbox' = [inbox EXCEPT ![p] = m]  BY <1>1, <1>6, <1>8
<1>10. psent' \in [Peer -> Block \cup {None}]  BY <1>1, <1>2, <1>6, SentTyped DEF SyncInv
<1>11. c \in Nodes(index, t, {c.getblocks})  BY <1>7, NodesGrow
<1> HIDE DEF m
<1> QED  BY <1>1, <1>9, <1>10, <1>11, AskStep

(* The requests that AskFor has queued.                                    *)
LEMMA AskForKeeps ==
  ASSUME SyncInv, NEW p \in Peer, NEW b \in Block, SendAskFor(p, b)
  PROVE  SyncInv'
<1> DEFINE t == ptip[p]
           n == node[p]
           c == [n EXCEPT !.ask = @ \ {b}]
           out == IF b \in index THEN <<>> ELSE GetData(p, {b})
           m == inbox[p] \o out
           M == Seq(Messages(t))
<1>1. /\ b \in n.ask /\ node' = [node EXCEPT ![p].ask = @ \ {b}]
      /\ inbox' = [inbox EXCEPT ![p] = m]
      /\ UNCHANGED <<vars, bestHeader, scanning, ptip, psent>>
  BY DEF SendAskFor
<1>2. n \in Nodes(index, t, {n.getblocks}) /\ t \in Block  BY OwnNode
<1>3. node' = [node EXCEPT ![p] = c]  BY <1>1
<1>4. out \in M
  <2>1. Genesis \in index  BY DEF SyncInv, TypeInv, IndexOK
  <2>2. b \notin index => Genesis \notin {b}  BY <2>1
  <2>3. b \notin index => GetData(p, {b}) \in M  BY <1>2, <2>2, DataTyped
  <2> QED  BY <2>3, ShortLists
<1>5. inbox[p] \in M  BY DEF SyncInv, InboxOK
<1> HIDE DEF out
<1>6. m \in M  BY <1>4, <1>5
<1> HIDE DEF n
<1>7. c \in Nodes(index, t, {c.getblocks})  BY <1>2 DEF Nodes
<1> HIDE DEF c, m
<1>8. psent' \in [Peer -> Block \cup {None}]  BY <1>1 DEF SyncInv
<1> QED  BY <1>1, <1>3, <1>6, <1>7, <1>8, AskStep

(* A connection breaks and is made again.                                  *)
LEMMA ReconnectKeeps ==
  ASSUME SyncInv, NEW p \in Peer, Reconnect(p)
  PROVE  SyncInv'
<1>1. /\ node' = [node EXCEPT ![p] = NewNode] /\ inbox' = [inbox EXCEPT ![p] = Handshake(p)]
      /\ psent' = [psent EXCEPT ![p] = None] /\ UNCHANGED <<vars, bestHeader, scanning, ptip>>
  BY DEF Reconnect
<1>2. NewNode \in Nodes(index, ptip[p], {NewNode.getblocks})  BY NewNodeTyped
<1>3. ptip[p] \in Block /\ psent \in [Peer -> Block \cup {None}]  BY DEF SyncInv
<1>4. Handshake(p) \in Seq(Messages(ptip[p]))  BY <1>3, HandshakeTyped
<1>5. psent' \in [Peer -> Block \cup {None}]  BY <1>1, <1>3
<1> HIDE DEF NewNode
<1> QED  BY <1>1, <1>2, <1>4, <1>5, AskStep

(* The chain of a peer grows, and it announces the block.                  *)
LEMMA GrowKeeps ==
  ASSUME SyncInv, NEW p \in Peer, NEW b \in Block \ {Genesis}, PeerGrow(p, b)
  PROVE  SyncInv'
<1> DEFINE t == ptip[p]
           s == <<b>>
<1>1. /\ Prev[b] = t /\ ptip' = [ptip EXCEPT ![p] = b]
      /\ psent' = [psent EXCEPT ![p] = b] \/ psent' = psent
      /\ UNCHANGED <<vars, bestHeader, scanning, node>>
      /\ \/ inbox' = [inbox EXCEPT ![p] = Append(@, Message("headers", s))]
         \/ inbox' = [inbox EXCEPT ![p] = Append(@, Message("inv", s))]
  BY DEF PeerGrow
<1>2. TypeInv' /\ LinksOK' /\ index' = index  BY <1>1, ChainStays DEF SyncInv
<1>3. /\ ptip' \in [Peer -> Block] /\ ptip'[p] = b
      /\ \A q \in Peer \ {p} : ptip'[q] = ptip[q]
  BY <1>1 DEF SyncInv
<1>4. psent' \in [Peer -> Block \cup {None}]  BY <1>1 DEF SyncInv
<1>5. t \in Block /\ ChainOf[t] \subseteq ChainOf[b] /\ b \in ChainOf[b]
  BY <1>1, ChainGrows
<1>6. NodesOK'
  <2> DEFINE n == node[p]
  <2>1. n \in Nodes(index, t, {n.getblocks}) /\ node' = [node EXCEPT ![p] = n]
    BY <1>1, OwnNode
  <2> HIDE DEF n, t
  <2>2. n \in Nodes(index', ptip'[p], {n.getblocks})  BY <1>2, <1>3, <1>5, <2>1, NodesGrow
  <2> QED  BY <1>2, <1>3, <2>1, <2>2, OneNode
<1>7. InboxOK'
  <2>1. inbox[p] \in Seq(Messages(t))  BY DEF SyncInv, InboxOK
  <2>2. Messages(t) \subseteq Messages(b)  BY <1>5, MessagesGrow
  <2>3. s \in Seq(ChainOf[b]) /\ s # <<>> /\ Genesis \notin ToSet(s) /\ Len(s) = 1
    <3>1. ToSet(s) = {b} /\ s # <<>> /\ Len(s) = 1  BY ShortLists
    <3>2. s \in Seq(ChainOf[b])  BY <1>5, ShortLists
    <3> HIDE DEF s
    <3> QED  BY <3>1, <3>2
  <2> HIDE DEF s
  <2>4. Linked(s)  BY <2>3 DEF Linked
  <2>5. Message("headers", s) \in Messages(b) /\ Message("inv", s) \in Messages(b)
    BY <2>3, <2>4, MessageTyped
  <2> DEFINE x == Append(inbox[p], Message("headers", s))
             y == Append(inbox[p], Message("inv", s))
  <2>6. inbox[p] \in Seq(Messages(b))
    <3>1. Seq(Messages(t)) \subseteq Seq(Messages(b))  BY <2>2
    <3> QED  BY <2>1, <3>1
  <2>7. x \in Seq(Messages(b)) /\ y \in Seq(Messages(b))  BY <2>5, <2>6
  <2>8. inbox' = [inbox EXCEPT ![p] = x] \/ inbox' = [inbox EXCEPT ![p] = y]  BY <1>1
  <2> HIDE DEF x, y
  <2>9. x \in Seq(Messages(ptip'[p])) /\ y \in Seq(Messages(ptip'[p]))  BY <1>3, <2>7
  <2> QED  BY <1>3, <2>8, <2>9, OneInbox
<1> QED  BY <1>1, <1>2, <1>3, <1>4, <1>6, <1>7 DEF SyncInv

(* A step of a commit.                                                     *)
LEMMA CommitKeeps ==
  ASSUME SyncInv, SyncCommit
  PROVE  SyncInv'
<1>1. /\ CommitStep /\ bestHeader' \in {job.last, bestHeader}
      /\ scanning' = (scanning \/ (job' = NoJob /\ job.fail = None))
      /\ UNCHANGED <<node, inbox, ptip, psent>>
  BY DEF SyncCommit
<1>2. /\ TypeInv /\ LinksOK /\ JobOK
      /\ status \in [Block -> SUBSET {"data", "undo", "failed"}] /\ index \in SUBSET Block
  BY DEF SyncInv, TypeInv, TypeOK
<1>3. TypeInv'
  BY <1>1, <1>2, TypeDisconnect, TypeCoins, TypeConnect, TypeFinish DEF CommitStep
<1>4. UNCHANGED <<index, pprev>>
  BY <1>1 DEF CommitStep, DisconnectBlock, ConnectCoins, ConnectBlock, FinishCommit, EndCommit
<1>5. \A b \in index : Flagged(b) => Flagged(b)'
  <2>1. \/ \E x : status' = [status EXCEPT ![x] = (@ \ {"data"}) \cup {"undo"}]
        \/ \E x : status' = [status EXCEPT ![x] = @ \cup {"data"}]
        \/ \E x : status' = [status EXCEPT ![x] = @ \cup {"failed"}]
        \/ status' = status
    <3>1. ASSUME NEW pool \in SUBSET Pool, DisconnectBlock(pool)
          PROVE  \E x : status' = [status EXCEPT ![x] = (@ \ {"data"}) \cup {"undo"}]
      BY <3>1 DEF DisconnectBlock
    <3>2. ASSUME NEW pool \in SUBSET Pool, ConnectCoins(pool) PROVE status' = status
      BY <3>2 DEF ConnectCoins
    <3>3. ConnectBlock => \E x : status' = [status EXCEPT ![x] = @ \cup {"data"}]
      BY DEF ConnectBlock
    <3>4. FinishCommit => status' = status \/ \E x : status' = [status EXCEPT ![x] = @ \cup {"failed"}]
      BY DEF FinishCommit, EndCommit
    <3> QED  BY <1>1, <3>1, <3>2, <3>3, <3>4 DEF CommitStep
  <2>2. \A b \in Block : \/ status'[b] = (status[b] \ {"data"}) \cup {"undo"}
                         \/ status[b] \subseteq status'[b]
    BY <1>2, <2>1
  <2>3. ASSUME NEW b \in index, Flagged(b) PROVE Flagged(b)'
    <3>1. b \in Block  BY <1>2
    <3>2. CASE status'[b] = (status[b] \ {"data"}) \cup {"undo"}  BY <3>2 DEF Flagged
    <3>3. CASE status[b] \subseteq status'[b]  BY <2>3, <3>3 DEF Flagged
    <3> QED  BY <2>2, <3>1, <3>2, <3>3
  <2> QED  BY <2>3
<1>6. LinksOK'  BY <1>2, <1>4, <1>5, LinksKept
<1>7. job.last \in index
  <2>1. job.disconLeft # {} \/ job.conLeft # {} \/ job.new # None
    BY <1>1 DEF CommitStep, DisconnectBlock, ConnectCoins, ConnectBlock, Connecting,
                FinishCommit, EndCommit
  <2>2. ~Rest  BY <1>2, <2>1, RestJob
  <2> QED  BY <1>2, <2>2, RestJob
<1>8. bestHeader' \in index' \cup {None}  BY <1>1, <1>4, <1>7 DEF SyncInv
<1>9. scanning' \in BOOLEAN
  <2>1. scanning' = (scanning \/ (job' = NoJob /\ job.fail = None)) => scanning' \in BOOLEAN
    OBVIOUS
  <2> QED  BY <1>1, <2>1
<1>10. NodesOK' /\ InboxOK'  BY <1>1, <1>4, SameNodes, SameInbox
<1> QED  BY <1>1, <1>3, <1>6, <1>8, <1>9, <1>10 DEF SyncInv

(* A restart.                                                              *)
LEMMA RestartKeeps ==
  ASSUME SyncInv, SyncRestart
  PROVE  SyncInv'
<1>1. /\ Restart /\ bestHeader' = None /\ scanning' = FALSE
      /\ node' = [p \in Peer |-> NewNode] /\ inbox' = [p \in Peer |-> Handshake(p)]
      /\ psent' = [p \in Peer |-> None] /\ UNCHANGED ptip
  BY DEF SyncRestart
<1>2. TypeInv /\ TypeOK /\ DbOK /\ ptip \in [Peer -> Block]  BY DEF SyncInv, TypeInv
<1>3. TypeInv'  BY <1>1, <1>2, TypeRestart
<1>4. LinksOK'
  <2>1. /\ index' = Loaded
        /\ pprev' = [b \in Block |->
             IF b \in Loaded \ {Genesis} THEN blkdb[Height[b] - 1] ELSE None]
        /\ status' = [b \in Block |-> IF b \in Loaded THEN {"data"} ELSE {}]
    BY <1>1, RestartIs
  <2>2. /\ FillTop \in Nat /\ Loaded \subseteq Block /\ Genesis \in Loaded
        /\ \A h \in 0 .. FillTop : blkdb[h] \in Loaded
        /\ \A b \in Loaded : Height[b] \in 0 .. FillTop
    BY <1>2, LoadedIs
  <2>3. ASSUME NEW b \in Loaded PROVE Flagged(b)' /\ (b # Genesis => pprev'[b] \in Loaded)
    <3>1. status'[b] = {"data"}  BY <2>1, <2>2
    <3>2. b # Genesis => pprev'[b] = blkdb[Height[b] - 1]  BY <2>1, <2>2
    <3>3. b # Genesis => Height[b] - 1 \in 0 .. FillTop
      <4>1. b # Genesis => Height[b] > 0  BY <2>2, Tree
      <4> QED  BY <2>2, <4>1
    <3>4. Flagged(b)'  BY <3>1 DEF Flagged
    <3> QED  BY <2>2, <3>2, <3>3, <3>4
  <2>4. \A b \in index' \ Loaded : pprev'[b] = Prev[b]  BY <2>1
  <2>5. Loaded \in SUBSET index'  BY <2>1
  <2> QED  BY <2>2, <2>3, <2>4, <2>5 DEF LinksOK
<1>5. NodesOK'
  <2>1. \A p \in Peer : NewNode \in Nodes(index', ptip'[p], {NewNode.getblocks})
    BY NewNodeTyped
  <2> HIDE DEF NewNode
  <2> QED  BY <1>1, <2>1 DEF NodesOK
<1>6. InboxOK'
  <2>1. \A p \in Peer : Handshake(p) \in Seq(Messages(ptip[p]))  BY <1>2, HandshakeTyped
  <2>2. \A p \in Peer : inbox'[p] = Handshake(p) /\ ptip'[p] = ptip[p]  BY <1>1
  <2>3. inbox' = [p \in Peer |-> inbox'[p]]  BY <1>1
  <2> QED  BY <2>1, <2>2, <2>3 DEF InboxOK
<1>7. psent' \in [Peer -> Block \cup {None}] /\ ptip' \in [Peer -> Block]  BY <1>1, <1>2
<1> QED  BY <1>1, <1>3, <1>4, <1>5, <1>6, <1>7 DEF SyncInv

(* Nothing happens.                                                        *)
LEMMA SyncStutter ==
  ASSUME SyncInv, UNCHANGED allVars
  PROVE  SyncInv'
<1>1. UNCHANGED <<vars, bestHeader, scanning, node, inbox, ptip, psent>>
  BY DEF allVars, syncVars
<1>2. TypeInv' /\ LinksOK' /\ index' = index  BY <1>1, ChainStays DEF SyncInv
<1>3. NodesOK' /\ InboxOK'  BY <1>1, <1>2, SameNodes, SameInbox
<1> QED  BY <1>1, <1>2, <1>3 DEF SyncInv

LEMMA SyncKeeps ==
  ASSUME SyncInv, [SyncNext]_allVars
  PROVE  SyncInv'
<1>1. ASSUME NEW p \in Peer, Handle(p) PROVE SyncInv'
  BY <1>1, VersionKeeps, InvKeeps, HeadersKeep, BlockKeeps DEF Handle
<1>2. ASSUME NEW p \in Peer, ServiceBlockEvent(p) \/ Reconnect(p) PROVE SyncInv'
  BY <1>2, EventKeeps, ReconnectKeeps
<1>3. ASSUME NEW p \in Peer, NEW b \in Block, SendAskFor(p, b) \/ (b # Genesis /\ PeerGrow(p, b))
      PROVE  SyncInv'
  BY <1>3, AskForKeeps, GrowKeeps
<1>4. SyncCommit \/ SyncRestart => SyncInv'  BY CommitKeeps, RestartKeeps
<1>5. UNCHANGED allVars => SyncInv'  BY SyncStutter
<1> QED  BY <1>1, <1>2, <1>3, <1>4, <1>5 DEF SyncNext

-----------------------------------------------------------------------------
(* The results, for any number of peers, any tree of blocks and any number *)
(* of broken connections and crashes, torn commits included.               *)

(* The invariant holds in every state.                                     *)
THEOREM SyncInvariant == SyncSpec => []SyncInv
<1>1. SyncInit => SyncInv  BY SyncStarts
<1>2. SyncInv /\ [SyncNext]_allVars => SyncInv'  BY SyncKeeps
<1> QED  BY <1>1, <1>2, PTL DEF SyncSpec

(* What the service remembers of headers and of its peers' blocks is in    *)
(* its index: pindexBestHeader and the pointers of every CNode lead to     *)
(* blocks that are there, whatever messages arrive in whatever order.      *)
THEOREM PointersIndexed == SyncSpec => []SyncTypeOK
<1>1. SyncInv => SyncTypeOK  BY InvImplies
<1> QED  BY <1>1, SyncInvariant, PTL

(* What the service takes a peer to have and asks it for, the peer has,    *)
(* also after a torn commit has linked the loaded blocks by their heights. *)
THEOREM PeersHaveWhatIsAsked == SyncSpec => []KnownHeld
<1>1. SyncInv => KnownHeld  BY InvImplies
<1> QED  BY <1>1, SyncInvariant, PTL
=============================================================================
