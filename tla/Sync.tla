--------------------------------- MODULE Sync ---------------------------------
(***************************************************************************)
(* How a coin service follows the chains of its peers: announcements       *)
(* (inv, headers), the requests getheaders, getdata and getblocks, the     *)
(* service event that decides what to ask of which peer, and connections   *)
(* that break, on top of the block chain.                                  *)
(*                                                                         *)
(* A peer runs the same program, has finished its own download and serves  *)
(* its main chain, which may grow.  A connection is a FIFO stream and the  *)
(* answer to a request depends on the request and the peer's chain only,   *)
(* so sending a request appends the answer to the stream at once.  A       *)
(* connection that breaks loses what is in the stream.                     *)
(***************************************************************************)
EXTENDS Chain

CONSTANTS
  Peer,
  FirstTip,   \* the best block of each peer at the beginning
  LastTip,    \* the block that its chain grows to
  MaxHeaders, \* MAX_HEADERS_RESULTS, the same as the limit of the sender
  MaxAnnounce,\* MAX_BLOCKS_TO_ANNOUNCE
  MaxBatch,   \* MAX_BLOCK_DOWNLOAD_BATCH
  MaxBreak    \* bound on the connections that break, and restarts before them

VARIABLES
  bestHeader, \* wallet->pindexBestHeader
  scanning,   \* iface->blockscan_max is not zero
  node,       \* the CNode of each peer
  inbox,      \* what the peer has sent and the service not yet read
  ptip,       \* the best block of the peer
  psent,      \* the peer's pindexBestHeaderSend for this node
  breaks

syncVars == <<bestHeader, scanning, node, inbox, ptip, psent, breaks>>
allVars == <<vars, syncVars>>

(* The blocks of a part of one branch, lowest first, as a function that is *)
(* evaluated once.                                                         *)
ByHeight == [S \in SUBSET Block |-> Ascending(S)]

(* The blocks of the chain of t above the first one that the locator of b  *)
(* finds there.                                                            *)
AboveFork == [t \in Block |-> [b \in Block |-> ByHeight[ChainOf[t] \ ChainOf[b]]]]

ASSUME SyncAssumption ==
  /\ FirstTip \in [Peer -> Block]
  /\ LastTip \in [Peer -> Block]
  /\ \A p \in Peer : FirstTip[p] \in ChainOf[LastTip[p]]
  /\ {MaxHeaders, MaxBatch, MaxAnnounce} \subseteq Nat \ {0}
  /\ MaxBreak \in Nat

(* A new CNode, and what the peer sends first.                             *)
NewNode == [version |-> FALSE, prefer |-> FALSE, known |-> None, unknown |-> None,
            lastHeader |-> None, lastBlock |-> None, ask |-> {},
            getblocks |-> <<None, None>>]
Message(kind, blocks) == [kind |-> kind, blocks |-> blocks]
Handshake(p) == <<Message("version", <<ptip[p]>>)>>

-----------------------------------------------------------------------------
(* The peer.                                                               *)

(* shc_ProcessGetHeaders.                                                  *)
HeadersFor(p, b, stop) ==
  LET s == AboveFork[ptip[p]][b]
      n == Min({Len(s), MaxHeaders} \cup {i \in DOMAIN s : s[i] = stop})
  IN SubSeq(s, 1, n)
GetHeaders(p, b, stop) ==
  LET s == HeadersFor(p, b, stop)
  IN IF s = <<>> THEN <<>> ELSE <<Message("headers", s)>>

(* The handler of getdata for the blocks S, which the service lists by     *)
(* their height, and that of getblocks.                                    *)
GetData(p, S) ==
  LET held == ByHeight[S \cap ChainOf[ptip[p]]]
  IN [i \in DOMAIN held |-> Message("block", <<held[i]>>)]
GetBlocks(p, b, stop) ==
  LET s == AboveFork[ptip[p]][b]
      n == Min({Len(s)} \cup {i - 1 : i \in {j \in DOMAIN s : s[j] = stop}})
  IN IF n = 0 THEN <<>> ELSE <<Message("inv", SubSeq(s, 1, n))>>

(* The peer accepts a block and announces it (shc_SendMessages): with its  *)
(* header when it knows that this node has the one before, and with an inv *)
(* when it does not.  It may know from a block that this node announced.   *)
HasHeader(p, b) == psent[p] # None /\ b \in ChainOf[psent[p]]
PeerGrow(p, b) ==
  /\ ptip[p] # LastTip[p]
  /\ b \in ChainOf[LastTip[p]] /\ Prev[b] = ptip[p]
  /\ ptip' = [ptip EXCEPT ![p] = b]
  /\ \/ /\ HasHeader(p, Prev[b]) \/ Prev[b] \in MainChain
        /\ inbox' = [inbox EXCEPT ![p] = Append(@, Message("headers", <<b>>))]
        /\ psent' = [psent EXCEPT ![p] = b]
     \/ /\ ~HasHeader(p, Prev[b])
        /\ inbox' = [inbox EXCEPT ![p] = Append(@, Message("inv", <<b>>))]
        /\ UNCHANGED psent
  /\ UNCHANGED <<vars, bestHeader, scanning, node, breaks>>

-----------------------------------------------------------------------------
(* The messages.                                                           *)

Received(p, kind) == Rest /\ inbox[p] # <<>> /\ Head(inbox[p]).kind = kind
(* The first message of p is done with; answer is what its handler made    *)
(* the peer send.                                                          *)
Answered(p, answer) == inbox' = [inbox EXCEPT ![p] = Tail(@) \o answer]
SentHeaders(p, answer) ==
  LET sent == {i \in DOMAIN answer : answer[i].kind = "headers"} IN
  psent' = IF sent = {} THEN psent
           ELSE [psent EXCEPT ![p] = Last(answer[Max(sent)].blocks)]

(* ProcessBlockAvailability and UpdateBlockAvailability, with the chain    *)
(* work that the index has after the message.                              *)
MoreKnown(n, b, work) == n.known = None \/ work[b] >= work[n.known]
ProcessBlockAvailability_Best(n, idx, work) ==
  IF bestHeader = None THEN n ELSE [n EXCEPT !.known = bestHeader]
ProcessBlockAvailability(n, idx, work) ==
  IF n.unknown \in idx /\ MoreKnown(n, n.unknown, work)
  THEN [n EXCEPT !.known = n.unknown] ELSE n
UpdateBlockAvailability_Unchecked(n, b, idx, work) == [n EXCEPT !.known = b]
UpdateBlockAvailability(n, b, idx, work) ==
  LET m == ProcessBlockAvailability(n, idx, work) IN
  IF b \notin idx THEN [m EXCEPT !.unknown = b]
  ELSE IF MoreKnown(m, b, work) THEN [m EXCEPT !.known = b] ELSE m

(* GetLocator(NULL) starts at the best block.                              *)
LocatorTip == IF bestHeader = None THEN best ELSE bestHeader

(* PushGetBlocks, which filters repeated requests.                         *)
PushGetBlocks(p, n, b, stop) ==
  IF n.getblocks = <<b, stop>> THEN [n |-> n, out |-> <<>>]
  ELSE [n |-> [n EXCEPT !.getblocks = <<b, stop>>], out |-> GetBlocks(p, b, stop)]

(* The verack that answers a version makes the peer ask for headers.       *)
HandleVersion(p) ==
  /\ Received(p, "version")
  /\ node' = [node EXCEPT ![p].version = TRUE]
  /\ scanning' = (scanning \/ Height[Head(inbox[p]).blocks[1]] > 0)
  /\ Answered(p, <<Message("sendheaders", <<>>)>>)
  /\ UNCHANGED <<vars, bestHeader, ptip, psent, breaks>>

HandleSendHeaders(p) ==
  /\ Received(p, "sendheaders")
  /\ node' = [node EXCEPT ![p].prefer = TRUE]
  /\ Answered(p, <<>>)
  /\ UNCHANGED <<vars, bestHeader, scanning, ptip, psent, breaks>>

(* shc_GetOrphanRoot follows the orphans down to the missing block.        *)
OrphanRoot(b, orphans) ==
  LET f[x \in Block] ==
        IF \E q \in Block : orphans[q] = x
        THEN f[CHOOSE q \in Block : orphans[q] = x] ELSE x
  IN f[b]

(* A block that is not in the index is asked for twice: through its header *)
(* and, because "already handled" has no else, directly.                   *)
InvOne(p, last, r, b) ==
  LET n == IF r.n.prefer THEN UpdateBlockAvailability(r.n, b, index, cwork) ELSE r.n
      more == IF \E q \in Block : orphan[q] = b
              THEN PushGetBlocks(p, n, best, OrphanRoot(b, orphan))
              ELSE IF b = last THEN PushGetBlocks(p, n, b, None)
              ELSE [n |-> n, out |-> <<>>] IN
  IF b \notin index THEN
    [n |-> [n EXCEPT !.ask = @ \cup {b}],
     out |-> r.out \o IF n.prefer THEN GetHeaders(p, LocatorTip, b) ELSE <<>>]
  ELSE [n |-> more.n, out |-> r.out \o more.out]
InvAll(p, s) ==
  FoldLeft(LAMBDA r, b : InvOne(p, Last(s), r, b), [n |-> node[p], out |-> <<>>], s)
HandleInv(p) ==
  LET r == InvAll(p, Head(inbox[p]).blocks) IN
  /\ Received(p, "inv")
  /\ node' = [node EXCEPT ![p] = r.n]
  /\ Answered(p, r.out)
  /\ SentHeaders(p, r.out)
  /\ UNCHANGED <<vars, bestHeader, scanning, ptip, breaks>>

(* The best known header when b, with work w, enters the index.            *)
BestHeader(h, work, b, w) == IF h = None \/ work[h] < w THEN b ELSE h

(* core_AcceptBlockHeader for one header of several; those after one that  *)
(* is refused are not looked at (ProcessNewBlockHeaders).                  *)
AcceptHeader(r, b) ==
  LET w == r.cwork[Prev[b]] + Work[b] IN
  IF ~r.ok \/ "failed" \in status[IF b \in r.index THEN b ELSE Prev[b]]
  THEN [r EXCEPT !.ok = FALSE]
  ELSE IF b \in r.index THEN r
  ELSE [ok |-> TRUE,
        index |-> r.index \cup {b},
        pprev |-> [r.pprev EXCEPT ![b] = Prev[b]],
        cwork |-> [r.cwork EXCEPT ![b] = w],
        top |-> BestHeader(r.top, r.cwork, b, w)]
ProcessNewBlockHeaders(s) ==
  FoldLeft(AcceptHeader,
           [ok |-> TRUE, index |-> index, pprev |-> pprev, cwork |-> cwork, top |-> bestHeader],
           s)

HandleHeaders(p) ==
  LET s == Head(inbox[p]).blocks
      Known(idx, work) == UpdateBlockAvailability(node[p], Last(s), idx, work)
      Ask(out) == Answered(p, out) /\ SentHeaders(p, out) IN
  /\ Received(p, "headers")
  /\ IF Prev[s[1]] \notin index
     THEN /\ IF Len(s) < MaxAnnounce
             THEN /\ node' = [node EXCEPT ![p] = Known(index, cwork)]
                  /\ Ask(GetHeaders(p, LocatorTip, None))
             ELSE Ask(<<>>) /\ UNCHANGED node
          /\ UNCHANGED <<vars, bestHeader, scanning>>
     ELSE \E r \in {ProcessNewBlockHeaders(s)} :
          /\ index' = r.index
          /\ pprev' = r.pprev
          /\ cwork' = r.cwork
          /\ bestHeader' = r.top
          /\ IF r.ok
             THEN /\ node' = [node EXCEPT ![p] = Known(r.index, r.cwork)]
                  /\ scanning' = TRUE
                  /\ Ask(IF Len(s) = MaxHeaders THEN GetHeaders(p, Last(s), None) ELSE <<>>)
             ELSE Ask(<<>>) /\ UNCHANGED <<node, scanning>>
          /\ UNCHANGED <<pnext, status, best, bestWork, orphan, scan, job, disk, crashes, torn>>
  /\ UNCHANGED <<ptip, breaks>>

Refused(b) ==
  /\ Prev[b] \in index
  /\ ~CheckTransactionInputs(b) \/ ~HeaderOk(b) \/ "data" \in status[b]
HeaderWith(b) ==
  IF b \in index THEN bestHeader ELSE BestHeader(bestHeader, cwork, b, ChainWork(b))
(* core_CommitBlock went to its end because a block could not be read.     *)
Abandoned == job' = NoJob /\ bestWork' # bestWork

HandleBlock(p) ==
  LET b == Head(inbox[p]).blocks[1]
      more == PushGetBlocks(p, node[p], best, OrphanRoot(b, orphan')) IN
  /\ Received(p, "block")
  /\ \/ /\ Refused(b)
        /\ Answered(p, <<>>)
        /\ UNCHANGED <<vars, bestHeader, scanning, node>>
     \/ /\ AddOrphanBlock(b)
        /\ node' = [node EXCEPT ![p] = more.n]
        /\ scanning' = (scanning \/ Height[best] > 0)
        /\ Answered(p, more.out)
        /\ UNCHANGED bestHeader
     \/ /\ AcceptInvalid(b)
        /\ bestHeader' = IF HeaderWith(b) = b THEN None ELSE HeaderWith(b)
        /\ Answered(p, <<>>)
        /\ UNCHANGED <<scanning, node>>
     \/ /\ AcceptSide(b)
        /\ bestHeader' = HeaderWith(b)
        /\ scanning' = TRUE
        /\ Answered(p, <<>>)
        /\ UNCHANGED node
     \/ /\ AcceptBest(b)
        /\ bestHeader' = IF Abandoned THEN best ELSE HeaderWith(b)
        /\ Answered(p, <<>>)
        /\ UNCHANGED <<scanning, node>>
  /\ UNCHANGED <<ptip, psent, breaks>>

-----------------------------------------------------------------------------
(* What the service asks for by itself.                                    *)

(* FindNextBlocksToDownload: the blocks of the peer above the fork that    *)
(* are neither stored nor archived, inside a window, in order; nothing     *)
(* when one on the way is invalid.                                         *)
Ahead(n) == IF n.known = None THEN <<>> ELSE ByHeight[Branch(n.known) \ MainChain]
ToDownload(ahead) ==
  LET Window(k) == SubSeq(ahead, 1, Min({k, Len(ahead)}))
      missing == ByHeight[{b \in ToSet(Window(MaxBatch)) : status[b] \cap {"data", "undo"} = {}}]
      seen == IF Len(missing) = MaxBatch THEN missing ELSE Window(MaxBatch + 1)
  IN IF \E b \in ToSet(seen) : "failed" \in status[b] THEN <<>> ELSE missing

(* ServiceBlockGetDataEvent; the blocks to ask for, if any.                *)
Wanted_Once(n, ahead) == IF n.lastBlock # None THEN <<>> ELSE ToDownload(ahead)
Wanted(n, ahead) ==
  IF ahead = <<>> \/ cwork[n.known] < cwork[best] THEN <<>>
  ELSE LET s == ToDownload(ahead) IN IF n.lastBlock \in ToSet(s) THEN <<>> ELSE s

(* ServiceBlockHeadersEvent.                                               *)
WantsHeaders(n) ==
  /\ n.known = None \/ n.known # bestHeader
  /\ n.lastHeader # LocatorTip

ServiceBlockEvent(p) ==
  /\ Rest
  /\ scanning
  /\ node[p].version /\ node[p].prefer
  /\ \E n \in {ProcessBlockAvailability(node[p], index, cwork)} :
     \E ahead \in {Ahead(n)} : \E s \in {Wanted(n, ahead)} :
       LET out == IF s # <<>> THEN GetData(p, ToSet(s))
                  ELSE IF WantsHeaders(n) THEN GetHeaders(p, LocatorTip, None) ELSE <<>> IN
       /\ node' = [node EXCEPT ![p] =
            IF s # <<>> THEN [n EXCEPT !.lastBlock = Last(s)]
            ELSE IF WantsHeaders(n) THEN [n EXCEPT !.lastHeader = LocatorTip] ELSE n]
       /\ inbox' = [inbox EXCEPT ![p] = @ \o out]
       /\ SentHeaders(p, out)
  /\ UNCHANGED <<vars, bestHeader, scanning, ptip, breaks>>

(* The end of shc_SendMessages: what AskFor has queued and is not in the   *)
(* index by then.                                                          *)
SendAskFor(p, b) ==
  /\ Rest
  /\ b \in node[p].ask
  /\ node' = [node EXCEPT ![p].ask = @ \ {b}]
  /\ inbox' = [inbox EXCEPT ![p] = @ \o IF b \in index THEN <<>> ELSE GetData(p, {b})]
  /\ UNCHANGED <<vars, bestHeader, scanning, ptip, psent, breaks>>

(* A connection breaks and is made again: a new CNode.                     *)
Reconnect(p) ==
  /\ Rest
  /\ breaks + crashes < MaxBreak
  /\ breaks' = breaks + 1
  /\ node' = [node EXCEPT ![p] = NewNode]
  /\ inbox' = [inbox EXCEPT ![p] = Handshake(p)]
  /\ psent' = [psent EXCEPT ![p] = None]
  /\ UNCHANGED <<vars, bestHeader, scanning, ptip>>

(* The steps of a commit; its end sets the best header and, when it was    *)
(* successful, ServiceBlockEventUpdate the height to reach.                *)
SyncCommit ==
  /\ CommitStep
  /\ bestHeader' = IF job' = NoJob /\ Reestablish THEN job.last ELSE bestHeader
  /\ scanning' = (scanning \/ (job' = NoJob /\ job.fail = None))
  /\ UNCHANGED <<node, inbox, ptip, psent, breaks>>

SyncRestart ==
  /\ Restart
  /\ bestHeader' = None
  /\ scanning' = FALSE
  /\ node' = [p \in Peer |-> NewNode]
  /\ inbox' = [p \in Peer |-> Handshake(p)]
  /\ psent' = [p \in Peer |-> None]
  /\ UNCHANGED <<ptip, breaks>>

SyncInit ==
  /\ Init
  /\ bestHeader = None
  /\ scanning = FALSE
  /\ node = [p \in Peer |-> NewNode]
  /\ ptip = FirstTip
  /\ inbox = [p \in Peer |-> Handshake(p)]
  /\ psent = [p \in Peer |-> None]
  /\ breaks = 0

Handle(p) ==
  HandleVersion(p) \/ HandleSendHeaders(p) \/ HandleInv(p) \/ HandleHeaders(p) \/ HandleBlock(p)

SyncNext ==
  \/ SyncCommit
  \/ SyncRestart
  \/ \E p \in Peer :
       \/ Handle(p) \/ ServiceBlockEvent(p) \/ Reconnect(p)
       \/ \E b \in Block : SendAskFor(p, b) \/ (b # Genesis /\ PeerGrow(p, b))

(* The event loop of the coin reads every socket and runs the block event  *)
(* for the peers in turn.                                                  *)
SyncSpec ==
  /\ SyncInit
  /\ [][SyncNext]_allVars
  /\ WF_allVars(SyncCommit)
  /\ \A p \in Peer :
       /\ WF_allVars(Handle(p))
       /\ WF_allVars(ServiceBlockEvent(p))
       /\ WF_allVars(\E b \in Block : SendAskFor(p, b))
-----------------------------------------------------------------------------
(* What the service remembers of headers and of the blocks of its peers is *)
(* in its index: pindexBestHeader and the pointers of a CNode do not lead  *)
(* to blocks it has not accepted.                                          *)
SyncTypeOK ==
  /\ bestHeader \in index \cup {None}
  /\ scanning \in BOOLEAN
  /\ \A p \in Peer :
       /\ {node[p].known, node[p].lastHeader, node[p].lastBlock} \subseteq index \cup {None}
       /\ node[p].unknown \in Block \cup {None}
       /\ node[p].ask \subseteq Block
  /\ ptip \in [Peer -> Block]
  /\ psent \in [Peer -> Block \cup {None}]

(* What the service believes of a peer and asks it for, the peer has, also *)
(* after connections broke and while several peers announce different      *)
(* branches: no request goes to a peer that cannot answer it.              *)
KnownHeld ==
  \A p \in Peer : {node[p].known, node[p].lastBlock} \subseteq ChainOf[ptip[p]] \cup {None}

(* What a peer has let the service know of, and, as long as no connection  *)
(* broke, its best block.                                                  *)
Claimed(p) == ({node[p].known} \ {None}) \cup IF breaks = 0 THEN {ptip[p]} ELSE {}
Better == [b \in Block |-> {t \in Valid : Total[t] > Total[b]}]
Behind(t) == t \in Better[best]

(* The service ends up with every block of the better chains of its peers, *)
(* whatever is announced when, after restarts and failed blocks, and       *)
(* although a request that was made is not repeated (chain.cpp:790,        *)
(* "already asked for block", and :863, "suppress duplicate request").     *)
AllFetched ==
  <>[](torn \/ \A p \in Peer : \A t \in Claimed(p) :
         Behind(t) => \A b \in ChainOf[t] : Readable(b))

(* The service ends up on a chain with as much work as that of any peer:   *)
(* its chain is "the longest block chain" (rpc_parse.cpp:534).             *)
Follows == <>[](torn \/ \A p \in Peer : \A t \in Claimed(p) : ~Behind(t))

(* It does when no block arrives between the header and the data of its    *)
(* predecessor.                                                            *)
NoneOvertakes ==
  [](\A p \in Peer :
       inbox[p] # <<>> /\ Head(inbox[p]).kind = "block" =>
         LET b == Head(inbox[p]).blocks[1]
         IN Prev[b] \in index => status[Prev[b]] # {})
FollowsInOrder == NoneOvertakes => Follows

(* The same after connections broke: "the service will automatically       *)
(* download the remainder of the blocks from peer nodes"                   *)
(* (REBUILD_CHAIN.txt:9).                                                  *)
Downloads == <>[](torn \/ \A p \in Peer : ~Behind(ptip[p]))
=============================================================================
