-------------------------------- MODULE Stratum --------------------------------
(***************************************************************************)
(* The sessions and payouts of the stratum service: miners connect, name   *)
(* their worker, submit shares, lose the connection and come back; the     *)
(* timer frees old sessions, hands out tasks, divides the reward of each   *)
(* block that the wallet has as mature among the workers and sends what    *)
(* they are due.                                                           *)
(*                                                                         *)
(* Amounts are in the unit that payments are rounded down to, a thousandth *)
(* of a coin; the six hourly averages of a session's shares are one.  The  *)
(* sockets belong to the network thread; everything else is done by the    *)
(* timer, which reads requests, frees sessions and generates work in turn. *)
(***************************************************************************)
EXTENDS Naturals, FiniteSetsExt, SequencesExt

CONSTANTS
  Session,    \* the allocations a session can have
  Sys,        \* the session of the server itself, "system.anonymous"
  Worker,     \* the names that miners give
  Account,    \* the account that is paid for each worker
  Known,      \* the accounts that have a miner address in the wallet
  MaxUsers,   \* MAX_STRATUM_USERS
  Coin,       \* the coin services, in the order of their index
  Mine,       \* the blocks that miners of this node find
  CoinOf,     \* the coin of each
  Reward,     \* what it is worth
  Fee,        \* the part of it that is kept, a thousandth
  ShareDiff,  \* the difficulty of a share that solves a block
  MinReward,  \* one coin, the least that is divided
  MinBalance, \* the balance that makes a payout worth while
  MinFee,     \* min_tx_fee
  Before,     \* the coinbases that are in the wallet when the service starts
  MaxShares,  \* bound on the shares of one round
  MaxRestart, \* bound on restarts
  None

VARIABLES
  list,    \* client_list
  user,    \* the fields of each session
  conn,    \* the sessions whose socket is open (fd # -1)
  sys,     \* sys_user has been made
  mined,   \* the coinbases in the wallet, oldest first
  mature,  \* those that GetAmounts has as mature
  lastPayout, \* last_payout_hash of each coin
  fund,    \* the balance of the main account, of each coin
  paid,    \* what has been sent to miners, of each coin
  news,    \* the coins whose blk_stamp is not commit_stamp
  mining,  \* attr.ifaceIndex
  restarts

vars == <<list, user, conn, sys, mined, mature, lastPayout, fund, paid,
          news, mining, restarts>>

Coins == ToSet(Coin)
Accounts == {Account[w] : w \in Worker}

ASSUME StratumAssumption ==
  /\ Sys \notin Session
  /\ Account \in [Worker -> Accounts]
  /\ Coin \in Seq(Coins) /\ IsInjective(Coin)
  /\ CoinOf \in [Mine -> Coins]
  /\ Reward \in [Mine -> Nat]
  /\ Before \in Seq(Mine) /\ IsInjective(Before)
  /\ Known \subseteq Accounts /\ IsFiniteSet(Known)
  /\ IsFiniteSet(Mine)
  /\ Fee \in [Mine -> Nat] /\ \A b \in Mine : Fee[b] <= Reward[b]
  /\ {MaxUsers, ShareDiff, MinReward, MinBalance, MinFee} \subseteq Nat
  /\ {MaxShares, MaxRestart} \subseteq Nat

(* stratum_user_init.                                                      *)
NewUser == [worker |-> None, fresh |-> FALSE, tot |-> 0, avg |-> 0,
            bal |-> [c \in Coins |-> 0]]

-----------------------------------------------------------------------------
(* Sessions.                                                               *)

Accept(s) ==
  /\ s \notin conn \cup ToSet(list)
  /\ conn' = conn \cup {s}
  /\ list' = <<s>> \o list
  /\ user' = [user EXCEPT ![s] = NewUser]
  /\ UNCHANGED <<sys, mined, mature, lastPayout, fund, paid, news, mining, restarts>>

Close(s) ==
  /\ s \in conn
  /\ conn' = conn \ {s}
  /\ UNCHANGED <<list, user, sys, mined, mature, lastPayout, fund, paid, news,
                 mining, restarts>>

(* merge_idle_worker: a worker that comes back takes over what its idle    *)
(* sessions have, and these are freed next.                                *)
Idle(s, w) == {t \in ToSet(list) \ {s, Sys} : t \notin conn /\ user[t].worker = w}
Both(s, u, t) ==
  [u[s] EXCEPT !.avg = @ + u[t].avg, !.tot = @ + u[t].tot,
               !.bal = [c \in Coins |-> u[s].bal[c] + u[t].bal[c]]]
TakeOver_Copy(s, u, t) ==
  [u EXCEPT ![s] = Both(s, u, t), ![t].fresh = FALSE]
TakeOver(s, u, t) ==
  [u EXCEPT ![s] = Both(s, u, t),
            ![t] = [u[t] EXCEPT !.avg = 0, !.tot = 0, !.fresh = FALSE,
                                !.bal = [c \in Coins |-> 0]]]
Merge(s, w) ==
  FoldLeft(LAMBDA u, t : TakeOver(s, u, t), [user EXCEPT ![s].worker = w],
           SetToSeq(Idle(s, w)))

(* stratum_user, which refuses a name when too many sessions of the same   *)
(* address, possibly all, are connected.                                   *)
Named(s, w) ==
  {Merge(s, w)} \cup IF Cardinality(conn) >= MaxUsers THEN {user} ELSE {}

(* The timer reads a request of an open session on the list.               *)
Request(s) ==
  /\ s \in conn \cap ToSet(list)
  /\ UNCHANGED <<list, conn, sys, lastPayout, paid, news, mining, restarts>>

Authorize(s, w) ==
  /\ Request(s)
  /\ user' \in Named(s, w)
  /\ UNCHANGED <<mined, mature, fund>>

RoundShares == SumFunction([t \in DOMAIN user |-> user[t].tot])

(* stratum_validate_submit of a share that solves a block, which is then   *)
(* accepted or, when another was faster, is not; a share that does not     *)
(* solve one has the difficulty 0.                                         *)
Submit(s, w, found) ==
  /\ Request(s)
  /\ RoundShares + ShareDiff <= MaxShares
  /\ found \subseteq Mine \ ToSet(mined) /\ Cardinality(found) <= 1
  /\ \E u \in Named(s, w) : user' = [u EXCEPT ![s].tot = @ + ShareDiff]
  /\ mined' = mined \o SetToSeq(found)
  /\ UNCHANGED <<mature, fund>>

-----------------------------------------------------------------------------
(* stratum_close_free.  peer_last is the last session that is open: when   *)
(* one that is freed follows others that are not, these leave the list     *)
(* with it.  What the server has for itself it keeps.                      *)
CloseFree_NoLast(l) ==
  LET Keep(r, s) == IF s \in conn \cup {Sys} \/ user[s].fresh THEN Append(r, s) ELSE <<>>
  IN FoldLeft(Keep, <<>>, l)
Visit(r, s) ==
  IF s \in conn THEN [kept |-> r.kept \o r.skipped \o <<s>>, skipped |-> <<>>]
  ELSE IF s = Sys \/ user[s].fresh THEN [r EXCEPT !.skipped = Append(@, s)]
  ELSE [r EXCEPT !.skipped = <<>>]
CloseFree(l) ==
  LET r == FoldLeft(Visit, [kept |-> <<>>, skipped |-> <<>>], l)
  IN r.kept \o r.skipped

FreeSessions ==
  /\ list' = CloseFree(list)
  /\ user' = [s \in Session \cup {Sys} |->
               IF s \in ToSet(list') \cup {Sys} THEN user[s] ELSE NewUser]
  /\ UNCHANGED <<conn, sys, mined, mature, lastPayout, fund, paid, news, mining, restarts>>

-----------------------------------------------------------------------------
(* Payouts.  The functions work on a record of what they change.           *)

Now == [user |-> user, last |-> lastPayout, fund |-> fund, paid |-> paid]

(* stratum_miner_lastminerblock.                                           *)
LastMinerBlock(c) ==
  LET at == {i \in DOMAIN mined : mined[i] \in mature /\ CoinOf[mined[i]] = c}
  IN IF at = {} THEN None ELSE mined[Max(at)]

Shares(r) == SumFunction([s \in ToSet(list) |-> r.user[s].avg])

(* check_payout: the first block after a start was seen before it.         *)
Share(r, b, s) == ((Reward[b] - Fee[b]) * r.user[s].avg) \div Max({1, Shares(r)})
Divided(r, c, b) ==
  [r EXCEPT !.user = [s \in DOMAIN r.user |->
     IF s \notin ToSet(list) \ {Sys} \/ r.user[s].worker = None THEN r.user[s]
     ELSE [r.user[s] EXCEPT !.bal[c] = @ + Share(r, b, s)]]]
CheckPayout(c, r) ==
  LET b == LastMinerBlock(c)
      seen == [r EXCEPT !.last[c] = b] IN
  IF b = None \/ b = r.last[c] THEN r
  ELSE IF r.last[c] = None \/ Reward[b] < MinReward THEN seen
  ELSE Divided(seen, c, b)

(* commit_payout: when one worker with enough of a balance has waited for  *)
(* an hour, or has ten times its average, everyone is paid.  pay says      *)
(* whether one has and, if so, whether the wallet can make the payment.    *)
Due(c, r) ==
  \E s \in ToSet(list) \ {Sys} : r.user[s].worker # None /\ r.user[s].bal[c] >= MinBalance

(* addblockreward, into the queue vecRewardSend, while left, the balance   *)
(* of the main account, suffices: sendblockreward empties it.              *)
AddReward(c, q, s) ==
  LET u == q.user[s] IN
  IF s = Sys \/ u.worker = None \/ u.bal[c] <= MinFee \/ u.bal[c] >= q.left THEN q
  ELSE [q EXCEPT !.user[s].bal[c] = 0, !.left = @ - u.bal[c],
                 !.queue[Account[u.worker]] = @ + u.bal[c]]

(* sendblockreward pays the accounts that have a miner address, forgets    *)
(* what the others have, and what a payment that fails was for.            *)
SendReward(c, r, queue, pay) ==
  LET sent == IF pay = "sent" THEN SumFunctionOnSet(queue, Known) ELSE 0
  IN [r EXCEPT !.fund[c] = @ - sent, !.paid[c] = @ + sent]

CommitPayout(c, r, pay) ==
  LET all == FoldLeft(LAMBDA q, s : AddReward(c, q, s),
                      [user |-> r.user, left |-> r.fund[c],
                       queue |-> [a \in Accounts |-> 0]], list)
  IN IF pay = "none" \/ ~Due(c, r) THEN r
     ELSE SendReward(c, [r EXCEPT !.user = all.user], all.queue, pay)

(* task_init for a new block of a coin.  Payouts are looked at when the    *)
(* coin that is mined has one, for every coin that had one since.          *)
PayCoin(S, pay, r, c) ==
  IF c \in S THEN CommitPayout(c, CheckPayout(c, r), pay) ELSE r
Pay(S, pay, r) == FoldLeft(LAMBDA q, c : PayCoin(S, pay, q, c), r, Coin)

NewBlock(c, pay) ==
  LET reset == mining = c
      r == IF reset THEN Pay(news \cup {c}, pay, Now) ELSE Now IN
  /\ mining # None
  /\ pay # "none" => reset
  /\ user' = r.user /\ lastPayout' = r.last
  /\ fund' = r.fund /\ paid' = r.paid
  /\ news' = IF reset THEN {} ELSE news \cup {c}
  /\ IF reset THEN mining' \in Coins ELSE UNCHANGED mining
  /\ UNCHANGED <<list, conn, sys, mined, mature, restarts>>

(* The first work chooses the coin to mine.                                *)
FirstWork ==
  /\ mining = None
  /\ mining' \in Coins
  /\ UNCHANGED <<list, user, conn, sys, mined, mature, lastPayout, fund, paid, news,
                 restarts>>

(* stratum_user_broadcast_task, for a session that has subscribed and      *)
(* takes the task.                                                         *)
SendTask(s) ==
  /\ s \in conn \cap ToSet(list)
  /\ mining # None
  /\ user' = [user EXCEPT ![s].fresh = TRUE]
  /\ UNCHANGED <<list, conn, sys, mined, mature, lastPayout, fund, paid, news, mining,
                 restarts>>

(* stratum_round_reset: the average takes in the shares of the round.      *)
RoundReset(u, S) ==
  [s \in DOMAIN u |->
     IF s \notin S \/ u[s].worker = None THEN u[s]
     ELSE [u[s] EXCEPT !.avg = (@ + 2 * u[s].tot) \div 3, !.tot = 0]]

(* stratum_task_work: the server makes a session for itself, ends the      *)
(* round every ten minutes and tries the task, which may give it a share.  *)
TaskWork_NewSys(round, share, found) ==
  LET l == <<Sys>> \o list
      u == IF sys THEN user ELSE [user EXCEPT ![Sys].worker = Sys]
      v == IF round THEN RoundReset(u, ToSet(l)) ELSE u IN
  /\ mining # None
  /\ found \subseteq Mine \ ToSet(mined) /\ Cardinality(found) <= share
  /\ RoundShares + share * ShareDiff <= MaxShares
  /\ sys' = TRUE
  /\ list' = l
  /\ user' = [v EXCEPT ![Sys].tot = @ + share * ShareDiff]
  /\ mined' = mined \o SetToSeq(found)
  /\ UNCHANGED <<conn, mature, lastPayout, fund, paid, news, mining, restarts>>
TaskWork(round, share, found) ==
  LET l == IF sys THEN list ELSE <<Sys>> \o list
      u == IF sys THEN user ELSE [user EXCEPT ![Sys].worker = Sys]
      v == IF round THEN RoundReset(u, ToSet(l)) ELSE u IN
  /\ mining # None
  /\ found \subseteq Mine \ ToSet(mined) /\ Cardinality(found) <= share
  /\ RoundShares + share * ShareDiff <= MaxShares
  /\ sys' = TRUE
  /\ list' = l
  /\ user' = [v EXCEPT ![Sys].tot = @ + share * ShareDiff]
  /\ mined' = mined \o SetToSeq(found)
  /\ UNCHANGED <<conn, mature, lastPayout, fund, paid, news, mining, restarts>>

-----------------------------------------------------------------------------
(* A coinbase becomes mature, or its block leaves the chain before.        *)
Matures(b) ==
  /\ b \in ToSet(mined) \ mature
  /\ mature' = mature \cup {b}
  /\ fund' = [fund EXCEPT ![CoinOf[b]] = @ + Reward[b]]
  /\ UNCHANGED <<list, user, conn, sys, mined, lastPayout, paid, news, mining, restarts>>

(* Fifty minutes have passed since the last task of a session.             *)
Ages(s) ==
  /\ user[s].fresh /\ s \notin conn
  /\ user' = [user EXCEPT ![s].fresh = FALSE]
  /\ UNCHANGED <<list, conn, sys, mined, mature, lastPayout, fund, paid, news, mining,
                 restarts>>

(* The sessions and everything that is owed are in memory only.            *)
Restart ==
  /\ restarts < MaxRestart
  /\ restarts' = restarts + 1
  /\ list' = <<>> /\ conn' = {} /\ sys' = FALSE
  /\ user' = [s \in Session \cup {Sys} |-> NewUser]
  /\ lastPayout' = [c \in Coins |-> None]
  /\ news' = {} /\ mining' = None
  /\ UNCHANGED <<mined, mature, fund, paid>>

Earned(c) == SumFunctionOnSet(Reward, {b \in mature : CoinOf[b] = c})

Init ==
  /\ list = <<>> /\ conn = {} /\ sys = FALSE
  /\ user = [s \in Session \cup {Sys} |-> NewUser]
  /\ mined = Before /\ mature = ToSet(Before)
  /\ lastPayout = [c \in Coins |-> None]
  /\ fund = [c \in Coins |-> Earned(c)]
  /\ paid = [c \in Coins |-> 0]
  /\ news = {} /\ mining = None
  /\ restarts = 0

Next ==
  \/ \E s \in Session :
       \/ Accept(s) \/ Close(s) \/ SendTask(s) \/ Ages(s)
       \/ \E w \in Worker :
            Authorize(s, w) \/ \E found \in SUBSET Mine : Submit(s, w, found)
  \/ FreeSessions
  \/ \E c \in Coins : \E pay \in {"none", "sent", "failed"} : NewBlock(c, pay)
  \/ FirstWork
  \/ \E round \in BOOLEAN, share \in 0..1, found \in SUBSET Mine :
       TaskWork(round, share, found)
  \/ \E b \in Mine : Matures(b)
  \/ Restart

Spec == Init /\ [][Next]_vars
-----------------------------------------------------------------------------
(* No session is twice on the list and no coinbase twice in the wallet,    *)
(* sessions have the name of a worker or none, and balances do not become  *)
(* negative.                                                               *)
StratumTypeOK ==
  /\ list \in Seq(Session \cup {Sys}) /\ IsInjective(list)
  /\ conn \subseteq Session /\ sys \in BOOLEAN
  /\ user \in [Session \cup {Sys} ->
       [worker : Worker \cup {Sys, None}, fresh : BOOLEAN, tot : Nat, avg : Nat,
        bal : [Coins -> Nat]]]
  /\ mined \in Seq(Mine) /\ IsInjective(mined) /\ mature \subseteq ToSet(mined)
  /\ lastPayout \in [Coins -> Mine \cup {None}]
  /\ fund \in [Coins -> Nat] /\ paid \in [Coins -> Nat]
  /\ news \subseteq Coins /\ mining \in Coins \cup {None}
  /\ restarts \in 0..MaxRestart

(* Every miner that is connected is on the list and so gets its requests   *)
(* read and its tasks sent, whatever sessions are freed around it.         *)
OpenListed == conn \subseteq ToSet(list)

(* What the service has sent and still owes in a coin is never more than   *)
(* the blocks of that coin have brought, although workers come and go      *)
(* under one name and take over what their old sessions were owed, and a   *)
(* restart forgets which block was divided last.                           *)
Owed(c) == SumFunction([s \in ToSet(list) |-> user[s].bal[c]])
PaidFromRewards == \A c \in Coins : paid[c] + Owed(c) <= Earned(c)
=============================================================================
