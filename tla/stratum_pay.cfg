CONSTANTS
  a = a  c1 = c1  b1 = b1  b2 = b2
  None = None
  Sys = Sys
  Session = {s1, s2}
  Worker = {w1, w2}
  Account <- MCAccount
  Known = {a}
  MaxUsers = 2
  Coin <- MCCoin
  Mine = {b1, b2}
  CoinOf <- MCCoinOf
  Reward <- MCReward
  Fee <- MCFee
  ShareDiff = 6
  MinReward = 1
  MinBalance = 1
  MinFee = 0
  Before <- MCBefore
  MaxShares = 6
  MaxRestart = 1
SPECIFICATION Spec
SYMMETRY MCSymmetry
INVARIANT StratumTypeOK
INVARIANT OpenListed
INVARIANT PaidFromRewards
