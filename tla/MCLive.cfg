SPECIFICATION MCFairSpec
CONSTANTS
  Client = {c1, c2}
  OrderId = {o1, o2, o3}
  BuyHead = BuyHead
  SellHead = SellHead
  BookMutex = BookMutex
  Nil = Nil
  Spare = o3
  Offer <- LadderOrTrio
  Ticks <- Strict
  Modulus = 64
  MaxCancels = 2
INVARIANTS SizesAddUp
PROPERTIES CommandsComplete
