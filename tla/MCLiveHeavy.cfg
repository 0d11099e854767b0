SPECIFICATION FairSpec
CONSTANTS
  Client = {c1, c2}
  OrderId = {o1, o2, o3, o4}
  BuyHead = BuyHead
  SellHead = SellHead
  BookMutex = BookMutex
  Nil = Nil
  Spare = o4
  Offer <- Heavy
  Ticks <- Strict
  Modulus = 8
  MaxCancels = 0
PROPERTIES CommandsComplete
CHECK_DEADLOCK FALSE
