SPECIFICATION OvertakeSpec
CONSTANTS
  Client = {c1, c2, c3}
  OrderId = {o1, o2, o3, o4, o5}
  BuyHead = BuyHead
  SellHead = SellHead
  BookMutex = BookMutex
  Nil = Nil
  Offer <- OvertakeOffers
  Ticks <- Strict
  Modulus = 64
  MaxCancels = 0
SYMMETRY MCSymmetry
INVARIANTS GraderAcceptsOutput
