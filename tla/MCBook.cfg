SPECIFICATION MCSpec
CONSTANTS
  Client = {c1, c2, c3}
  OrderId = {o1, o2, o3, o4}
  BuyHead = BuyHead
  SellHead = SellHead
  BookMutex = BookMutex
  Nil = Nil
  Offer <- LadderOrTrio
  Ticks <- Strict
  Modulus = 64
  MaxCancels = 1
SYMMETRY MCSymmetry
INVARIANTS BooksInOrder VolumeIsSum LocksFollowUse TradesFollowHistory QuietBookIsHistory TypeOK RestingIsRegistered CancelsFollowHistory
