SPECIFICATION GSpec
CONSTANTS
  Client = {c1, c2, c3}
  OrderId = {s1, s2, s3, s4, s5, b1, b2}
  CancelId = {x1, x2, x3, x4}
  c1 = c1 c2 = c2 c3 = c3 s1 = s1 s2 = s2 s3 = s3 s4 = s4 s5 = s5 b1 = b1 b2 = b2 x1 = x1 x2 = x2 x3 = x3 x4 = x4
  BuyHead = BuyHead
  SellHead = SellHead
  Nil = Nil
  Terms <- MCTerms
  About <- MCAbout
  Scripts <- MCScripts
  Modulus = 16
  Capacity = 2
INVARIANTS
  TypeOK LocksHaveOneUser NobodyOnUnlinkedLevel VolumeIsSum NothingIsLost
  BooksInOrder QuietBookIsWhole QuietBookIsPrinted
PROPERTIES ImplementsExchange EveryLineIsAllowed EverythingIsPrinted
