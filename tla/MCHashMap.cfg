SPECIFICATION FairSpec
CONSTANTS
  Proc = {p1, p2, p3}
  Key = {k1, k2}
  p1 = p1 p2 = p2 p3 = p3 k1 = k1 k2 = k2
  Nil = Nil
  GoPrograms <- MCGo
  CppPrograms <- Finite
  MaxCalls = 4
INVARIANTS TypeOK WritersAreAlone NobodyOnRemovedNode OneBookPerInstrument
PROPERTIES ImplementsAtomicMap CallsReturn
