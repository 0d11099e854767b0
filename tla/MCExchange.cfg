SPECIFICATION MCSpec
CONSTANTS
  OrderId = {o1, o2, o3}
  Priority = "price-time"
  SortBy = "input"
  Modulus = 4
  Price <- MCPrice
  Count <- MCCount
  LineCount <- MCLineCount
  MaxLines = 5
SYMMETRY MCSymmetry
INVARIANTS TypeOK NotCrossed TradedWithinSize
PROPERTIES NoOvertaking
CHECK_DEADLOCK FALSE
