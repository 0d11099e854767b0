SPECIFICATION Spec
CONSTANTS
  Thread = {t1, t2}
  OrderId = {o1, o2}
  t1 = t1 t2 = t2 o1 = o1 o2 = o2
  Nil = Nil
  Count <- MCCount
  Plans <- TwiceCancelled
INVARIANTS VerdictOnAllOutput
