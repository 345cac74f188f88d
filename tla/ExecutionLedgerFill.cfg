SPECIFICATION FairSpec
CONSTANTS
  k1 = k1 kc = kc entry = entry leg = leg close = close tws = tws
  b1 = b1 b2 = b2 s1 = s1 s2 = s2 x1 = x1 f1 = f1
  Orders = {entry}
  Execs = {b1, b2}
  OwnerOf <- OwnerOfDef
  KindOf <- KindOfDef
  OrderOf <- OrderOfDef
  TargetOf <- TargetOfDef
  None = None
PROPERTIES
  FillNoticed
