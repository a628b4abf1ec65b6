CONSTANTS
  u1 = u1
  g1 = g1
  g2 = g2
  c1 = c1
  c2 = c2
  p1 = p1
  Sellers <- MCSellers
  Goods <- MCGoods
  Consoles <- MCConsoles
  Phones <- MCPhones
  GoodMax = 1
  MaxApply = 2
  MaxRequests = 5
  MaxCrash = 1
SYMMETRY Symmetry
SPECIFICATION Spec
INVARIANT ButtonToggles
