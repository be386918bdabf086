\* Two full builds at once, and the one name .building.
SPECIFICATION WarehouseSpec
CONSTANTS
  b1 = b1  b2 = b2  r1 = r1  f1 = f1  f2 = f2  f3 = f3  f4 = f4
  Builder <- MCBuilder
  Reader <- MCReader
  Table <- MCTable
  File <- MCFile
  NoDb = NoDb
  Kinds <- TwoFull
  MaxVersion = 2
SYMMETRY Symmetry
INVARIANT WarehouseIsFinished
