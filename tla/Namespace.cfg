SPECIFICATION Spec
CONSTANTS
  MaxIno = 4
  Names = {1, 2}
  Threads = {t1, t2}
  MaxLink = 2
  MaxOps = 3
  MaxCount = 2
  MaxCloud = 1
  MaxCrash = 1
  MaxUmount = 1
INVARIANTS TypeOK NamedLives NoLostDelete LinkCountExact ParentsExact RootStatExact
SYMMETRY Symmetry
CHECK_DEADLOCK FALSE
