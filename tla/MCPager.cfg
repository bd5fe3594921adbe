CONSTANTS
  conn1 = conn1  conn2 = conn2  proc1 = proc1  proc2 = proc2
  Conns = {conn1, conn2}
  Owner <- MCOwner
  Modes = {"persist", "delete", "truncate"}
  ExtraSync = FALSE
  Troubles = {"crash", "power", "io"}
  MaxPage = 2
  SizesIn <- MCSizes
  MaxTxn = 3
  TxnsIn <- MCTxns
  TroublesIn <- MCTroubles
  MaxSlot = 6
SPECIFICATION Spec
SYMMETRY Interchangeable
INVARIANTS
  TypeOK
  CacheIsCurrent
PROPERTIES
  ImplementsDatabase
