CONSTANTS
  conn1 = conn1  conn2 = conn2  page1 = page1  page2 = page2
  Conns = {conn1, conn2}
  Writers = {conn1, conn2}
  Checkpointers = {conn1, conn2}
  Troubles = {"race"}
  NReader = 3
  Pages = {page1, page2}
  MaxFrame = 2
  MaxTxn = 2
  MaxTrouble = 1
SPECIFICATION Spec
SYMMETRY Interchangeable
INVARIANTS
  BackfillWithinLog
