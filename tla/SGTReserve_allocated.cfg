SPECIFICATION Spec
CONSTANTS
  Unit = {u1, u2}
  NoBill = NoBill
  Bill <- AllocationBills
  MaxTime = 2
  MaxPayments = 1
PROPERTIES LeavesOnlyExecuted
