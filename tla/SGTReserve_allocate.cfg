SPECIFICATION FairSpec
CONSTANTS
  Unit = {u1, u2}
  NoBill = NoBill
  Bill <- ReserveBills
  MaxTime = 2
  MaxPayments = 2
INVARIANTS CoinsPartition SalesPaid
PROPERTIES LockedForItsBill SalesEnd
