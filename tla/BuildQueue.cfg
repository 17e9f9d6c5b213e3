CONSTANTS
  p1 = p1
  p2 = p2
  Requests = {1,2,3}
  Processes = {p1, p2}
  Owner <- Grouped
  Times = {1,2}
  Limits <- Capacities
  Changes = 1
  None = None
SPECIFICATION FairHistorySpec
INVARIANTS WorkloadHasSlot
PROPERTIES ReservationKept ImplementsSlots FinishIsProgress RequestsSettle
CHECK_DEADLOCK FALSE
