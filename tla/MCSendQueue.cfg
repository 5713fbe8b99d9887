SPECIFICATION Spec
CONSTANTS
  Capacity = 3
  Depth = 2
  Keys = {k1, k2, k3}
  Resent = {k3}
  Payloads = {p1, p2}
  NULL = NULL
  MaxFlight = 2
INVARIANTS BackpressureExact WaitingIntact
PROPERTIES ItemsFifo
