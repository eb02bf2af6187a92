\* Three requests, two of them from one address, each of any kind; two-factor is
\* off or on at the start. Bounds: two periods of the clock, two secrets, one
\* fault; an address is blocked by its first failure, a failure is old after
\* two periods, and the map overflows with its second address. The system may
\* stop: every request is served once.
SPECIFICATION Spec
CONSTANTS
  r1 = r1  r2 = r2  r3 = r3  x = x  y = y
  Req = {r1, r2, r3}
  AddressOf <- MCAddressOf
  None = None
  First = First
  Limit = 1
  Window = 2
  MapCap = 1
  MaxStep = 2
  MaxSecret = 2
  MaxFaults = 1
SYMMETRY Symmetry
CHECK_DEADLOCK FALSE
INVARIANTS
  TypeOK
  SessionsMeetFactor
PROPERTIES
  OneUse
  TurnsOnSpent
  BlockedStays
