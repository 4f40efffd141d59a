\* Imports of up to four facts against two facts or eight bytes a request: short facts fill a request by number, long ones by size.
SPECIFICATION FairSpec
CONSTANTS
  k1 = k1
  k2 = k2
  k3 = k3
  Keys = {k1, k2, k3}
  Refused = {k2}
  Lengths = {1, 3}
  MaxInput = 4
  Envelope = 2
  MaxFacts = 2
  MaxBytes = 8
INVARIANTS TypeOK RequestsBounded RequestsFull ResultsAligned AcceptedIsDurable CommittedInOrder
PROPERTIES ReplayCompletes ImplementsLedger
CHECK_DEADLOCK FALSE
