\* Overlapping flushes that fail in the order they were taken.
SPECIFICATION FairSpec
CONSTANTS
  c1 = c1
  c2 = c2
  flusher = flusher
  noCaller = noCaller
  Callers = {c1, c2}
  Flusher = flusher
  NoCaller = noCaller
  BatchSize = 1
  Capacity = 2
  MaxAttempts = 1
  SecureTransport = TRUE
  MaxEvents = 3
PROPERTY DropsOldest
