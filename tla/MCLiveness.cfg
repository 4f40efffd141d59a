\* Two goroutines that may both call Close, under scheduling fairness only.
SPECIFICATION FairSpec
CONSTANTS
  c1 = c1
  c2 = c2
  flusher = flusher
  noCaller = noCaller
  Callers = {c1, c2}
  Flusher = flusher
  NoCaller = noCaller
  BatchSize = 2
  Capacity = 2
  MaxAttempts = 2
  SecureTransport = TRUE
  MaxEvents = 2
PROPERTIES CallsReturn FlusherEnds EventuallySettled
