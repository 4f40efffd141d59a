\* One goroutine, so that nothing is tracked while Close runs.
SPECIFICATION FairSpec
CONSTANTS
  c1 = c1
  c2 = c2
  flusher = flusher
  noCaller = noCaller
  Callers = {c1}
  Flusher = flusher
  NoCaller = noCaller
  BatchSize = 1
  Capacity = 2
  MaxAttempts = 1
  SecureTransport = TRUE
  MaxEvents = 2
PROPERTY CloseFlushesRemaining
