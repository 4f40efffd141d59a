\* Two goroutines and the flusher, a batch of two, a queue of two, two
\* attempts: overlapping flushes, overflow during a flush, requeue into a full
\* queue, and Close against all of them.
SPECIFICATION Spec
CONSTANTS
  c1 = c1
  c2 = c2
  flusher = flusher
  noCaller = noCaller
  Callers = {c1, c2}
  Flusher = flusher
  NoCaller = noCaller
  BatchSize = 2
  Capacity = 2
  MaxAttempts = 2
  SecureTransport = TRUE
  MaxEvents = 3
SYMMETRY CallerSymmetry
INVARIANTS
  TypeOK
  NoEventLost
  OnePlace
  CapacityRespected
  AckedStored
  FlusherGoneBeforeLastFlush
  OldestFirst
  WaitsAreWellFounded
PROPERTIES
  FlushIsBounded
  DropsOldestWithoutOverlap
  ImplementsOutbox
