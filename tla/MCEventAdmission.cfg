\* Every label map belongs to one event; structs are reused, corrected and tracked again.
SPECIFICATION Spec
CONSTANTS
  e1 = e1
  e2 = e2
  m1 = m1
  m2 = m2
  m3 = m3
  Envelopes = {e1, e2}
  LabelMaps = {m1, m2, m3}
  NoLabels = NoLabels
  ClientDefaults = {"", "preview", "reserved"}
  Declared = {"", "production", "reserved"}
  Capacity = 2
  BatchSize = 1
  MaxTracks = 3
  SharedMaps = FALSE
SYMMETRY Symmetric
VIEW Referenced
INVARIANTS TypeOK EnvironmentIsOwn OneIdentity RefusedCorrectable
PROPERTIES ImplementsSnapshots
CHECK_DEADLOCK FALSE
