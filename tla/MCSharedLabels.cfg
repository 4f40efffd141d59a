\* An application that gives several events the same label map.
SPECIFICATION Spec
CONSTANTS
  e1 = e1
  e2 = e2
  m1 = m1
  m2 = m2
  m3 = m3
  Envelopes = {e1, e2}
  LabelMaps = {m1, m2, m3}
  NoLabels = NoLabels
  ClientDefaults = {"", "preview", "reserved"}
  Declared = {"", "production", "reserved"}
  Capacity = 2
  BatchSize = 1
  MaxTracks = 3
  SharedMaps = TRUE
SYMMETRY Symmetric
VIEW Referenced
INVARIANTS EnvironmentIsOwn
CHECK_DEADLOCK FALSE
