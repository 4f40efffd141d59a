\* One caller that retries under one base key, nobody else writing.
SPECIFICATION FairSpec
CONSTANTS
  p1 = p1
  p2 = p2
  Callers = {p1}
  BaseKeys = {8}
  OtherWrites = 0
  FaithfulProvider = TRUE
PROPERTIES RetryConverges
