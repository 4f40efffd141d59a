\* Two calls, the longest base key and one too long, one other administrator.
SPECIFICATION Spec
CONSTANTS
  p1 = p1
  p2 = p2
  Callers = {p1, p2}
  BaseKeys = {111, 112}
  OtherWrites = 1
  FaithfulProvider = FALSE
SYMMETRY CallerSymmetry
INVARIANTS TypeOK ConsecutiveRevisions ReceiptTruthful KeysLegal OnlyOthersBlock
PROPERTIES ImplementsProvision
