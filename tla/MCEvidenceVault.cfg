SPECIFICATION Spec
CONSTANTS
  Workers = {w1, w2}
  Identities = {web}
  Keys = {k1, k2}
  Bodies = {b1, b2}
  Signatures = {s1}
  Nobody = Nobody
  NoKey = NoKey
  MaxRows = 2
  MaxIncidents = 1
SYMMETRY Symmetry
INVARIANTS
  ChainVerifies
  VaultInv
  CorruptionDetected
PROPERTIES
  PinsWriteOnce
  LogSpec
CHECK_DEADLOCK FALSE
