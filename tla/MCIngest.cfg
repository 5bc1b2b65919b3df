SPECIFICATION Spec
CONSTANTS
  iv = iv
  web = web
  k1 = k1
  k2 = k2
  Workers = {w1, w2}
  Identities = {web}
  Keys = {k1, k2}
  Nobody = Nobody
  NoKey = NoKey
  NoCategory = NoCategory
  Rules <- MCRules
  Categories <- MCCategories
  Uuids <- MCUuids
  WindowSize = 3
  Requests <- MCRequests
  REQUIRE_SIGNATURE = FALSE
  MaxRequests = 3
INVARIANTS
  TypeOK
  SignedUnderPin
  SeenIsRecorded
  IncidentsSound
  PublishedIsStored
PROPERTY Answered
CHECK_DEADLOCK FALSE
