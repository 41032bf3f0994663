SPECIFICATION Spec
CONSTANTS
  Profiles <- MCProfiles
  MaxQty = 3
  MaxRequests = 3
  MaxEvents = 1
INVARIANTS
  TypeOK
  Agrees
  Orderly
