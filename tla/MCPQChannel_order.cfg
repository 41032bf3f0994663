SPECIFICATION Spec
CONSTANTS
  Clips = FALSE
  Persists = TRUE
  MaxSeq = 3
  Uses <- OrderUses
INVARIANTS
  TypeOK
  NothingDropped
PROPERTIES
  IsSequenced
\* The application may have nothing more to send.
CHECK_DEADLOCK FALSE
