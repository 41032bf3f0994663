SPECIFICATION FairSpec
CONSTANTS
  Clips = TRUE
  Persists = TRUE
  MaxSeq = 2
  Uses <- ResendUses
PROPERTY CatchesUp
\* The application may have nothing more to send.
CHECK_DEADLOCK FALSE
