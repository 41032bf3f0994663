SPECIFICATION FairSpec
CONSTANTS
  a = a
  b = b
  Writer <- Both
  Blocking <- OnlyA
  N = 2
  Uses <- TwoUses
  NoItem = NoItem
INVARIANTS TypeOK EndMeansDrained
PROPERTIES IsFifo EveryoneWakes
CHECK_DEADLOCK FALSE
