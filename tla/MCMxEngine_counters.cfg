SPECIFICATION Spec
CONSTANTS
  link1 = link1
  link2 = link2
  Link = {link1, link2}
  LinkSeq <- TwoLinks
  Rx = rx
  Caller = {caller}
  Callback = {rx, caller}
  MaxCalls = 3
  MaxFaults = 1
  AdminCalls = TRUE
INVARIANTS
  TypeOK
  CountersConserved
  ConnectionMatchesLink
PROPERTIES
  SettledWhenStarted
  SettledWhenStopped
\* The engine may be left stopped or running for good: nobody has to call it.
CHECK_DEADLOCK FALSE
