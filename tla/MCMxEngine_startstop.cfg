SPECIFICATION FairSpec
CONSTANTS
  link1 = link1
  link2 = link2
  Link = {link1, link2}
  LinkSeq <- TwoLinks
  Rx = rx
  Caller = {caller}
  Callback = {rx}
  MaxCalls = 4
  MaxFaults = 2
  AdminCalls = FALSE
PROPERTIES
  ReconnectStaysPending
PROPERTY CallsComplete
\* The engine may be left stopped or running for good: nobody has to call it.
CHECK_DEADLOCK FALSE
