--------------------------- MODULE MCMxTOrderMgr ---------------------------
EXTENDS MxTOrderMgr

\* Left out is what the handlers cannot tell apart: a simulated modify whose
\* cancel is acknowledged before a fill, and messages that are both unasked and
\* out of order.
MCProfiles ==
  {p \in Profile : /\ p.simulated => "answer" \notin p.early
                   /\ p.unasked => p.early = {}}
=============================================================================
