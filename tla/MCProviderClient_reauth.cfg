\* Any three, and then all, of: two requests, a forced reauthentication, an application that
\* sets a token.
SPECIFICATION FairSpec
CONSTANTS
  Requests = {r1, r2}
  Forced = {f1}
  Setters = {s1}
  None = None
CONSTRAINT ThreeMeet
INVARIANTS
  LeaderOwnsOngoing
  SuccessReplacesToken
  NoLostWaiter
  TokenRenewedOnce
  HeldRequestUsesNewToken
PROPERTIES
  ImplementsSingleFlight
  EveryCallReturns
  CancelledWaiterLeaves
