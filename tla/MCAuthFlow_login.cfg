\* A login and two requests, or two logins and a request, with the types of options the package knows.
\* A deadlock would show as a call that never returns.
SPECIFICATION FairSpec
CONSTANTS
  Goroutines <- Three
  Jobs <- LoginsAndRequests
  Options <- KnownOptions
INVARIANTS
  AuthenticationTriedOnce
  ReauthTokenIsWhole
  ThrowawayIsExclusive
PROPERTIES
  EveryCallReturns
CHECK_DEADLOCK FALSE
