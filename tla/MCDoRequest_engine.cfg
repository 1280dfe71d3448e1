\* Every combination of hooks and options; RetryFunc agrees three times.
SPECIFICATION Spec
CONSTANTS
  DefaultMaxBackoffRetries = 2
  MaxBackoffs = {0, 1}
  RetryLimit = 4
INVARIANTS
  RemediesBounded
  BodiesClosed
  RefreshedAttemptIsWhole
  RetryFuncHasLastWord
