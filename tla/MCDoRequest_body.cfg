\* Whether a retried request has its body.
SPECIFICATION Spec
CONSTANTS
  DefaultMaxBackoffRetries = 2
  MaxBackoffs = {0, 1}
  RetryLimit = 4
INVARIANTS
  RetriedRequestCarriesBody
