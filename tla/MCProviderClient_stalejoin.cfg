\* The retry of a request that joined a skipped reauthentication.
SPECIFICATION Spec
CONSTANTS
  Requests = {r1, r2, r3}
  Forced = {}
  Setters = {}
  None = None
INVARIANTS
  FreshAfterReauth
