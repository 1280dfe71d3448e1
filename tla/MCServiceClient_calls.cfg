\* Three calls that may share their options and may overlap.
SPECIFICATION Spec
CONSTANTS
  Calls = {c1, c2, c3}
  Objects <- TwoObjects
  InitOptions <- TheOptions
  Clients <- TheClients
  Kinds <- TheKinds
  Canonical <- Spellings
  Tokens = {"token", NoToken}
  NoToken = NoToken
  None = None
  NoMap = NoMap
SYMMETRY CallSymmetry
INVARIANTS
  ClientHeadersAreSent
  
  OwnBodyOrRefused
