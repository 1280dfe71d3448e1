\* The ways from the settings of a user to a login and its repetition.
SPECIFICATION Spec
CONSTANTS
  Literals <- TheLiterals
  Environments <- TheEnvironments
  Configurations <- TheConfigurations
INVARIANTS
  BestSourceWins
  UnverifiedOnlyIfUnanimous
  ConfiguredScopeIsUsable
  LoginIsWhole
  LaterLoginsRepeat
CHECK_DEADLOCK FALSE
