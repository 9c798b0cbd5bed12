SPECIFICATION Spec
CONSTANTS
  NoName = NoName
  Name <- MCName
  Policy <- EarlyPolicies
PROPERTY EarlyWorkKept
