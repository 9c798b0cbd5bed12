SPECIFICATION Spec
CONSTANTS
  NoName = NoName
  Name <- MCName
  Policy <- FreedPolicies
INVARIANT InsertionDefined
