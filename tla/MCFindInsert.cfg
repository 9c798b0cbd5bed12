SPECIFICATION Spec
CONSTANTS
  NoName = NoName
  Name <- MCName
  Policy <- InsertPolicies
INVARIANT InsertionDefined
