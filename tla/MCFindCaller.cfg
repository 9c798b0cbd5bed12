SPECIFICATION Spec
CONSTANTS
  NoName = NoName
  Name <- MCName
  Policy <- CallerPolicies
INVARIANT CallersNamespaceUnchecked
