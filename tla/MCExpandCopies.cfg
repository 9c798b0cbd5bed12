SPECIFICATION Spec
CONSTANTS
  NoName = NoName
  Name <- MCName
  Policy <- CopyPolicies
INVARIANT InheritedExact
INVARIANT ContextExact
INVARIANT CallsExact
INVARIANT NestingAllowed
