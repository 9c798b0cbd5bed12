SPECIFICATION Spec
CONSTANTS
  NoName = NoName
  Name <- MCName
  Policy <- EndlessPolicies
INVARIANT CopiesEnd
