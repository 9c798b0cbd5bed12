SPECIFICATION Spec
CONSTANTS
  NoName = NoName
  Name <- MCName
  Policy <- MoveOrLoopPolicies
INVARIANT TypeOK
INVARIANT MovedOnce
PROPERTY Terminates
