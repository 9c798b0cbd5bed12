SPECIFICATION Spec
CONSTANTS
  NULL = NULL
  Word = 16
  Policies <- LoopPolicies
INVARIANT NoClasspermsLoop
