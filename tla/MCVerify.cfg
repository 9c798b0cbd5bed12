SPECIFICATION Spec
CONSTANTS
  NULL = NULL
  Policies <- VerifyPolicies
INVARIANT BoundsExact
INVARIANT ContextsValid
INVARIANT StatementsValid
PROPERTY Terminates
