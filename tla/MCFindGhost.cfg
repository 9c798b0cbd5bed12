SPECIFICATION Spec
CONSTANTS
  NULL = NULL
  PERMS_PER_CLASS = 4
  Policies <- GhostRolePolicies
INVARIANT UnwrittenReported
