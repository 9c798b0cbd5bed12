SPECIFICATION Spec
CONSTANTS
  NoName = NoName
  BadNames = {"9"}
  COND_EXPR_MAXDEPTH = 10
  CEXPR_MAXDEPTH = 5
  Texts <- DeepTexts
INVARIANT DepthRefused
