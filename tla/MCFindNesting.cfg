SPECIFICATION Spec
CONSTANTS
  NoName = NoName
  BadNames = {"9"}
  COND_EXPR_MAXDEPTH = 4
  CEXPR_MAXDEPTH = 3
  Texts <- MCTexts
INVARIANT NestingRefused
