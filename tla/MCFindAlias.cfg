SPECIFICATION Spec
CONSTANTS
  NoDatum = NoDatum
  Datum <- MCDatum
  Flavor <- MCFlavor
  NumPerms <- MCNumPerms
  Ast <- AliasAst
  Word = 16
INVARIANT AliasBindsOnce
