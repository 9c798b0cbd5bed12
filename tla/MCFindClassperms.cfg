SPECIFICATION Spec
CONSTANTS
  NoDatum = NoDatum
  Datum <- MCDatum
  Flavor <- MCFlavor
  NumPerms <- MCNumPerms
  Ast <- ClasspermsAst
  Word = 16
INVARIANT ClasspermsExact
