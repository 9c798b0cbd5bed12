SPECIFICATION Spec
CONSTANTS
  NoName = NoName
  Name <- MCName
  Policy <- MacroInMacroPolicies
INVARIANT MacroKnown
