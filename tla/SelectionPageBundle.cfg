SPECIFICATION PageSpec
CONSTANTS
  Varied = {"account", "miiverse"}
  Values = {"pretendo", "roseverse"}
INVARIANT AlwaysTogether
