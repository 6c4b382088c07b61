SPECIFICATION PageSpec
CONSTANTS
  Varied = {"account", "http", "eshop", "retired"}
  Values = {"pretendo", "revivetendo", "roseverse", "off", "unknown"}
INVARIANTS
  AlwaysInstallable
  NeverSplits
