SPECIFICATION PluginSpec
CONSTANTS MaxGames = 1
          MaxFaults = 0
INVARIANT PreviousStateKept
