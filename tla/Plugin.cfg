SPECIFICATION PluginSpec
CONSTANTS MaxGames = 2
          MaxFaults = 1
INVARIANTS HandlersReachTheGame CodeIsRestored FixedOrUntouched LoaderAsBefore
