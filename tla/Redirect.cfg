SPECIFICATION Spec
CONSTANTS Thread = {t1, t2}
          MaxHandles = 2
INVARIANTS StaysRedirected AccountNotAtNintendo OnlyForPretendo
