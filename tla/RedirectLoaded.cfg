SPECIFICATION Spec
CONSTANTS Thread = {t1, t2}
          MaxHandles = 3
PROPERTY OnlyWhileUsed
