CONSTANTS
  Searches = {k1}
  Sources = {hh, sj}
  Failing = {hh}
  StaleAfter = 1
SPECIFICATION FairSpec
INVARIANT TypeOK
PROPERTIES ImplementsPromise SearchReturns NoGoroutineLeft DownIsMarked StatusRefreshes StopEndsChecks
