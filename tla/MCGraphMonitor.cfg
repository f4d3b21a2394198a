\* Three changes of the graph and a death of the node's processes.
CONSTANTS
  Entries <- MCEntries
  Watches <- MCWatches
  MaxChanges = 3
  MaxDeaths  = 1
SPECIFICATION FairSpec
INVARIANTS CallbackOnce TelemetryAgrees
PROPERTIES Converges Served
CHECK_DEADLOCK FALSE
