\* Three executors with up to three queued tasks and up to two held ones each; three
\* writers of files up to three directories deep; two threads with up to three guards
\* each; five values in the deque.  The round and the writers come to an end.
CONSTANTS
  N = 3
  Tasks = {1, 2, 3, 4, 5, 6, 7, 8, 9, 10, 11, 12, 13, 14, 15}
  None = None
  Holds = {}
  Stops = 0
  MaxLoad = 3
  MaxHeld = 2
  Writers = {w1, w2, w3}
  Depth = 3
  Lockers = {l1, l2}
  Nobody = Nobody
  MaxGuards = 3
  Values = 5
SPECIFICATION LibrarySpec
INVARIANTS NoOvershoot RoundBalances RoundKeepsOrder FailsOnlyInRace MadeIsComplete
  SomebodyOpens GuardsExclude
PROPERTY BulkAsSingles
CHECK_DEADLOCK FALSE
