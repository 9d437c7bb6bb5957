SPECIFICATION FairSpec
CONSTANTS
    a = a
    b = b
    c = c
    NoOne = NoOne
    Router = {a, b}
    Wiring <- PairWiring
    RouterId <- PairIds
    Priority = {0, 1, 2}
    Commands = {"start", "stop", "priority", "shut", "cable", "remove"}
    MaxCommands = 5
    MaxRemovals = 1
INVARIANTS FullKnowsLsa SequenceNumbersTell
 
CHECK_DEADLOCK FALSE
