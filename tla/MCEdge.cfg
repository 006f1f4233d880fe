\* Two outputs that are replaced; an agent and two files; two containers; messages
\* of up to three chunks.
SPECIFICATION MCSpec
CONSTANTS
  Parts = {"outputs", "fleet", "docker", "gelf"}
  Outs = {"o1", "o2"}
  Setups <- MCSetups
  Wanted <- MCWanted
  OutStreams = {"a", "b"}
  BufferSize = 1
  MaxOutMsgs = 2
  MaxGen = 2
  Paths = {"p", "q"}
  LocalPaths = {"q"}
  MaxEdits = 2
  MaxLost = 2
  MaxRestarts = 1
  Containers = {"c", "d"}
  MaxStarts = 4
  Ids = {"m", "n", "e"}
  Count <- MCCount
  EmptyChunks <- MCEmptyChunks
  Timeout = 1
  MaxDelivered = 4
  MaxTime = 2
INVARIANTS TypeOK EveryMessageCounted OneFollowerNoneAfterStop WholeAndOnce
PROPERTIES ReplacedWorkersEnd AgentConverges
CHECK_DEADLOCK FALSE
