\* Any number of sessions, each with one part of the library in use: two models with pools,
\* handlers that add, delete and post from inside a post, types registered again.
SPECIFICATION LSpec
CONSTANTS
  PointerSize = 8
  Client = {m1, m2}
  BlockSize = {20}
  Request = {0, 4, 24}
  PoolSlots = 2
  MaxPools = 3
  MaxBlocks = 3
  Type = {"ERROR"}
  Level = {1, 2}
  Func = {"profit_error", "other"}
  HandlerSlots = 2
  MaxHandlers = 4
  MaxDepth = 2
  Opcode = {0, 1, 3, 7, 9}
  Default = {1, 3, 5}
  Supported = {1}
  InfoSize = 72
  TypeSlots = 4
  MaxInfos = 7
INVARIANTS PoolsSeparate DeliveredOnce LatestIsFound TablesInBounds NothingLeft
