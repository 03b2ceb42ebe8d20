SPECIFICATION FairSpec
CONSTANTS
  BaseAddr = 5
  MinOrder = 1
  PoolOrder = 3
  CallerOrders = {0, 1, 2, 3}
  NoRequest = NoRequest
  Scribbled = Scribbled
INVARIANTS
  TypeOK
  NoBug
  BlocksDisjoint
  NoLeak
  HeadTagsExact
  FullyCoalesced
  IInv
PROPERTIES
  ImplementsAllocator
