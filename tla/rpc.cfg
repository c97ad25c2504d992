SPECIFICATION FairSpec
CONSTANTS
  c1 = c1  c2 = c2
  Callers = {c1, c2}
  Wants <- MCWants
  Faults = {"timeout", "cancel", "lost"}
  MaxRequests = 3
INVARIANTS TypeOK OwnAnswer AwaitedIsPending HandshakeOrder
PROPERTIES NoLeak HandshakeOnce Implements CloseEndsCalls
