SPECIFICATION FlowSpec
CONSTANTS
  n1 = n1
  n2 = n2
  n3 = n3
  n4 = n4
  n5 = n5
  NoNode = NoNode
  Unread = Unread
  Canvas <- MCCanvas
  Wiring <- MCWiring
INVARIANT EveryEdgeIsBound
CHECK_DEADLOCK FALSE
