SPECIFICATION Spec
CONSTANTS
  A = A
  B = B
  C = C
  ab = ab
  ba = ba
  abc = abc
  NoTicket = NoTicket
  Nodes = {A, B, C}
  Calls = {ab, ba, abc}
  Caller <- MCCaller
  Kind <- MCKind
  Dests <- MCDests
  Together <- OnlyCast
PROPERTIES CallsTimeOut
CHECK_DEADLOCK FALSE
