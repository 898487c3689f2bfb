SPECIFICATION Spec
CONSTANTS
  A = A
  B = B
  C = C
  ab = ab
  ba = ba
  abc = abc
  NoTicket = NoTicket
  Nodes = {A, B, C}
  Calls = {ab, ba, abc}
  Caller <- MCCaller
  Kind <- MCKind
  Dests <- MCDests
  Together <- CrossOrCast
INVARIANTS TypeOK OwnedOnce OpenCallsFindable RepliesOutliveExchange AnswersAreReal
 
CHECK_DEADLOCK FALSE
