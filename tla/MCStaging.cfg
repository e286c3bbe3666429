\* Two trades in one symbol, two overlapping runs, one fault.
CONSTANTS
  m1 = m1
  o1 = o1
  o2 = o2
  NoOrder = NoOrder
  Messages <- OneMessage
  Orders <- TwoOrders
  OrdersOf <- OneMessageOrders
  SymbolOf <- SameSymbol
  Runs = {r1, r2}
  MaxFaults = 1
SPECIFICATION FairSpec
INVARIANTS TypeOK EveryTradeOrdered
PROPERTIES TicketsWorkedOff
