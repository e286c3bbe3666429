SPECIFICATION Spec
CONSTANTS
  x1 = x1  x2 = x2  x3 = x3  o1 = o1  o2 = o2  o3 = o3  d1 = d1  w1 = w1  w2 = w2
  Executions = {x1, x2, x3}
  Orders = {o1, o2, o3}
  OrderOf <- OneOrderTwice
  Transfers = {d1, w1, w2}
  Deposits = {d1}
  Buys = {o1, o3}
  Past = {o3}
  Initial = 2
  AnyAge = TRUE
  Scenarios <- TwoOrders
  NoToken = NoToken
  MaxRounds = 1
  MaxFaults = 0
INVARIANT CashMatchesTrades
CHECK_DEADLOCK FALSE
