\* Six calls on two clients and a throw-away copy of one of them.
\* A deadlock would show as a call that never returns.
SPECIFICATION FairSpec
CONSTANTS
  user = user
  spare = spare
  tac = tac
  m1 = m1
  m2 = m2
  Clients <- ThreeClients
  Mutexes <- TwoMutexes
  MutexOf <- SharedMutex
  Calls <- SixCalls
  Op <- SixOps
  Nil = Nil
PROPERTIES
  ImplementsTokenPairs
  EveryCallReturns
CHECK_DEADLOCK FALSE
