SPECIFICATION Spec
CONSTANTS
  NoAnswer = NoAnswer
  s1 = s1
  r1 = r1
  SearchKeys <- MCSearchKeys
  ResultKeys <- MCResultKeys
  Callers = {c1, c2}
  Ttl <- MCTtl
  MemMax = 1
  RetryLimit = 1
  MaxClients = 2
  MaxWrites = 2
  MaxTime = 1
INVARIANTS
  ReadsAreCurrent
PROPERTY
  ImplementsPromise
CHECK_DEADLOCK FALSE
