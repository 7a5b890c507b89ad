SPECIFICATION Spec
CONSTANTS
  Session = {s1, s2}
  Tx = {t1, t2}
  Run = {q1, q2}
  NoSession = NoSession
  NoTx = NoTx
  Pool = Pool
  PoolSize = 2
  MaxInbox = 1
SYMMETRY Symmetry
INVARIANTS
  TypeOK
  SureStatementsAreIsolated
  SureClientHasTransaction
  ConnectionsAccounted
PROPERTIES
  ImplementsStore
CHECK_DEADLOCK FALSE
