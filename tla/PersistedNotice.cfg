SPECIFICATION Spec
CONSTANTS
  Session = {s1, s2}
  Tx = {t1}
  Run = {q1}
  NoSession = NoSession
  NoTx = NoTx
  Pool = Pool
  PoolSize = 2
  MaxInbox = 2
INVARIANTS
  PersistedNoticeIsTrue
CHECK_DEADLOCK FALSE
