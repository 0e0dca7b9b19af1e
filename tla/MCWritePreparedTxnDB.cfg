SPECIFICATION Spec
CONSTANTS
  r1 = r1
  r2 = r2
  Txns = {t1, t2}
  Readers = {r1, r2}
  Asking = {r1}
  NoTxn = NoTxn
  COMMIT_CACHE_SIZE = 1
  SNAPSHOT_CACHE_SIZE = 1
  INC_STEP_FOR_MAX_EVICTED = 1
  Loads <- MCLoads
  MaxSeq = 4
INVARIANTS
  VisibilityExact
  PreparedTracked
SYMMETRY Symmetry
CHECK_DEADLOCK FALSE
