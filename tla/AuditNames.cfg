SPECIFICATION Spec
CONSTANTS
  plain = plain
  seven = seven
  padded = padded
  NoUser = NoUser
  NoChan = NoChan
  PoolSize = 1
  Users = {seven, padded}
  AsColumn <- KeyOfOther
  Locks = FALSE
  Conns = {c1}
  Chans = {ch1}
  MaxDeeds = 1
INVARIANTS
  RecordsNameActor
