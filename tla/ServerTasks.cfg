SPECIFICATION LiveSpec
CONSTANTS
  plain = plain
  seven = seven
  padded = padded
  NoUser = NoUser
  NoChan = NoChan
  PoolSize = 1
  Users = {plain, padded}
  AsColumn <- KeyOfNobody
  Locks = TRUE
  Conns = {c1, c2}
  Chans = {ch1}
  MaxDeeds = 1
INVARIANTS
  TypeOK
  ActsAsProven
  PoolSuffices
  ToldOkIsRecorded
  RecordsNameActor
PROPERTIES
  ImplementsAuditTrail
  PoolRecovers
  HandlersEnd
