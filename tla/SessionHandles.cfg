SPECIFICATION Spec
CONSTANTS
  sub = sub
  doc = doc
  spare = spare
  n1 = n1
  o0 = o0
  o1 = o1
  o2 = o2
  o3 = o3
  NoObj = NoObj
  Name = {sub, doc, spare, n1}
  Places <- FilePlaces
  InitTree <- FileInitTree
  InitKind <- FileInitKind
  Objs = {o0, o1, o2}
  Sessions = {s1}
  Root <- RootDefault
  Ops = {"open", "opendir", "close", "read", "write", "fstat", "remove", "rename"}
  FlagSets = {{"READ"}, {"READ", "APPEND"}, {"WRITE", "CREATE", "EXCLUDE"}}
  IdSpace = 2
  MaxSize = 2
  Disciplined = FALSE
INVARIANTS
  TypeOK
  HandlesDenoteLeases
  OnlyLeasesAreServed
  AuditNamesLease
PROPERTIES
  LostRequestsLeaveDisk
  FstatFaithful
  ImplementsHandleTable
