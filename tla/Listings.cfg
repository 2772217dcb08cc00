SPECIFICATION LiveSpec
CONSTANTS
  sub = sub
  doc = doc
  spare = spare
  n1 = n1
  o0 = o0
  o1 = o1
  o2 = o2
  o3 = o3
  NoObj = NoObj
  Name = {sub, doc, spare, n1}
  Places <- ListPlaces
  InitTree <- ListInitTree
  InitKind <- ListInitKind
  Objs = {o0, o1, o2}
  Sessions = {s1, s2}
  Root <- RootAbsolute
  Ops = {"init", "opendir", "readdir", "close", "mkdir", "rmdir", "lstat", "stat", "setstat"}
  FlagSets = {{"READ"}}
  IdSpace = 1
  MaxSize = 0
  Disciplined = TRUE
PROPERTIES
  OneListingThenEof
  ListingsEnd
