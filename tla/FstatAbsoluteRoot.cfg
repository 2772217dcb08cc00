SPECIFICATION Spec
CONSTANTS
  sub = sub
  doc = doc
  spare = spare
  n1 = n1
  o0 = o0
  o1 = o1
  o2 = o2
  o3 = o3
  NoObj = NoObj
  Name = {sub, doc, spare, n1}
  Places <- FilePlaces
  InitTree <- FileInitTree
  InitKind <- FileInitKind
  Objs = {o0, o1, o2}
  Sessions = {s1}
  Root <- RootAbsolute
  Ops = {"open", "fstat"}
  FlagSets = {{"READ"}}
  IdSpace = 1
  MaxSize = 0
  Disciplined = TRUE
PROPERTIES
  FstatFaithful
