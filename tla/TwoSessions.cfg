SPECIFICATION Spec
CONSTANTS
  sub = sub
  doc = doc
  spare = spare
  n1 = n1
  o0 = o0
  o1 = o1
  o2 = o2
  o3 = o3
  NoObj = NoObj
  Name = {sub, doc, spare, n1}
  Places <- MCPlaces
  InitTree <- MCInitTree
  InitKind <- MCInitKind
  Objs = {o0, o1, o2, o3}
  Sessions = {s1, s2}
  Root <- RootAbsolute
  Ops = {"opendir", "readdir", "realpath", "open", "read", "write", "rmdir", "remove", "rename"}
  FlagSets = {{"READ"}, {"WRITE", "TRUNCATE"}}
  IdSpace = 1
  MaxSize = 1
  Disciplined = TRUE
PROPERTIES
  OvertakenOnly
  EmptyReadOnlyIfShrunk
SYMMETRY SessionSymmetry
VIEW SessionView
