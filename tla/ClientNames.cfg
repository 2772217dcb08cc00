SPECIFICATION Spec
CONSTANTS
  sub = sub
  doc = doc
  spare = spare
  NoPath = NoPath
  NoHandle = NoHandle
  Dot = Dot
  DotDot = DotDot
  Fresh = Fresh
  Retired = Retired
  Listings <- MCListings
  Paths <- DeepPaths
  InitTree <- DeepInit
  Mounts <- DeepMounts
  MaxInode = 4
  MaxFh = 0
  SftpHandles = {h1}
  MaxOffset = 0
  Ops = {"lookup", "getattr", "unlink", "rmdir", "mknod", "mkdir", "readdir"}
  Names = {sub, doc}
INVARIANTS
  DentriesAgree
  NeverPanics
  StableListing
  GetattrAnswersForAsked
PROPERTIES
  ImplementsInodeTable
