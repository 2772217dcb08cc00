SPECIFICATION Spec
CONSTANTS
  sub = sub
  doc = doc
  spare = spare
  NoPath = NoPath
  NoHandle = NoHandle
  Dot = Dot
  DotDot = DotDot
  Fresh = Fresh
  Retired = Retired
  Listings <- MCListings
  Paths <- FilePaths
  InitTree <- FileInit
  Mounts <- FlatMounts
  MaxInode = 3
  MaxFh = 3
  SftpHandles = {h1, h2}
  MaxOffset = 2
  Ops = {"lookup", "open", "release", "read", "write", "mknod"}
  Names = {doc, spare}
SYMMETRY FileSymmetry
INVARIANTS
  TypeOK
  HoldsWhatIsOpen
  OpenedDenote
  MovesWhatWasAsked
