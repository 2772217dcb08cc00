SPECIFICATION Spec
CONSTANTS
  Name = {n1, n2}
  MaxLen = 2
  ClientPaths <- MCPaths
  ServerRoots <- MCRoots
  Cwd <- MCCwd
INVARIANTS
  ResolveNeverFails
  BelowUnlessClimbing
  RoundTrip
  FstatOrRealpath
