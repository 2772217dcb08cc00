SPECIFICATION LiveSpec
CONSTANTS
  c1 = c1
  c2 = c2
  k1 = k1
  u1 = u1
  w1 = w1
  w2 = w2
  Server = server
  Clis = {c1, c2}
  Conns = {}
  Users = {admin, u1}
  Admin = admin
  Passwords = {w1, w2}
  AdminPassword = w1
  NoUser = NoUser
  NoPw = NoPw
  CliUsers = {u1}
PROPERTY ServesWithAuditLogs
