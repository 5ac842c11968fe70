CONSTANTS
  admin = admin
  alice = alice
  h1 = h1
  Users = {admin, alice}
  Admin = admin
  NewRoles = {"viewer"}
  Passwords <- MCPasswords
  Codes = {c1, c2}
  None = None
  MaxPending = 1
  OtpTtl = 1
  TokenTtl = 0
  MaxTime = 2
  MaxTokens = 2
  MaxRestarts = 1
  People = {admin, alice}
  SeedRole <- MCSeedRole
  OldTables <- MCOldTables
  AddedRoles = {"viewer"}
  Hashes = {h1, h2}
  Conns = {t1, t2}
  Pids = {p1, p2}
  SessionSlots = {s1}
  MaxPendings = 1
  SessionTtl = 1
  CodeTtl = 1
  Nil = Nil
SPECIFICATION EitherSpec
SYMMETRY Symmetric
INVARIANTS LogoutIsFinal CodeIsFresh OneStream
PROPERTY AccountsChangeByProof
CHECK_DEADLOCK FALSE
