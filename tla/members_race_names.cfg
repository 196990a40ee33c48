SPECIFICATION Spec
CONSTANTS
  r1 = r1
  r2 = r2
  ann = ann
  bob = bob
  old = old
  Requests = {r1, r2}
  Names = {ann, bob}
  Passwords = {old}
  FirstName = ann
  FirstPassword = old
  Offered <- Naming
  NumAccounts = 1
  MaxUser = 3
  MaxSession = 2
  NoUser = NoUser
  NoSession = NoSession
SYMMETRY Symmetry
INVARIANT UniqueNames
