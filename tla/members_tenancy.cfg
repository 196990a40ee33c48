SPECIFICATION Spec
CONSTANTS
  r1 = r1
  r2 = r2
  ann = ann
  bob = bob
  old = old
  Requests = {r1, r2}
  Names = {ann, bob}
  Passwords = {old}
  FirstName = ann
  FirstPassword = old
  Offered <- Reaching
  NumAccounts = 2
  MaxUser = 4
  MaxSession = 3
  NoUser = NoUser
  NoSession = NoSession
SYMMETRY Symmetry
INVARIANTS TypeOK SessionTenantAgrees
PROPERTY PowersStayHome
