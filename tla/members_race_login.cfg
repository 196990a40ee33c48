SPECIFICATION Spec
CONSTANTS
  r1 = r1
  r2 = r2
  ann = ann
  old = old
  new = new
  Requests = {r1, r2}
  Names = {ann}
  Passwords = {old, new}
  FirstName = ann
  FirstPassword = old
  Offered <- Signing
  NumAccounts = 1
  MaxUser = 1
  MaxSession = 3
  NoUser = NoUser
  NoSession = NoSession
SYMMETRY Symmetry
PROPERTY SignedOut
