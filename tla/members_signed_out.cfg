SPECIFICATION Spec
CONSTANTS
  r1 = r1
  r2 = r2
  ann = ann
  bob = bob
  old = old
  new = new
  Requests = {r1, r2}
  Names = {ann, bob}
  Passwords = {old, new}
  FirstName = ann
  FirstPassword = old
  Offered <- Signing
  NumAccounts = 1
  MaxUser = 2
  MaxSession = 2
  NoUser = NoUser
  NoSession = NoSession
ACTION_CONSTRAINT Disciplined
SYMMETRY Symmetry
PROPERTY SignedOut
