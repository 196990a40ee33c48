SPECIFICATION Spec
CONSTANTS
  a1 = a1
  a2 = a2
  r1 = r1
  r2 = r2
  Accounts = {a1, a2}
  Requests = {r1, r2}
  MaxId = 2
  Limit <- TwoCompaniesBriefing
  NoRow = NoRow
  NoAccount = NoAccount
SYMMETRY Symmetry
INVARIANTS TypeOK TenantIsolation OnlyOverlapsDangle
PROPERTY WritesStayHome
