SPECIFICATION Spec
CONSTANTS
  a1 = a1
  r1 = r1
  r2 = r2
  Accounts = {a1}
  Requests = {r1, r2}
  MaxId = 1
  Limit <- OneOfEach
  NoRow = NoRow
  NoAccount = NoAccount
SYMMETRY Symmetry
INVARIANT NoDanglingReference
