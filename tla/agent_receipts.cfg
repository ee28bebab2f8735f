CONSTANTS
  Requests <- MCRequests
  Grants <- MCGrants
  Policy <- MCPolicy
  Keys = {k1, k2}
  MaxAttempts = 2
  None = None
  k1 = k1
  k2 = k2
SPECIFICATION Spec
INVARIANT TypeOK
INVARIANT SubmissionsAuthorized
INVARIANT SuccessIsSettled
INVARIANT ReceiptsCountCalls
PROPERTY ReceiptsAreFinal
SYMMETRY Symmetry
PROPERTY OneActionPerKey
