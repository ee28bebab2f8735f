CONSTANTS
  Executions = {e1, e2}
  JobAttempts <- MCJobAttempts
  MaxAttempts = 2
  Setups <- MCSetups
  Amounts <- MCAmounts
  Answers <- MCAnswers
  None = None
  Blank = Blank
SPECIFICATION FairSpec
INVARIANT TypeOK
INVARIANT NotReviewedIsTrustworthy
INVARIANT ReviewCoversFindings
INVARIANT RetriesAccounted
PROPERTY ExecutionsEnd
CHECK_DEADLOCK FALSE
