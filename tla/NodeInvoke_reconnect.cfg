SPECIFICATION FairInvokeSpec
CONSTANTS
  i1 = i1
  first = first
  retry = retry
  none = none
  Approvals <- OneApproval
  MaxConns = 2
  Invokes <- TwoCalls
  ApprovalOf <- ApprovalOfBoth
  NoApproval <- none
  Fallback <- JustRetry
INVARIANTS CallsHaveASession RunsAreApproved RequesterToldDecision
PROPERTIES CallsAreAnswered
CHECK_DEADLOCK FALSE
