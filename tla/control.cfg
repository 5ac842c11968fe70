SPECIFICATION Spec
CONSTANTS
  alice = alice
  bob = bob
  Clients = {alice, bob}
  Account <- RoleAccount
  Used <- AllCommands
  Rivals <- RivalCommands
  MaxRequests = 2
  MaxCrashes = 1
INVARIANTS SuccessMeansDone FailureMeansUndone AckIsFinal LogAgrees
PROPERTIES LogoutStopsCommands AnsweredEventually
CHECK_DEADLOCK FALSE
