CONSTANTS
  Kind <- MCKind
  Wants <- MCWants
  Type <- MCType
  Ids <- MCIds
  ask = ask
  ask2 = ask2
  confirm = confirm
  batch = batch
  Waiters = {ask, ask2, batch}
  Messages <- SingleMessages
  InboxCap = 3
  PendingCap = 2
  EarlyAnswers = FALSE
SPECIFICATION Spec
PROPERTIES AnsweredWaiterReturns CloseReleasesEveryone
