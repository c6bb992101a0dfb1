CONSTANTS
  Kind <- MCKind
  Wants <- MCWants
  Type <- MCType
  Ids <- MCIds
  ask = ask
  ask2 = ask2
  confirm = confirm
  batch = batch
  Waiters = {ask, confirm, batch}
  Messages <- MixedMessages
  InboxCap = 3
  PendingCap = 3
  EarlyAnswers = TRUE
SPECIFICATION Spec
CHECK_DEADLOCK FALSE
INVARIANTS AnswersAreRouted NoAnswerIsLost
PROPERTY ImplementsDelivery
