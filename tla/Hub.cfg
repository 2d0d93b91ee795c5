SPECIFICATION FairSpec
CONSTANTS
  tab1 = tab1
  tab2 = tab2
  worker = worker
  feedback = feedback
  Subs <- TwoTabs
  Publishers <- TwoPublishers
  InHandler = {feedback}
  BufCap = 2
  MaxEvents = 3
  KindOf <- Kinds
  Unwritable = {3}
INVARIANTS
  TypeOK
  DeliveredOrDropped
  CausalOrder
  ShownIsLogged
PROPERTIES
  PublishReturns
CHECK_DEADLOCK FALSE
