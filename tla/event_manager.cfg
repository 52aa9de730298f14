SPECIFICATION FairSpec
CONSTANTS
  request = request
  response = response
  Listener = {l1}
  Waiter = {w1}
  Name = {request, response}
  ListensTo <- ToRequests
  WaitsFor <- ForRequests
  Messages <- AllKinds
  MaxMessages = 2
  MaxCalls = 2
  GiveUp = 2
INVARIANTS TypeOK ListenersMissNothing NextReturnsItsEvent
PROPERTIES NextReturns LoopAdvances
CHECK_DEADLOCK FALSE
