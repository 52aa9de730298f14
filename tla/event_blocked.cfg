SPECIFICATION FairSpec
CONSTANTS
  request = request
  response = response
  Listener = {l1}
  Waiter = {w1}
  Name = {request, response}
  ListensTo <- ToRequests
  WaitsFor <- ForRequests
  Messages <- PeerMessages
  MaxMessages = 2
  MaxCalls = 1
  GiveUp = 2
PROPERTIES CallbackAlwaysCalled
CHECK_DEADLOCK FALSE
