SPECIFICATION FairSpec
CONSTANTS
  MaxCalls = 3
  MaxConns = 2
  MaxSwitches = 3
  MaxDatagrams = 2
  MaxStarts = 2
  MaxRequests = 5
INVARIANTS
  AcceptorServes
  AnswersAreTrue
  ReceiverListens
PROPERTIES
  CallsAreAnswered
  ConnectIsAnswered
  StopEnds
CHECK_DEADLOCK FALSE
