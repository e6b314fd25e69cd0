CONSTANTS
  Events <- MCEvents
  Addrs <- MCAddrs
  Nil = Nil
SPECIFICATION Spec
INVARIANT FollowsAnswerRules
CHECK_DEADLOCK FALSE
