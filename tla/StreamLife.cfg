SPECIFICATION FairSpec
CONSTANTS
  Threads = {1, 2}
  Ops <- All
  Triggers = {TRUE, FALSE}
  RingSize = 3
  Neighbour = TRUE
  MaxCmds = 6
INVARIANT HandleOutlivesThread
PROPERTIES OneThread GrabsAsTold GrabsInTheEnd
CHECK_DEADLOCK FALSE
