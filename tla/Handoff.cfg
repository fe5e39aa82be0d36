CONSTANTS
  Session = {s1, s2}
  MaxAttempts = 3
  MaxRead = 1
  Kinds = {"manual", "upgrade", "loopback"}
  Crashes = TRUE
SPECIFICATION FairSpec
CHECK_DEADLOCK FALSE
INVARIANTS ExclusiveAuthority DonorRetainsUntilCommit AdoptedStateIsCurrent GivenSessionsNotSignalled StoppedReceiverNeverAdopts OneMarkerInFlight OneServer
PROPERTIES DonorUnblocks ReceiverUnblocks
