SPECIFICATION FairSpec
CONSTANTS
  Sessions = {1, 2}
  NoSession = NoSession
  MaxRetry = 1
  MaxAnswers = 1
INVARIANTS TypeOK RetryTracksSilence ListenersAreOpen
PROPERTIES GivesUpOnlySilent SilentClientClosed RegistryReleased BeatsRegularly
CHECK_DEADLOCK FALSE
