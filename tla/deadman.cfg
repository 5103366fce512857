CONSTANTS
  Period = 24
  Deadline = 26
  Retries = 1
SPECIFICATION FairSpec
INVARIANT TypeOK
PROPERTIES AlarmHasCause SilentHourIsReported SilenceIsHeard
