\* Three logins or commands.
CONSTANTS
  MaxMails = 1
  Byte = 3
  MaxCommands = 3
  MaxSlipped = 2
  MaxLines = 1
  MaxAttached = 4
SPECIFICATION FairSpec
INVARIANTS TypeOK InSync  SuccessIsTrueInStep
PROPERTIES SavedAsTyped  ThreadEnds
CHECK_DEADLOCK FALSE
