SPECIFICATION FairSpec
CONSTANTS
  Hosts = 2
  KeyFiles <- MCKeyFiles
  SavedSets <- MCSavedSets
  MaxAnswers = 3
INVARIANT AsksAfterKeys
INVARIANT WholeChainOpen
PROPERTY NoSilentRetries
\* A session that is connected or has failed stays so.
CHECK_DEADLOCK FALSE
