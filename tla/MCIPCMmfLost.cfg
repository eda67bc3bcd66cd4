CONSTANTS
  Senders = {s1}
  Reader = r
  None = None
  MmfSize = 3
  HeaderLen = 1
  EventTypes = {e}
  DataLens = {0, 1}
  DwordMod = 16
  OpenMutexResults = {FALSE}
  MapViewResults = {TRUE}
  MaxSend = 2
SPECIFICATION FairSpec
CHECK_DEADLOCK FALSE
PROPERTY SuccessIsReceived
