CONSTANTS
  Senders = {main}
  Reader = r
  None = None
  Garbage = Garbage
  MmfSize = 2
  HeaderLen = 1
  EventTypes = {clipboard, unknown}
  Components = {clipboard}
  DataLens = {0, 1}
  DwordMod = 16
  OpenMutexResults = {TRUE, FALSE}
  MapViewResults = {TRUE}
  MaxSend = 2
  MaxCrash = 1
  BeginThreadResults <- MCBeginThreadResults
SPECIFICATION FairServiceSpec
CHECK_DEADLOCK FALSE
INVARIANTS ServiceTypeOK ExactlyOnceInOrder ParserStaysInBatch NeverPopsEmpty ChannelSound
 
 
