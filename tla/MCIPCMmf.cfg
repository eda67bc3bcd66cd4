CONSTANTS
  Senders = {s1, s2}
  Reader = r
  None = None
  MmfSize = 3
  HeaderLen = 1
  EventTypes = {e}
  DataLens = {0, 1}
  DwordMod = 16
  OpenMutexResults = {TRUE, FALSE}
  MapViewResults = {TRUE, FALSE}
  MaxSend = 3
SPECIFICATION Spec
SYMMETRY Symmetric
CHECK_DEADLOCK FALSE
INVARIANTS TypeOK MutualExclusion WritesStayInside CounterIsUnreadBytes
PROPERTY ChannelIsFifo
