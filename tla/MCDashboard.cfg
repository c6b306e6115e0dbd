SPECIFICATION FairSpec
CONSTANTS
  f1 = f1
  f2 = f2
  m1 = m1
  m2 = m2
  Fd <- MCFd
  Message <- MCMessage
  MaxClients = 1
  CloseQSize = 2
  CamBufCount = 2
  Nothing = Nothing
INVARIANTS
  WsTransportTypeOK
  SendsOneMessage
  ListedIsOpen
  CameraKept
PROPERTIES
  ClosesBetweenSends
  SendsGoOn
