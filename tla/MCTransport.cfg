\* Transport: two connections, odd buffers so that records are cut, and a sink
\* that overflows.  The bound on connections ends every behaviour.
SPECIFICATION FairSpec
CONSTANTS
  MaxConns = 2
  MaxDown = 3
  MaxUp = 2
  RxCap = 4
  SockCap = 3
  Watermark = 2
INVARIANTS
  TypeOK
  CountersAgree
PROPERTIES
  Delivers
  AttachedStays
  EventuallyGreeted
CHECK_DEADLOCK FALSE
