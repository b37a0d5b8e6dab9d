CONSTANTS
  Readers = {r1}
  BufferSize = 2
  SseMessages = 5
  SseRequests = 3
  Pollers = {c1, c2}
  LongMessages = 3
  LongLost = 2
  Posts = {p1, p2, p3}
  PostReaders = {c1}
  PollLost = 1
  Triggers = {t1}
  Subs = {s1, s2}
  MaxAttempts = 2
  Clients = {w1, w2, w3}
  Rooms = {x}
  MaxFrames = 1
SPECIFICATION Spec
INVARIANTS
  TypeOK
  StreamComplete
  OnlyOvertakenAreMissed
  ShippedOnce
  VendorKnows
  MessagesReachRoom
PROPERTIES
  SseImplementsFeed
  LongPollingImplementsFeed
  PollersCatchUp
  TriggersAnswered
CHECK_DEADLOCK FALSE
