SPECIFICATION Spec
CONSTANTS
  Producers = {p1}
  Callers = {web, wifi}
  Web = web
  Threads = {t1, t2}
  Buffers = {b1, b2, b3, b4, b5}
  NoBuffer = NoBuffer
  Nobody = Nobody
  QUEUE_SIZE = 4
  NAnnounce = 1
INVARIANTS
  TypeOK
  OneClient
  QueueOutlivesUsers
  MemoryOwned
PROPERTY
  SeenMessageIsThere
  ExitObeyed
