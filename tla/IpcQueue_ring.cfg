SPECIFICATION FairSpec
CONSTANTS
  IPC_MAX_MSG = 4
  Threads = {t1, t2}
  Payloads = {click}
  MaxSends = 5
INVARIANTS TypeOK RingOrdered DeliveredInOrder
PROPERTIES ImplementsMailbox EventuallyReceived
