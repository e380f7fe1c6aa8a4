SPECIFICATION FairSpec
CONSTANTS
  NbWriters = 2
  Readers = {r1}
  NONE = NONE
  RingQueue <- OneQueue
  MsgLen <- OneTooLarge
  MaxMsgs = 2
  Size = 9
  MaxReaders = 2
  Seeks = {TRUE, FALSE}
INVARIANTS SentIsLogged
PROPERTIES ImplementsLog WriteEnds 
CHECK_DEADLOCK FALSE
