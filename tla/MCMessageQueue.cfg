\* Two nodes, two messages, three threads that each may post, receive, wait
\* and flush.
CONSTANTS
  Threads = {t1, t2, t3}
  Nodes = {n1, n2}
  Messages = {a, b}
  NoThread = NoThread
SPECIFICATION FairSpec
INVARIANTS
  NoMessageStranded
PROPERTIES MessagesLeave ImplementsFifo
