\* Two clients, a third connection, outbound buffers of three responses, and a client
\* that gets up to four.  A message is two cells: a read of that client may end inside
\* one.
CONSTANTS
    MaxNumClients = 2
    MaxBufferedResponse = 3
    Parts = 2
    Traders = {0}
    CutClients = {0}
    MaxConnects = 3
    MaxInvalid = 1
    MaxReplies = 2
    MaxBacklog = 1
    MaxCloses = 1
SPECIFICATION Spec
CHECK_DEADLOCK FALSE
INVARIANTS TypeOK SocketMissing  DeliveredInOrder 
