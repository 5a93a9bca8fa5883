CONSTANTS
    c1 = c1
    c2 = c2
    Client <- TwoClients
    MaxStarts = 2
    MaxFd = 5
    MaxRetry = 2
    Faults = {"user", "socket", "bind", "thread", "accept"}
    Rush = "ended"
SPECIFICATION FairSpec
INVARIANTS
    OneServes
    OwnReply
    SocketKept
    AsleepSaves
    FilesClosed
PROPERTIES
    LoopersEnd
    AwakeServed
CHECK_DEADLOCK FALSE
