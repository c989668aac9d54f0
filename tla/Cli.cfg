\* Three connections, two of which can wait at a time, and one child at a time without one
\* that still has the listening socket.
SPECIFICATION FairSpec
CONSTANTS
    Clients = {c1, c2, c3}
    Spares = {spare}
    Server = Server
    None = None
    BACKLOG = 2
INVARIANTS
    TypeOK
    SessionsAreSafe
    NothingKept
    ExitFreesThePort

    
    
