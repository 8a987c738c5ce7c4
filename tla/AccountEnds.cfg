SPECIFICATION FairASpec
CONSTANTS
    Session = {s1}
    Socket = {k1, k2}
    User = {u1, u2}
    Name = {n1}
    Chat = {}
    NoSession = NoSession
    NoSocket = NoSocket
    NoUser = NoUser
    NoName = NoName
    ReadsMayFail = FALSE
    Lookups = TRUE
    ChatInput = TRUE
    LateDisconnects = FALSE
    MaxInFlight = 2
VIEW View
INVARIANT
    BusyMeansInProgress
PROPERTY
    ActionsEnd
