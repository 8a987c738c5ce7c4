SPECIFICATION ASpec
CONSTANTS
    Session = {s1}
    Socket = {k1}
    User = {u1, u2}
    Name = {n1}
    Chat = {}
    NoSession = NoSession
    NoSocket = NoSocket
    NoUser = NoUser
    NoName = NoName
    ReadsMayFail = FALSE
    Lookups = TRUE
    ChatInput = FALSE
    LateDisconnects = TRUE
    MaxInFlight = 3
VIEW View
INVARIANT
    LogoutClearsSession
