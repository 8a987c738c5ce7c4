SPECIFICATION ASpec
CONSTANTS
    Session = {s1, s2}
    Socket = {k1, k2}
    User = {u1, u2}
    Name = {n1, n2}
    Chat = {}
    NoSession = NoSession
    NoSocket = NoSocket
    NoUser = NoUser
    NoName = NoName
    ReadsMayFail = FALSE
    Lookups = FALSE
    ChatInput = FALSE
    LateDisconnects = TRUE
    MaxInFlight = 3
VIEW View
SYMMETRY Symmetry
INVARIANTS
    ATypeOK
    AccountStateConsistent
    LoggedInIsAuthorized
    NoSharedAccount
