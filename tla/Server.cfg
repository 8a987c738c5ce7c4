SPECIFICATION Spec
CONSTANTS
    Session = {s1, s2, s3}
    Socket = {k1, k2, k3}
    User = {u1, u2}
    Name = {n1, n2}
    Chat = {c1}
    NoSession = NoSession
    NoSocket = NoSocket
    NoUser = NoUser
    NoName = NoName
    ReadsMayFail = TRUE
SYMMETRY Symmetry
INVARIANTS
    TypeOK
    OneSessionPerUser
    NoDanglingSocket
    AuthorizedIffUser
    UniqueUsernames
PROPERTIES
    SocketNeverReplaced
    LoginExclusive
