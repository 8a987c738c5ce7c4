SPECIFICATION SpecRegistered
CONSTANTS
    Session = {s1, s2, s3}
    Socket = {k1, k2, k3}
    User = {u1, u2, u3}
    Name = {n1, n2, n3}
    Chat = {c1}
    NoSession = NoSession
    NoSocket = NoSocket
    NoUser = NoUser
    NoName = NoName
    ReadsMayFail = FALSE
SYMMETRY ConnectionSymmetry
INVARIANTS
    MessageAudience
    AnnouncementConsistent
