SPECIFICATION ChatSpec
CONSTANTS
    User = {u1}
    Name = {n1}
    Chat = {c1}
    NoUser = NoUser
    NoName = NoName
    NoChat = NoChat
    Self = Self
    MaxInFlight = 2
INVARIANT
    ResolvingIsPending
