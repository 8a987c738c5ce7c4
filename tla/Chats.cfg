SPECIFICATION FairChatSpec
CONSTANTS
    User = {u1}
    Name = {n1, n2}
    Chat = {c1, c2}
    NoUser = NoUser
    NoName = NoName
    NoChat = NoChat
    Self = Self
    MaxInFlight = 2
INVARIANTS
    ChatTypeOK
    SelectedIsListed
    ListIsCurrent
    NoChatDropped
    PendingIsUnderWay
    MessageFindsChat
    KnownSendersNamed
PROPERTY
    LookupsEnd
