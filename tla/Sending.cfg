SPECIFICATION FairSpec
CONSTANTS
    Chat = {c1, c2}
    Message = {m1, m2}
    User = {u1, u2}
    NoUser = NoUser
    NoChat = NoChat
    NoMessage = NoMessage
\* The client stops for good when a deleted chat's thread waits for a connection.
CHECK_DEADLOCK FALSE
INVARIANTS
    SendingTypeOK
    NoUseAfterDelete
    WrittenAsAuthor
    MarkedAfterWriting
    InOrder
PROPERTIES
    ChatsEnd
    SubmittedIsSent
