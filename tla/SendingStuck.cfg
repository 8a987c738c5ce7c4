SPECIFICATION FairSpec
CONSTANTS
    Chat = {c1}
    Message = {m1}
    User = {u1}
    NoUser = NoUser
    NoChat = NoChat
    NoMessage = NoMessage
CHECK_DEADLOCK FALSE
PROPERTY
    RemovedChatIsDeleted
