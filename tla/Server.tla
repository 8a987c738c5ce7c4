------------------------------- MODULE Server -------------------------------
(***************************************************************************)
(* The chat server (server/src/Server.cpp, ClientConnection.cpp): accepted *)
(* sockets, the m_clients hash, who is authorized on which session, and    *)
(* what it keeps in the database (users, chats, chat members).             *)
(*                                                                         *)
(* The server runs one Qt event loop in one thread, so each slot and each  *)
(* packet handler is one atomic action.  A packet of session s can arrive  *)
(* at any time on any socket whose far end is s: the socket the session    *)
(* is registered with, or the one of an earlier or later connection of the *)
(* same client process, which keeps its session id when it reconnects.     *)
(*                                                                         *)
(* "sent" holds what the last event wrote to each registered connection,   *)
(* in order.  It is an observation of the step, never read by a handler.   *)
(***************************************************************************)
EXTENDS Naturals, FiniteSets, Sequences

CONSTANTS
    Session,      \* session ids, one per client process
    Socket,       \* accepted sockets (QTcpSocket addresses, reused after close)
    User,         \* user ids the database may hold
    Name,         \* user names
    Chat,         \* chat ids the server may generate
    NoSession, NoSocket, NoUser, NoName,
    ReadsMayFail  \* TRUE: a SELECT may fail, which the code reads as "no rows"

ASSUME NullAssumption ==
    /\ NoSession \notin Session
    /\ NoSocket \notin Socket
    /\ NoUser \notin User
    /\ NoName \notin Name
ASSUME ReadsAssumption == ReadsMayFail \in BOOLEAN

VARIABLES
    listening,    \* m_server is listening
    peer,         \* keys of m_socketBuffers, with the session at the far end
    clients,      \* m_clients
    account,      \* users table: the name of each registered user
    chats,        \* chats and chat_members tables
    sent          \* packets written by the last event, per session

vars == <<listening, peer, clients, account, chats, sent>>
server == <<listening, peer, clients>>
database == <<account, chats>>

-----------------------------------------------------------------------------
(* Values. *)

Connection == [socket : Socket \cup {NoSocket},
               isAuthorized : BOOLEAN,
               userId : User \cup {NoUser}]

\* The value of "clients" for a session that is not in m_clients.
NoConnection == [socket |-> NoSocket, isAuthorized |-> FALSE, userId |-> NoUser]

ChatRow == [type : {"None", "Direct", "Group"},
            createdBy : User \cup {NoUser},
            members : SUBSET User]

NoChatRow == [type |-> "None", createdBy |-> NoUser, members |-> {}]

\* The operation results; one text stands for all errors of a malformed payload.
Text == {
    "Connected", "Registration successful", "Login successful", "Logout successful",
    "Profile updated successfully", "Chat created successfully",
    "Not authorized", "Invalid register payload", "Invalid login payload",
    "Invalid profile update payload", "Invalid user info request payload",
    "Invalid chat create payload", "Chat search payload is missing",
    "Invalid chat id", "Username already exists", "Registration failed",
    "Invalid login or password", "User is already logged in from another device",
    "User not found", "Failed to update profile", "Failed to read updated profile",
    "Chat must have at least one valid member", "Failed to create chat",
    "Failed to add chat member", "Chat not found", "Invalid sender user id",
    "You are not a member of this chat"}

Packet ==
    [type : {"OPERATION_RESULT"}, success : BOOLEAN, text : Text]
        \cup [type : {"CHAT_LIST_DATA"}, chats : SUBSET Chat]
        \cup [type : {"CHAT_INFO_DATA"}, chat : Chat, members : SUBSET User]
        \cup [type : {"USER_PROFILE_DATA", "PUBLIC_USER_INFO_DATA"}, user : User]
        \cup [type : {"CHAT_MESSAGE"}, chat : Chat, sender : User]

Result(ok, text) == [type |-> "OPERATION_RESULT", success |-> ok, text |-> text]
ChatListData(cs) == [type |-> "CHAT_LIST_DATA", chats |-> cs]
ChatInfoData(c, ms) == [type |-> "CHAT_INFO_DATA", chat |-> c, members |-> ms]
UserProfileData(u) == [type |-> "USER_PROFILE_DATA", user |-> u]
PublicUserInfoData_CopiedType(u) == [type |-> "CHAT_LIST_DATA", user |-> u]
PublicUserInfoData(u) == [type |-> "PUBLIC_USER_INFO_DATA", user |-> u]
ChatMessage(c, u) == [type |-> "CHAT_MESSAGE", chat |-> c, sender |-> u]

logout_KeepsUser(conn) == [conn EXCEPT !.isAuthorized = FALSE]

authorize(conn, u) == [conn EXCEPT !.isAuthorized = TRUE, !.userId = u]
logout(conn) == [conn EXCEPT !.isAuthorized = FALSE, !.userId = NoUser]

-----------------------------------------------------------------------------
(* State predicates and database queries. *)

Connected(s) == clients[s].socket # NoSocket

matchesSocket(s, k) == k = clients[s].socket

Authorized(s) == clients[s].isAuthorized /\ clients[s].userId # NoUser

\* isAuthorized() and "userId() is in members", tested by both broadcast loops.
AuthorizedAmong(s, members) == Authorized(s) /\ clients[s].userId \in members

\* handleLoginUser's loop over the other connections.
LoggedInElsewhere_WrongFlag(s, u) ==
    \E t \in Session \ {s} : clients[s].isAuthorized /\ clients[t].userId = u
LoggedInElsewhere(s, u) == \E t \in Session \ {s} : AuthorizedAmong(t, {u})

\* handleChatMessage's loop: everyone in the chat but the sending session.
Audience_WithSender(s, members) == {t \in Session : AuthorizedAmong(t, members)}
Audience(s, members) == {t \in Session \ {s} : AuthorizedAmong(t, members)}

Registered == {u \in User : account[u] # NoName}

\* A user other than "self" has the name: looked up before a name is written,
\* and held again by the UNIQUE constraint of users.username.  The two are one
\* here, as no other packet is handled between them; where the look-up fails, the
\* constraint decides.
NameTaken_OnlySelf(name, self) == self \in Registered /\ account[self] = name
NameTaken(name, self) == \E v \in User \ {self} : account[v] = name

Stored(c) == chats[c].type # "None"

\* The rows a SELECT yields: all of them, or none when it fails.
Rows(rows) == {rows} \cup (IF ReadsMayFail THEN {{}} ELSE {})

\* The same for one SELECT per element.
RowByRow(rows) == IF ReadsMayFail THEN SUBSET rows ELSE {rows}

ChatsByUserId(u) == {c \in Chat : u \in chats[c].members}

-----------------------------------------------------------------------------
(* Output. *)

Nothing == [s \in Session |-> <<>>]

Reply(s, packets) == sent' = [Nothing EXCEPT ![s] = packets]

\* The event is dropped without an answer and without a state change.
Drop == sent' = Nothing /\ UNCHANGED <<server, database>>

\* sendError and return.
Refuse(s, why) == Reply(s, <<Result(FALSE, why)>>) /\ UNCHANGED <<server, database>>

\* findConnection fails, or the packet came in on another socket than the
\* registered one: register, login and logout return without an answer.
DropForeign(k) == ~matchesSocket(peer[k], k) /\ Drop

\* The same test in the handlers of authorized requests: they answer, and the
\* answer goes to the registered socket of the session.
RefuseUnauthorized(k) ==
    LET s == peer[k] IN
    \/ ~Connected(s) /\ Drop
    \/ /\ Connected(s)
       /\ ~(matchesSocket(s, k) /\ Authorized(s))
       /\ Refuse(s, "Not authorized")

Served(k) == matchesSocket(peer[k], k) /\ Authorized(peer[k])

-----------------------------------------------------------------------------
(* Sockets and sessions. *)

start ==
    /\ ~listening
    /\ listening' = TRUE
    /\ sent' = Nothing
    /\ UNCHANGED <<peer, clients, database>>

stop ==
    /\ listening
    /\ listening' = FALSE
    /\ sent' = Nothing
    /\ UNCHANGED <<peer, clients, database>>

onNewConnection(k, s) ==
    /\ listening
    /\ peer[k] = NoSession
    /\ peer' = [peer EXCEPT ![k] = s]
    /\ sent' = Nothing
    /\ UNCHANGED <<listening, clients, database>>

\* The loop over m_clients: it logs out and erases the first match only.
EraseConnection_LogoutOnly(k) ==
    \/ \E s \in Session :
         matchesSocket(s, k) /\ clients' = [clients EXCEPT ![s] = logout(@)]
    \/ (\A s \in Session : ~matchesSocket(s, k)) /\ UNCHANGED clients
EraseConnection(k) ==
    \/ \E s \in Session :
         matchesSocket(s, k) /\ clients' = [clients EXCEPT ![s] = NoConnection]
    \/ (\A s \in Session : ~matchesSocket(s, k)) /\ UNCHANGED clients

onClientDisconnected(k) ==
    /\ peer[k] # NoSession
    /\ peer' = [peer EXCEPT ![k] = NoSession]
    /\ EraseConnection(k)
    /\ sent' = Nothing
    /\ UNCHANGED <<listening, database>>

\* The session is the packet's sender(): a client process has one session id and
\* writes it into every packet, so the socket it came in on tells it.
handleConnectClient_Rebind(k) ==
    LET s == peer[k] IN
    /\ s # NoSession
    /\ clients' = [clients EXCEPT ![s] = [NoConnection EXCEPT !.socket = k]]
    /\ Reply(s, <<Result(TRUE, "Connected")>>)
    /\ UNCHANGED <<listening, peer, database>>

handleConnectClient(k) ==
    LET s == peer[k] IN
    /\ s # NoSession
    /\ \/ Connected(s) /\ Drop
       \/ /\ ~Connected(s)
          /\ clients' = [clients EXCEPT ![s] = [NoConnection EXCEPT !.socket = k]]
          /\ Reply(s, <<Result(TRUE, "Connected")>>)
          /\ UNCHANGED <<listening, peer, database>>

\* The packets of the client always have a payload: the silent return without
\* one, here and in handleLoginUser, is left out.
handleRegisterUser(k, name) ==
    LET s == peer[k] IN
    /\ s # NoSession
    /\ \/ DropForeign(k)
       \/ /\ matchesSocket(s, k)
          /\ \/ Refuse(s, "Invalid register payload")
             \/ NameTaken(name, NoUser) /\ Refuse(s, "Username already exists")
             \/ Refuse(s, "Registration failed")
             \/ /\ \E u \in User \ Registered :
                     /\ ~NameTaken(name, u)
                     /\ account' = [account EXCEPT ![u] = name]
                /\ Reply(s, <<Result(TRUE, "Registration successful")>>)
                /\ UNCHANGED <<server, chats>>

handleLoginUser(k, u) ==
    LET s == peer[k] IN
    /\ s # NoSession
    /\ \/ DropForeign(k)
       \/ /\ matchesSocket(s, k)
          /\ \/ Refuse(s, "Invalid login payload")
             \/ Refuse(s, "Invalid login or password")
             \/ /\ u \in Registered
                /\ LoggedInElsewhere(s, u)
                /\ Refuse(s, "User is already logged in from another device")
             \/ /\ u \in Registered
                /\ ~LoggedInElsewhere(s, u)
                /\ clients' = [clients EXCEPT ![s] = authorize(@, u)]
                /\ Reply(s, <<Result(TRUE, "Login successful")>>)
                /\ UNCHANGED <<listening, peer, database>>

handleLogoutUser(k) ==
    LET s == peer[k] IN
    /\ s # NoSession
    /\ \/ DropForeign(k)
       \/ /\ matchesSocket(s, k)
          /\ ~clients[s].isAuthorized
          /\ Refuse(s, "Not authorized")
       \/ /\ matchesSocket(s, k)
          /\ clients[s].isAuthorized
          /\ clients' = [clients EXCEPT ![s] = logout(@)]
          /\ Reply(s, <<Result(TRUE, "Logout successful")>>)
          /\ UNCHANGED <<listening, peer, database>>

-----------------------------------------------------------------------------
(* Profiles. *)

handleGetUserProfile(k) ==
    LET s == peer[k]
        u == clients[s].userId
    IN
    /\ s # NoSession
    /\ \/ RefuseUnauthorized(k)
       \/ /\ Served(k)
          /\ \E found \in Rows({u} \cap Registered) :
               \/ found = {} /\ Refuse(s, "User not found")
               \/ /\ found # {}
                  /\ Reply(s, <<UserProfileData(u)>>)
                  /\ UNCHANGED <<server, database>>

\* name = NoName: the update leaves the user name alone.
handleUpdateUserProfile(k, name) ==
    LET s == peer[k]
        u == clients[s].userId
        taken == name # NoName /\ NameTaken(name, u)
    IN
    /\ s # NoSession
    /\ \/ RefuseUnauthorized(k)
       \/ /\ Served(k)
          /\ \/ Refuse(s, "Invalid profile update payload")
             \/ taken /\ Refuse(s, "Username already exists")
             \/ Refuse(s, "Failed to update profile")
             \/ /\ ~taken
                /\ u \in Registered
                /\ account' = [account EXCEPT ![u] = IF name = NoName THEN @ ELSE name]
                /\ \/ Reply(s, <<Result(TRUE, "Profile updated successfully"),
                                 UserProfileData(u)>>)
                   \/ /\ ReadsMayFail
                      /\ Reply(s, <<Result(FALSE, "Failed to read updated profile")>>)
                /\ UNCHANGED <<server, chats>>

\* The code tests isAuthorized() alone: the same as Served where AuthorizedIffUser
\* holds, which is proved of every reachable state.
handleGetUserInfo(k, u) ==
    LET s == peer[k] IN
    /\ s # NoSession
    /\ \/ RefuseUnauthorized(k)
       \/ /\ Served(k)
          /\ \/ Refuse(s, "Invalid user info request payload")
             \/ \E found \in Rows({u} \cap Registered) :
                  \/ found = {} /\ Refuse(s, "User not found")
                  \/ /\ found # {}
                     /\ Reply(s, <<PublicUserInfoData(u)>>)
                     /\ UNCHANGED <<server, database>>

-----------------------------------------------------------------------------
(* Chats. *)

handleGetChats(k) ==
    LET s == peer[k] IN
    /\ s # NoSession
    /\ \/ RefuseUnauthorized(k)
       \/ /\ Served(k)
          /\ \E found \in Rows(ChatsByUserId(clients[s].userId)) :
               Reply(s, <<ChatListData(found)>>)
          /\ UNCHANGED <<server, database>>

\* The query compares the enum column with ILIKE, so it may fail in any case.
handleSearchChats(k, type) ==
    LET s == peer[k] IN
    /\ s # NoSession
    /\ \/ RefuseUnauthorized(k)
       \/ /\ Served(k)
          /\ \/ Refuse(s, "Chat search payload is missing")
             \/ /\ \E found \in {{}, {c \in Chat : chats[c].type = type}} :
                     Reply(s, <<ChatListData(found)>>)
                /\ UNCHANGED <<server, database>>

\* The creator and those requested users that the database finds.
MemberIds(creator, requested) ==
    {creator} \cup (requested \cap Registered)

chatType_OffByOne(members) == IF Cardinality(members) > 1 THEN "Group" ELSE "Direct"
chatType(members) == IF Cardinality(members) > 2 THEN "Group" ELSE "Direct"

\* createChat and the createChatMember calls for the users in "members" went in.
ChatStored(c, creator, type, members) ==
    chats' = [chats EXCEPT ![c] =
                [type |-> type, createdBy |-> creator, members |-> members]]

\* The success, the chat and the refreshed lists, in the order they are written.
\* Each list is read by a query of its own.
AnnounceChat(s, c, members) ==
    \E info \in Rows(members), lists \in [Session -> SUBSET Chat] :
        /\ \A t \in Session :
             lists[t] \in Rows({d \in Chat : clients[t].userId \in chats'[d].members})
        /\ sent' = [t \in Session |->
              (IF t = s THEN <<Result(TRUE, "Chat created successfully"), ChatInfoData(c, info)>>
                        ELSE <<>>)
              \o (IF AuthorizedAmong(t, members) THEN <<ChatListData(lists[t])>>
                                                 ELSE <<>>)]

handleCreateChat(k, requested, c) ==
    LET s == peer[k]
        creator == clients[s].userId
    IN
    /\ s # NoSession
    /\ \/ RefuseUnauthorized(k)
       \/ /\ Served(k)
          /\ ~Stored(c)
          /\ \/ Refuse(s, "Invalid chat create payload")
             \/ Refuse(s, "Failed to create chat")
             \/ \E found \in RowByRow(requested) :
                LET members == MemberIds(creator, found) IN
                \/ /\ Cardinality(members) < 2
                   /\ Refuse(s, "Chat must have at least one valid member")
                \/ /\ Cardinality(members) >= 2
                   /\ \/ \* every membership row went in
                         /\ ChatStored(c, creator, chatType(members), members)
                         /\ AnnounceChat(s, c, members)
                      \/ \* one did not, and deleteChat undid the others
                         /\ Reply(s, <<Result(FALSE, "Failed to add chat member")>>)
                         /\ UNCHANGED chats
                      \/ \* deleteChat failed too, its result is not looked at
                         /\ \E some \in SUBSET members :
                              /\ some # members
                              /\ ChatStored(c, creator, chatType(members), some)
                         /\ Reply(s, <<Result(FALSE, "Failed to add chat member")>>)
                   /\ UNCHANGED <<server, account>>

\* claimed: the sender id in the message, NoUser when null.  The socket the
\* packet came in on is not compared with the registered one.
handleChatMessage(k, c, claimed) ==
    LET s == peer[k]
        user == clients[s].userId
        sender == IF claimed = NoUser THEN user ELSE claimed
    IN
    /\ s # NoSession
    /\ \/ ~Connected(s) /\ Drop
       \/ /\ Connected(s)
          /\ ~clients[s].isAuthorized
          /\ Refuse(s, "Not authorized")
       \/ /\ Authorized(s)
          /\ \/ Refuse(s, "Invalid chat id")
             \/ \E members \in Rows(chats[c].members) :
                \/ members = {} /\ Refuse(s, "Chat not found")
                \/ /\ members # {}
                   /\ sender # user
                   /\ Refuse(s, "Invalid sender user id")
                \/ /\ members # {}
                   /\ sender = user
                   /\ user \notin members
                   /\ Refuse(s, "You are not a member of this chat")
                \/ /\ sender = user
                   /\ user \in members
                   /\ sent' = [t \in Session |->
                        IF t \in Audience(s, members)
                        THEN <<ChatMessage(c, sender)>> ELSE <<>>]
                   /\ UNCHANGED <<server, database>>

-----------------------------------------------------------------------------
(* The process dies: connections and sessions are gone, the database stays. *)

ProcessLost ==
    /\ listening' = FALSE
    /\ peer' = [k \in Socket |-> NoSession]
    /\ clients' = [s \in Session |-> NoConnection]
    /\ sent' = Nothing

crash ==
    /\ listening
    /\ ProcessLost
    /\ UNCHANGED database

\* A crash among the statements of createChat and createChatMember, each its
\* own transaction, leaves the chat with the members stored so far.
crashInCreateChat(k, requested, c) ==
    LET creator == clients[peer[k]].userId
        members == MemberIds(creator, requested)
    IN
    /\ peer[k] # NoSession
    /\ Served(k)
    /\ ~Stored(c)
    /\ Cardinality(members) >= 2
    /\ \E some \in SUBSET members : ChatStored(c, creator, chatType(members), some)
    /\ ProcessLost
    /\ UNCHANGED account

-----------------------------------------------------------------------------

Init ==
    /\ listening = TRUE
    /\ peer = [k \in Socket |-> NoSession]
    /\ clients = [s \in Session |-> NoConnection]
    /\ account = [u \in User |-> NoName]
    /\ chats = [c \in Chat |-> NoChatRow]
    /\ sent = Nothing

\* onServerRead hands each complete packet of a socket to its handler.
onServerRead(k) ==
    \/ handleConnectClient(k)
    \/ \E name \in Name : handleRegisterUser(k, name)
    \/ \E u \in User : handleLoginUser(k, u)
    \/ handleLogoutUser(k)
    \/ handleGetUserProfile(k)
    \/ \E name \in Name \cup {NoName} : handleUpdateUserProfile(k, name)
    \/ \E u \in User : handleGetUserInfo(k, u)
    \/ handleGetChats(k)
    \/ \E type \in {"Direct", "Group"} : handleSearchChats(k, type)
    \/ \E requested \in SUBSET User, c \in Chat : handleCreateChat(k, requested, c)
    \/ \E c \in Chat, claimed \in User \cup {NoUser} : handleChatMessage(k, c, claimed)

Next ==
    \/ start
    \/ stop
    \/ crash
    \/ \E k \in Socket, s \in Session : onNewConnection(k, s)
    \/ \E k \in Socket : onClientDisconnected(k)
    \/ \E k \in Socket : onServerRead(k)
    \/ \E k \in Socket, requested \in SUBSET User, c \in Chat :
          crashInCreateChat(k, requested, c)

Spec == Init /\ [][Next]_vars

-----------------------------------------------------------------------------
(* Correctness. *)

\* Every variable has its type.
TypeOK ==
    /\ listening \in BOOLEAN
    /\ peer \in [Socket -> Session \cup {NoSession}]
    /\ clients \in [Session -> Connection]
    /\ account \in [User -> Name \cup {NoName}]
    /\ chats \in [Chat -> ChatRow]
    /\ sent \in [Session -> Seq(Packet)]

\* A user is authorized on at most one session, whatever the order of logins,
\* logouts, user switches, reconnects and late disconnect events
\* (the loop over m_clients in handleLoginUser).
OneSessionPerUser ==
    \A s, t \in Session :
        s # t /\ Authorized(s) /\ Authorized(t) => clients[s].userId # clients[t].userId

\* m_clients never holds a pointer to a socket that onClientDisconnected has
\* deleted, nor to a socket of another session, although that slot erases the
\* first matching entry only and socket addresses are reused.
NoDanglingSocket ==
    \A s \in Session : Connected(s) => peer[clients[s].socket] = s

\* A connection is authorized exactly when it has a user id, so the code that
\* tests one of them and the code that tests both agree.
AuthorizedIffUser ==
    \A s \in Session :
        /\ clients[s].isAuthorized <=> clients[s].userId # NoUser
        /\ clients[s].isAuthorized => Connected(s) /\ clients[s].userId \in Registered

\* No two users share a name, however registrations and renames interleave.
UniqueUsernames ==
    \A u, v \in Registered : u # v => account[u] # account[v]

Messages(t) == {sent[t][i] : i \in {j \in DOMAIN sent[t] : sent[t][j].type = "CHAT_MESSAGE"}}

\* A routed message comes from a member of its chat and reaches every other
\* member that is logged in, nobody else, and never a session of its author
\* (the code leaves out only the sender's own session).
MessageAudience ==
    \A t \in Session : \A m \in Messages(t) :
        /\ m.sender \in chats[m.chat].members
        /\ \A r \in Session :
             m \in Messages(r) <=>
                 /\ AuthorizedAmong(r, chats[m.chat].members)
                 /\ clients[r].userId # m.sender

Announced(s) == {sent[s][i] : i \in {j \in DOMAIN sent[s] : sent[s][j].type = "CHAT_INFO_DATA"}}

\* A chat announced to its creator is stored with all its members, at least
\* two, the creator among them, and is typed by their number; every member
\* that is logged in is sent, last, a list that has it.
AnnouncementConsistent ==
    \A s \in Session : \A a \in Announced(s) :
        LET row == chats[a.chat] IN
        /\ row.members = a.members
        /\ row.createdBy = clients[s].userId /\ row.createdBy \in row.members
        /\ Cardinality(row.members) >= 2
        /\ row.type = "Group" <=> Cardinality(row.members) > 2
        /\ \A t \in Session : AuthorizedAmong(t, row.members) =>
              sent[t] # <<>> /\ sent[t][Len(sent[t])] = ChatListData(ChatsByUserId(clients[t].userId))

\* The socket of a registered session is never exchanged for another one: a
\* second CONNECT_CLIENT of the same session is ignored while the first lives.
SocketNeverReplaced ==
    [][\A s \in Session :
         Connected(s) /\ Connected(s)' => clients'[s].socket = clients[s].socket]_vars

\* The abstract promise: user accounts are exclusively held (ExclusiveLogin).
Holder(u) == {s \in Session : AuthorizedAmong(s, {u})}

Login == INSTANCE ExclusiveLogin WITH holder <- [u \in User |-> Holder(u)]

\* Logins, logouts and lost connections follow ExclusiveLogin.
LoginExclusive == Login!Spec
=============================================================================
