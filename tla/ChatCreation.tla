---------------------------- MODULE ChatCreation ----------------------------
(***************************************************************************)
(* The chat list of a client, the making of a chat and the messages it     *)
(* receives (client/src/ChatManager.cpp, ChatCreator.cpp, Chat.cpp,        *)
(* ChatMessage.cpp) on top of UserResolver.                                *)
(* Users are added by name, looked up while the window waits; the request  *)
(* to create the chat is answered by a result, the chat and a list of all  *)
(* chats.  A result carries no request, so ChatCreator and UserResolver    *)
(* both take every refusal for their own, and AccountManager takes any     *)
(* result for the end of the login or logout that is pending.              *)
(*                                                                         *)
(* The client always logs in as Self, who is not in User.  The server is   *)
(* the directory of UserResolver and the chats that have Self as a member. *)
(* Of AccountManager (AccountSession has the rest) the pending action and  *)
(* the login are left: it is busy while an action is pending, and logs in  *)
(* only when logged out.  A pending registration would take a result that  *)
(* nobody waits for here.                                                  *)
(***************************************************************************)
EXTENDS UserResolver

CONSTANTS Chat, NoChat, Self

ASSUME ChatAssumption == NoChat \notin Chat /\ Self \notin User

VARIABLES
    pending,       \* AccountManager::m_pendingAction
    loggedIn,      \* AccountManager::m_loggedIn
    chatStorage,   \* ChatManager: the other members of each chat in the list
    selectedChat,  \* ChatManager::m_selectedChat
    unnamed,       \* senders each chat shows as "Loading..." in some message
    window,        \* the chat creation window is open
    creator,       \* ChatCreator: members, pending name, "creating"
    authorized,    \* at the server: the connection is authorized as Self
    serverChats    \* the server's chats of Self: their other members

manager == <<pending, loggedIn, chatStorage, selectedChat, unnamed>>
server == <<authorized, serverChats>>
gui == <<window, creator>>
chatVars == <<resolverVars, manager, gui, server>>

-----------------------------------------------------------------------------
(* Values.  A chat that is not there has no other members; a member keeps  *)
(* the name it was added with.                                             *)

Creator == [members : [User -> Name \cup {NoName}],
            pendingUsername : Name \cup {NoName},
            creating : BOOLEAN]

EmptyCreator == [members |-> [u \in User |-> NoName],
                 pendingUsername |-> NoName,
                 creating |-> FALSE]

NoChats == [c \in Chat |-> {}]
Members == [Chat -> SUBSET (User \cup {Self})]
Listed == {c \in Chat : chatStorage[c] # {}}

LoginUser == [type |-> "LOGIN_USER"]
LogoutUser == [type |-> "LOGOUT_USER"]
GetUserProfile == [type |-> "GET_USER_PROFILE"]
Profile == [type |-> "USER_PROFILE_DATA"]
GetChats == [type |-> "GET_CHATS"]
CreateChat(us) == [type |-> "CREATE_CHAT", members |-> us]
ChatInfo(c, us) == [type |-> "CHAT_INFO_DATA", chat |-> c, members |-> us]
ChatList(list) == [type |-> "CHAT_LIST_DATA", chats |-> list]
ChatMessage(c, u) == [type |-> "CHAT_MESSAGE", chat |-> c, sender |-> u]

-----------------------------------------------------------------------------
(* ChatCreator's methods and slots, as functions of its state. *)

memberIds(a) == {u \in User : a.members[u] # NoName}

canCreateChat(a) == memberIds(a) # {} /\ a.pendingUsername = NoName /\ ~a.creating

addResolvedUser(a, u, n) == [a EXCEPT !.members[u] = IF @ = NoName THEN n ELSE @]

onUserResolved(a, u, n) ==
    IF a.pendingUsername # n THEN a
    ELSE addResolvedUser([a EXCEPT !.pendingUsername = NoName], u, n)

\* Of a pending name and a pending chat, a refusal ends the name only.
onRefused(a) ==
    IF a.pendingUsername # NoName THEN [a EXCEPT !.pendingUsername = NoName]
    ELSE [a EXCEPT !.creating = FALSE]

-----------------------------------------------------------------------------
(* The chat creation window. *)

\* The window opens with ChatCreator::reset.  It stays open when the login or
\* the connection ends.
openWindow ==
    /\ connected /\ loggedIn
    /\ ~window
    /\ window' = TRUE
    /\ creator' = EmptyCreator
    /\ UNCHANGED <<resolverVars, manager, server>>

closeWindow ==
    /\ window
    /\ window' = FALSE
    /\ UNCHANGED <<resolverVars, manager, creator, server>>

\* A cached name yields what the cache of users now has for its user.
addUser(n) ==
    /\ window
    /\ creator.pendingUsername = NoName
    /\ \A u \in User : creator.members[u] # n
    /\ IF HasName(resolver, n)
       THEN /\ LET u == resolver.usernameCache[n]
               IN creator' = addResolvedUser(creator, u, resolver.cache[u])
            /\ UNCHANGED resolverVars
       ELSE /\ creator' = [creator EXCEPT !.pendingUsername = n]
            /\ \/ resolveUsername(n)
               \/ ~AsksForName(resolver, n) /\ UNCHANGED resolverVars
    /\ UNCHANGED <<manager, window, server>>

\* The button closes the window, also if the chat is already in the list.
createChat ==
    /\ window
    /\ canCreateChat(creator)
    /\ InFlight < MaxInFlight
    /\ window' = FALSE
    /\ IF \E c \in Listed : chatStorage[c] = memberIds(creator)
       THEN UNCHANGED <<creator, requests>>
       ELSE /\ creator' = [creator EXCEPT !.creating = TRUE]
            /\ requests' = IF connected THEN Append(requests, CreateChat(memberIds(creator)))
                           ELSE requests
    /\ UNCHANGED <<connected, resolver, directory, replies, manager, server>>

-----------------------------------------------------------------------------
(* The chat list. *)

selectChat(c) ==
    /\ c \in Listed
    /\ selectedChat' = c
    /\ UNCHANGED <<resolverVars, pending, loggedIn, chatStorage, unnamed, gui, server>>

unselectChat ==
    /\ selectedChat' = NoChat
    /\ UNCHANGED <<resolverVars, pending, loggedIn, chatStorage, unnamed, gui, server>>

\* removeChat of every chat that is not in "kept", its messages with it.
Keep_Selection(kept) ==
    /\ UNCHANGED selectedChat
    /\ unnamed' = [c \in Chat |-> IF c \in kept THEN unnamed[c] ELSE {}]
Keep(kept) ==
    /\ selectedChat' = IF selectedChat \in kept THEN selectedChat ELSE NoChat
    /\ unnamed' = [c \in Chat |-> IF c \in kept THEN unnamed[c] ELSE {}]

\* A new Chat, or one with other members, and a new message look up who they
\* show and have not in the cache.
LookUp(us) ==
    LET asked == {u \in us \cap User : AsksForUser(resolver, u)} IN
    /\ resolver' = [resolver EXCEPT !.pendingRequests = @ \cup asked]
    /\ \E order \in SetToSeqs(asked) :
         requests' = requests \o [i \in DOMAIN order |-> AskId(order[i])]

\* onLoggedInChanged, when the login ends: the list is cleared.
logsOut ==
    /\ loggedIn' = FALSE
    /\ chatStorage' = NoChats
    /\ Keep({})

\* The connection comes or goes: AccountManager logs out, UserResolver clears
\* what is pending, ChatCreator is not told.
connectionChanges ==
    /\ onConnectionStatusChanged
    /\ pending' = "None"
    /\ authorized' = FALSE
    /\ IF loggedIn THEN logsOut ELSE UNCHANGED <<loggedIn, chatStorage, selectedChat, unnamed>>
    /\ UNCHANGED <<gui, serverChats>>

\* Drawing a chat's label asks again for members that are still unknown.
label(c) == \E u \in chatStorage[c] \cap User : resolveUserId(u)

-----------------------------------------------------------------------------
(* The account window. *)

\* A button starts an action, one at a time, and sends its request.
starts(action, request) ==
    /\ connected
    /\ pending = "None"
    /\ InFlight < MaxInFlight
    /\ pending' = action
    /\ requests' = Append(requests, request)
    /\ UNCHANGED <<connected, resolver, directory, replies, gui, server>>
    /\ UNCHANGED <<loggedIn, chatStorage, selectedChat, unnamed>>

login == ~loggedIn /\ starts("Login", LoginUser)

logout == loggedIn /\ starts("Logout", LogoutUser)

-----------------------------------------------------------------------------
(* Packets. *)

\* The profile ends a login: onLoggedInChanged fetches the list.  A profile
\* that no login waits for is ignored.
onProfile(p) ==
    /\ p = Profile
    /\ \/ /\ pending = "FetchProfile"
          /\ pending' = "None"
          /\ loggedIn' = TRUE
          /\ requests' = Append(requests, GetChats)
       \/ pending # "FetchProfile" /\ UNCHANGED <<pending, loggedIn, requests>>
    /\ UNCHANGED <<resolver, chatStorage, selectedChat, unnamed, creator>>

\* Whatever the result is of: a pending login takes it for its own and asks for
\* the profile, a pending logout takes it for its own and ends the session.
onSuccess(p) ==
    /\ p = Accepted
    /\ \/ /\ pending = "Login"
          /\ pending' = "FetchProfile"
          /\ requests' = Append(requests, GetUserProfile)
          /\ UNCHANGED <<loggedIn, chatStorage, selectedChat, unnamed>>
       \/ /\ pending = "Logout"
          /\ pending' = "None"
          /\ logsOut
          /\ UNCHANGED requests
       \/ /\ pending \in {"None", "FetchProfile"}
          /\ UNCHANGED <<manager, requests>>
    /\ UNCHANGED <<resolver, creator>>

\* Any error ends what is pending, in each part of the client; a login that
\* fails leaves it logged out, a logout that fails logged in.
onError(p) ==
    /\ p = Refused
    /\ pending' = "None"
    /\ resolver' = NothingPending(resolver)
    /\ creator' = onRefused(creator)
    /\ UNCHANGED <<loggedIn, chatStorage, selectedChat, unnamed, requests>>

\* userResolved names the sender in the messages that wait for it.
Named_Selected(u) == [c \in Chat |-> IF c = selectedChat THEN unnamed[c] \ {u} ELSE unnamed[c]]
Named(u) == [c \in Chat |-> unnamed[c] \ {u}]

onUserInfo(p) ==
    /\ p.type = "PUBLIC_USER_INFO_DATA"
    /\ resolver' = onPublicUserInfoReceived(resolver, p.id, p.name)
    /\ creator' = onUserResolved(creator, p.id, p.name)
    /\ unnamed' = Named(p.id)
    /\ UNCHANGED <<pending, loggedIn, chatStorage, selectedChat, requests>>

OtherMembers(us) == IF loggedIn \/ us = {} THEN us ELSE us \cup {Self}

\* addChat leaves a chat alone that is already in the list.
onChatInfo(p) ==
    /\ p.type = "CHAT_INFO_DATA"
    /\ IF creator.creating
       THEN /\ chatStorage' = [chatStorage EXCEPT ![p.chat] =
                                  IF @ = {} THEN OtherMembers(p.members) ELSE @]
            /\ selectedChat' = p.chat
            /\ creator' = EmptyCreator
            /\ LookUp(p.members)
       ELSE UNCHANGED <<chatStorage, selectedChat, creator, resolver, requests>>
    /\ UNCHANGED <<pending, loggedIn, unnamed>>

\* Who the own user is, and to be left out, is known once logged in.
onChatListReceived(p) ==
    /\ p.type = "CHAT_LIST_DATA"
    /\ chatStorage' = [c \in Chat |-> OtherMembers(p.chats[c])]
    /\ Keep({c \in Chat : p.chats[c] # {}})
    /\ LookUp(UNION {p.chats[c] : c \in {d \in Chat : chatStorage'[d] # chatStorage[d]}})
    /\ UNCHANGED <<creator, pending, loggedIn>>

\* Chat::onNewMessage, connected once per Chat: a message for no chat of the
\* list is heard by nobody.
onNewMessage(p) ==
    /\ p.type = "CHAT_MESSAGE"
    /\ IF p.chat \in Listed
       THEN /\ LookUp({p.sender})
            /\ unnamed' = IF HasUser(resolver, p.sender) THEN unnamed
                          ELSE [unnamed EXCEPT ![p.chat] = @ \cup {p.sender}]
       ELSE UNCHANGED <<resolver, requests, unnamed>>
    /\ UNCHANGED <<creator, pending, loggedIn, chatStorage, selectedChat>>

onPacket ==
    /\ replies # <<>>
    /\ replies' = Tail(replies)
    /\ LET p == Head(replies) IN
         \/ onSuccess(p) \/ onError(p) \/ onUserInfo(p)
         \/ onProfile(p) \/ onChatInfo(p) \/ onChatListReceived(p) \/ onNewMessage(p)
    /\ UNCHANGED <<connected, directory, window, server>>

-----------------------------------------------------------------------------
(* The server. *)

\* The next request is of this type, and the server handles it.
handles(type) ==
    /\ requests # <<>>
    /\ Head(requests).type = type
    /\ requests' = Tail(requests)
    /\ UNCHANGED <<connected, resolver, directory, manager, gui>>

answers(reply) == replies' = Append(replies, reply)

\* Refused for its password or because the user is logged in elsewhere.
handleLoginUser ==
    /\ handles("LOGIN_USER")
    /\ \/ answers(Refused) /\ UNCHANGED authorized
       \/ answers(Accepted) /\ authorized' = TRUE
    /\ UNCHANGED serverChats

handleLogoutUser ==
    /\ handles("LOGOUT_USER")
    /\ answers(IF authorized THEN Accepted ELSE Refused)
    /\ authorized' = FALSE
    /\ UNCHANGED serverChats

handleGetUserProfile ==
    /\ handles("GET_USER_PROFILE")
    /\ answers(Refused) \/ (authorized /\ answers(Profile))
    /\ UNCHANGED server

\* The chats are read without an error.
handleGetChats ==
    /\ handles("GET_CHATS")
    /\ answers(IF authorized THEN ChatList(serverChats) ELSE Refused)
    /\ UNCHANGED server

\* What the creator of a chat is sent after the result.
Created_InfoOnly(c, us, list) == <<ChatInfo(c, us)>>
Created_ListFirst(c, us, list) == <<ChatList(list), ChatInfo(c, us)>>
Created(c, us, list) == <<ChatInfo(c, us), ChatList(list)>>

\* Refused, or stored, announced and listed.
handleCreateChat ==
    /\ handles("CREATE_CHAT")
    /\ \/ answers(Refused) /\ UNCHANGED serverChats
       \/ /\ authorized
          /\ \E c \in Chat : LET us == Head(requests).members IN
               /\ serverChats[c] = {}
               /\ serverChats' = [serverChats EXCEPT ![c] = us]
               /\ replies' = Append(replies, Accepted) \o Created(c, us, serverChats')
    /\ UNCHANGED authorized

\* Another user creates a chat with Self, who is sent the new list.
otherCreatesChat(c, us) ==
    /\ serverChats[c] = {}
    /\ us # {}
    /\ InFlight < MaxInFlight
    /\ serverChats' = [serverChats EXCEPT ![c] = us]
    /\ replies' = IF authorized THEN Append(replies, ChatList(serverChats')) ELSE replies
    /\ UNCHANGED <<connected, resolver, directory, requests, manager, gui, authorized>>

\* A member of one of the chats writes in it.
otherSendsMessage(c, u) ==
    /\ authorized
    /\ u \in serverChats[c]
    /\ InFlight < MaxInFlight
    /\ replies' = Append(replies, ChatMessage(c, u))
    /\ UNCHANGED <<connected, resolver, directory, requests, manager, gui, server>>

-----------------------------------------------------------------------------

ChatInit ==
    /\ ResolverInit
    /\ pending = "None"
    /\ loggedIn = FALSE
    /\ chatStorage = NoChats
    /\ selectedChat = NoChat
    /\ unnamed = [c \in Chat |-> {}]
    /\ window = FALSE
    /\ creator = EmptyCreator
    /\ authorized = FALSE
    /\ serverChats = NoChats

Window ==
    \/ openWindow \/ closeWindow \/ createChat
    \/ \E n \in Name : addUser(n)
    \/ login \/ logout

ChatListEvent ==
    \/ \E c \in Chat : selectChat(c)
    \/ unselectChat
    \/ connectionChanges

\* Labels, the other parts of the client and the users of the other clients.
Elsewhere ==
    \/ /\ \/ \E c \in Chat : label(c)
          \/ otherRequestEnds
          \/ \E u \in User, n \in Name : rename(u, n)
       /\ UNCHANGED <<manager, gui, server>>
    \/ \E c \in Chat, us \in SUBSET User : otherCreatesChat(c, us)
    \/ \E c \in Chat, u \in User : otherSendsMessage(c, u)

ServerReads ==
    \/ handleGetUserInfo /\ UNCHANGED <<manager, gui, server>>
    \/ handleLoginUser \/ handleLogoutUser \/ handleGetUserProfile
    \/ handleGetChats \/ handleCreateChat

ChatNext == Window \/ ChatListEvent \/ onPacket \/ Elsewhere \/ ServerReads

ChatSpec == ChatInit /\ [][ChatNext]_chatVars

\* The client reads what arrives and the server answers what it is asked.
FairChatSpec == ChatSpec /\ WF_chatVars(onPacket) /\ WF_chatVars(ServerReads)

-----------------------------------------------------------------------------
(* Correctness. *)

Requests ==
    {AskId(u) : u \in User} \cup {AskName(n) : n \in Name}
        \cup {LoginUser, LogoutUser, GetUserProfile, GetChats} \cup {CreateChat(us) : us \in (SUBSET User) \ {{}}}

Replies ==
    {Accepted, Refused, Profile} \cup {UserInfo(u, n) : u \in User, n \in Name}
        \cup {ChatInfo(c, us) : c \in Chat, us \in (SUBSET User) \ {{}}}
        \cup {ChatList(list) : list \in [Chat -> SUBSET User]}
        \cup {ChatMessage(c, u) : c \in Chat, u \in User}

\* Every variable and every packet under way has its type.
ChatTypeOK ==
    /\ connected \in BOOLEAN
    /\ resolver \in Resolver
    /\ directory \in [User -> Name \cup {NoName}]
    /\ requests \in Seq(Requests)
    /\ replies \in Seq(Replies)
    /\ pending \in {"None", "Login", "FetchProfile", "Logout"}
    /\ loggedIn \in BOOLEAN
    /\ chatStorage \in Members
    /\ selectedChat \in Chat \cup {NoChat}
    /\ unnamed \in [Chat -> SUBSET User]
    /\ window \in BOOLEAN
    /\ creator \in Creator
    /\ authorized \in BOOLEAN
    /\ serverChats \in [Chat -> SUBSET User]

\* The selected chat, a plain pointer, is one that is still in the list: lists
\* without it, logouts and lost connections all clear the selection.
SelectedIsListed == selectedChat # NoChat => selectedChat \in Listed

\* Whenever nothing is under way, a client that is logged in, here and at the
\* server, lists the chats the server has for it, whoever created them and
\* whichever results, of its own or of other requests, ended its logins and
\* logouts.  "authorized" is needed: a logout that another request's error ends at
\* the client only (AccountManager.cpp:176) leaves a login that is told of nothing.
ListIsCurrent ==
    loggedIn /\ authorized /\ InFlight = 0 => chatStorage = serverChats

\* A created chat is never one the list already has: addChat would drop the
\* new Chat object and its running thread.
NoChatDropped ==
    replies # <<>> /\ Head(replies).type = "CHAT_INFO_DATA" /\ creator.creating
        => Head(replies).chat \notin Listed

\* A message for a chat the client does not show, which nobody hears, comes only
\* while the list with that chat is asked for or behind it on the connection: a
\* chat is announced before anybody writes in it, whoever created it and
\* whatever CHAT_INFO_DATA was taken for.
MessageFindsChat ==
    \A c \in Chat, u \in User :
        loggedIn /\ authorized
            /\ replies # <<>> /\ Head(replies) = ChatMessage(c, u) /\ c \notin Listed
        => \/ GetChats \in Range(requests)
           \/ \E p \in Range(replies) : p.type = "CHAT_LIST_DATA" /\ p.chats[c] # {}

\* No message shows "Loading..." for a sender whose data the client has, though
\* look-ups are refused, forgotten and answered to others meanwhile.
KnownSendersNamed ==
    \A c \in Chat : \A u \in unnamed[c] : ~HasUser(resolver, u)

\* "Returns true while waiting for a user to be resolved from a username"
\* (ChatCreator.h:64): a pending name is one the resolver waits for.
ResolvingIsPending ==
    creator.pendingUsername # NoName =>
        creator.pendingUsername \in resolver.pendingUsernameRequests
=============================================================================
