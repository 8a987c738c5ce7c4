---------------------------- MODULE ServerProofs ----------------------------
(***************************************************************************)
(* Proofs about Server, for any number of sessions, sockets, users and     *)
(* chats.                                                                  *)
(***************************************************************************)
EXTENDS Server, SequenceTheorems, TLAPS

-----------------------------------------------------------------------------
(* What the handlers write is well formed. *)

\* Every packet the server builds is one of the packets of the protocol.
LEMMA PacketTypes ==
    ASSUME NEW ok \in BOOLEAN, NEW text \in Text, NEW u \in User, NEW c \in Chat,
           NEW cs \in SUBSET Chat, NEW ms \in SUBSET User
    PROVE  /\ Result(ok, text) \in Packet
           /\ ChatListData(cs) \in Packet
           /\ ChatInfoData(c, ms) \in Packet
           /\ UserProfileData(u) \in Packet
           /\ PublicUserInfoData(u) \in Packet
           /\ ChatMessage(c, u) \in Packet
  BY DEF Packet, Result, ChatListData, ChatInfoData, UserProfileData,
         PublicUserInfoData, ChatMessage

\* One packet, or two, make a sequence of packets.
LEMMA PairType ==
    ASSUME NEW S, NEW p \in S, NEW q \in S
    PROVE  <<p>> \in Seq(S) /\ <<p, q>> \in Seq(S)
  OBVIOUS

\* An event without output leaves an empty sequence per session.
LEMMA NothingType == Nothing \in [Session -> Seq(Packet)]
  BY DEF Nothing

\* A reply writes to one session and to nobody else.
LEMMA ReplyType ==
    ASSUME NEW s \in Session, NEW packets \in Seq(Packet), Reply(s, packets)
    PROVE  sent' \in [Session -> Seq(Packet)]
  BY NothingType DEF Reply

\* What a reply writes to its session is the packet itself.
LEMMA ReplyOne ==
    ASSUME NEW s \in Session, NEW p \in Packet, Reply(s, <<p>>)
    PROVE  sent' \in [Session -> Seq(Packet)]
<1>1. <<p>> \in Seq(Packet)
  OBVIOUS
<1> QED BY <1>1, ReplyType

\* A step that only answers, with one packet, keeps the types.
LEMMA AnswerType ==
    ASSUME TypeOK, NEW s \in Session, NEW p \in Packet, Reply(s, <<p>>),
           UNCHANGED <<server, database>>
    PROVE  TypeOK'
<1>1. sent' \in [Session -> Seq(Packet)]
  BY ReplyOne
<1> QED BY <1>1 DEF TypeOK, server, database

\* The error answer of a handler keeps the types.
LEMMA RefuseType ==
    ASSUME TypeOK, NEW s \in Session, NEW why \in Text, Refuse(s, why)
    PROVE  TypeOK'
<1>1. Result(FALSE, why) \in Packet
  BY DEF Packet, Result
<1> QED BY <1>1, AnswerType DEF Refuse

\* A packet that is dropped keeps the types.
LEMMA DropType ==
    ASSUME TypeOK, Drop
    PROVE  TypeOK'
  BY NothingType DEF Drop, TypeOK, server, database

\* The answer of the handlers that need an authorized session keeps the types.
LEMMA RefuseUnauthorizedType ==
    ASSUME TypeOK, NEW k \in Socket, peer[k] # NoSession, RefuseUnauthorized(k)
    PROVE  TypeOK'
<1>1. peer[k] \in Session /\ "Not authorized" \in Text
  BY DEF TypeOK, Text
<1>2. CASE Drop
  BY <1>2, DropType
<1>3. CASE Refuse(peer[k], "Not authorized")
  BY <1>1, <1>3, RefuseType
<1> QED BY <1>2, <1>3 DEF RefuseUnauthorized

-----------------------------------------------------------------------------
(* Types, handler by handler. *)

\* start, stop, connections coming and going, and the crash of the server keep the types.
LEMMA LifecycleType ==
    ASSUME TypeOK,
           \/ start \/ stop \/ crash
           \/ \E k \in Socket, s \in Session : onNewConnection(k, s)
           \/ \E k \in Socket : onClientDisconnected(k)
    PROVE  TypeOK'
<1> USE NothingType
<1>1. CASE start
  BY <1>1 DEF start, TypeOK, database
<1>2. CASE stop
  BY <1>2 DEF stop, TypeOK, database
<1>3. CASE crash
  BY <1>3 DEF crash, ProcessLost, TypeOK, database, NoConnection, Connection
<1>4. ASSUME NEW k \in Socket, NEW s \in Session, onNewConnection(k, s)
      PROVE  TypeOK'
  BY <1>4 DEF onNewConnection, TypeOK, database
<1>5. ASSUME NEW k \in Socket, onClientDisconnected(k)
      PROVE  TypeOK'
  <2>1. clients' \in [Session -> Connection]
    <3>1. NoConnection \in Connection
      BY DEF NoConnection, Connection
    <3>2. ASSUME NEW s \in Session, clients' = [clients EXCEPT ![s] = NoConnection]
          PROVE  clients' \in [Session -> Connection]
      BY <3>1, <3>2 DEF TypeOK
    <3>3. CASE UNCHANGED clients
      BY <3>3 DEF TypeOK
    <3> QED BY <1>5, <3>2, <3>3 DEF onClientDisconnected, EraseConnection
  <2>2. peer' \in [Socket -> Session \cup {NoSession}]
    BY <1>5 DEF onClientDisconnected, TypeOK
  <2> QED BY <1>5, <2>1, <2>2 DEF onClientDisconnected, TypeOK, database
<1> QED BY <1>1, <1>2, <1>3, <1>4, <1>5

\* handleConnectClient keeps the types.
LEMMA ConnectType ==
    ASSUME TypeOK, NEW k \in Socket, handleConnectClient(k)
    PROVE  TypeOK'
<1>1. peer[k] \in Session
  BY DEF TypeOK, handleConnectClient
<1>2. CASE Drop
  BY <1>2, DropType
<1>3. CASE ~Drop
  <2>1. /\ clients' = [clients EXCEPT ![peer[k]] = [NoConnection EXCEPT !.socket = k]]
        /\ Reply(peer[k], <<Result(TRUE, "Connected")>>)
        /\ UNCHANGED <<listening, peer, database>>
    BY <1>3 DEF handleConnectClient
  <2>2. Result(TRUE, "Connected") \in Packet
    BY DEF Result, Packet, Text
  <2>3. sent' \in [Session -> Seq(Packet)]
    BY <1>1, <2>1, <2>2, ReplyOne
  <2> QED BY <1>1, <2>1, <2>3 DEF TypeOK, NoConnection, Connection, database
<1> QED BY <1>2, <1>3

\* handleRegisterUser keeps the types.
LEMMA RegisterType ==
    ASSUME TypeOK, NEW k \in Socket, NEW name \in Name, handleRegisterUser(k, name)
    PROVE  TypeOK'
<1> DEFINE s == peer[k]
<1>1. s \in Session
  BY DEF TypeOK, handleRegisterUser
<1>2. CASE DropForeign(k)
  BY <1>2, DropType DEF DropForeign
<1>3. ASSUME NEW why \in Text, Refuse(s, why)
      PROVE  TypeOK'
  BY <1>1, <1>3, RefuseType
<1>4. ASSUME NEW u \in User, account' = [account EXCEPT ![u] = name],
             Reply(s, <<Result(TRUE, "Registration successful")>>),
             UNCHANGED <<server, chats>>
      PROVE  TypeOK'
  <2>1. Result(TRUE, "Registration successful") \in Packet
    BY DEF Result, Packet, Text
  <2>2. sent' \in [Session -> Seq(Packet)]
    BY <1>1, <1>4, <2>1, ReplyOne
  <2> QED BY <1>4, <2>2 DEF TypeOK, server
<1>5. /\ "Invalid register payload" \in Text
      /\ "Username already exists" \in Text
      /\ "Registration failed" \in Text
  BY DEF Text
<1> QED BY <1>2, <1>3, <1>4, <1>5 DEF handleRegisterUser, Registered

\* handleLoginUser keeps the types.
LEMMA LoginType ==
    ASSUME TypeOK, NEW k \in Socket, NEW u \in User, handleLoginUser(k, u)
    PROVE  TypeOK'
<1> DEFINE s == peer[k]
<1>1. s \in Session
  BY DEF TypeOK, handleLoginUser
<1>2. CASE DropForeign(k)
  BY <1>2, DropType DEF DropForeign
<1>3. ASSUME NEW why \in Text, Refuse(s, why)
      PROVE  TypeOK'
  BY <1>1, <1>3, RefuseType
<1>4. ASSUME clients' = [clients EXCEPT ![s] = authorize(@, u)],
             Reply(s, <<Result(TRUE, "Login successful")>>),
             UNCHANGED <<listening, peer, database>>
      PROVE  TypeOK'
  <2>1. Result(TRUE, "Login successful") \in Packet
    BY DEF Result, Packet, Text
  <2>2. sent' \in [Session -> Seq(Packet)]
    BY <1>1, <1>4, <2>1, ReplyOne
  <2> QED BY <1>1, <1>4, <2>2 DEF TypeOK, authorize, Connection, database
<1>5. /\ "Invalid login payload" \in Text
      /\ "Invalid login or password" \in Text
      /\ "User is already logged in from another device" \in Text
  BY DEF Text
<1> QED BY <1>2, <1>3, <1>4, <1>5 DEF handleLoginUser

\* handleLogoutUser keeps the types.
LEMMA LogoutType ==
    ASSUME TypeOK, NEW k \in Socket, handleLogoutUser(k)
    PROVE  TypeOK'
<1> DEFINE s == peer[k]
<1>1. s \in Session /\ "Not authorized" \in Text
  BY DEF TypeOK, handleLogoutUser, Text
<1>2. CASE DropForeign(k)
  BY <1>2, DropType DEF DropForeign
<1>3. CASE Refuse(s, "Not authorized")
  BY <1>1, <1>3, RefuseType
<1>4. ASSUME clients' = [clients EXCEPT ![s] = logout(@)],
             Reply(s, <<Result(TRUE, "Logout successful")>>),
             UNCHANGED <<listening, peer, database>>
      PROVE  TypeOK'
  <2>1. Result(TRUE, "Logout successful") \in Packet
    BY DEF Result, Packet, Text
  <2>2. sent' \in [Session -> Seq(Packet)]
    BY <1>1, <1>4, <2>1, ReplyOne
  <2> QED BY <1>1, <1>4, <2>2 DEF TypeOK, logout, Connection, database
<1> QED BY <1>2, <1>3, <1>4 DEF handleLogoutUser

\* handleGetUserProfile and handleGetUserInfo
LEMMA ProfileReadType ==
    ASSUME TypeOK, NEW k \in Socket,
           \/ handleGetUserProfile(k)
           \/ \E u \in User : handleGetUserInfo(k, u)
    PROVE  TypeOK'
<1> DEFINE s == peer[k]
<1>1. s \in Session
  BY DEF TypeOK, handleGetUserProfile, handleGetUserInfo
<1>2. CASE RefuseUnauthorized(k)
  BY <1>1, <1>2, NullAssumption, RefuseUnauthorizedType
<1>3. ASSUME NEW why \in Text, Refuse(s, why)
      PROVE  TypeOK'
  BY <1>1, <1>3, RefuseType
<1>4. ASSUME Served(k), Reply(s, <<UserProfileData(clients[s].userId)>>),
             UNCHANGED <<server, database>>
      PROVE  TypeOK'
  <2>1. UserProfileData(clients[s].userId) \in Packet
    BY <1>1, <1>4 DEF Served, Authorized, TypeOK, Connection, UserProfileData, Packet
  <2> QED BY <1>1, <1>4, <2>1, AnswerType
<1>5. ASSUME NEW u \in User, Reply(s, <<PublicUserInfoData(u)>>),
             UNCHANGED <<server, database>>
      PROVE  TypeOK'
  <2>1. PublicUserInfoData(u) \in Packet
    BY DEF PublicUserInfoData, Packet
  <2> QED BY <1>1, <1>5, <2>1, AnswerType
<1>6. "User not found" \in Text /\ "Invalid user info request payload" \in Text
  BY DEF Text
<1>7. CASE handleGetUserProfile(k)
  BY <1>2, <1>3, <1>4, <1>6, <1>7 DEF handleGetUserProfile
<1>8. ASSUME NEW u \in User, handleGetUserInfo(k, u)
      PROVE  TypeOK'
  BY <1>2, <1>3, <1>5, <1>6, <1>8 DEF handleGetUserInfo
<1> QED BY <1>7, <1>8

\* handleUpdateUserProfile keeps the types.
LEMMA UpdateProfileType ==
    ASSUME TypeOK, NEW k \in Socket, NEW name \in Name \cup {NoName},
           handleUpdateUserProfile(k, name)
    PROVE  TypeOK'
<1> DEFINE s == peer[k]
           u == clients[s].userId
           Renamed == account' = [account EXCEPT ![u] = IF name = NoName THEN @ ELSE name]
<1>1. s \in Session
  BY DEF TypeOK, handleUpdateUserProfile
<1>2. CASE RefuseUnauthorized(k)
  BY <1>1, <1>2, NullAssumption, RefuseUnauthorizedType
<1>3. ASSUME NEW why \in Text, Refuse(s, why)
      PROVE  TypeOK'
  BY <1>1, <1>3, RefuseType
<1>4. ASSUME Served(k), Renamed, UNCHANGED <<server, chats>>,
             \/ Reply(s, <<Result(TRUE, "Profile updated successfully"), UserProfileData(u)>>)
             \/ Reply(s, <<Result(FALSE, "Failed to read updated profile")>>)
      PROVE  TypeOK'
  <2>1. u \in User
    BY <1>1, <1>4 DEF Served, Authorized, TypeOK, Connection
  <2>2. /\ <<Result(TRUE, "Profile updated successfully"), UserProfileData(u)>> \in Seq(Packet)
        /\ <<Result(FALSE, "Failed to read updated profile")>> \in Seq(Packet)
    <3>1. /\ Result(TRUE, "Profile updated successfully") \in Packet
          /\ Result(FALSE, "Failed to read updated profile") \in Packet
      BY DEF Result, Packet, Text
    <3>2. UserProfileData(u) \in Packet
      BY <2>1, PacketTypes DEF UserProfileData, Packet
    <3> QED BY <3>1, <3>2, PairType
  <2>3. sent' \in [Session -> Seq(Packet)]
    BY <1>1, <1>4, <2>2, ReplyType
  <2> QED BY <1>4, <2>1, <2>3 DEF TypeOK, server
<1>5. /\ "Invalid profile update payload" \in Text
      /\ "Username already exists" \in Text
      /\ "Failed to update profile" \in Text
  BY DEF Text
<1> QED BY <1>2, <1>3, <1>4, <1>5 DEF handleUpdateUserProfile

\* handleGetChats and handleSearchChats
LEMMA ChatListType ==
    ASSUME TypeOK, NEW k \in Socket,
           \/ handleGetChats(k)
           \/ \E type \in {"Direct", "Group"} : handleSearchChats(k, type)
    PROVE  TypeOK'
<1> DEFINE s == peer[k]
<1>1. s \in Session
  BY DEF TypeOK, handleGetChats, handleSearchChats
<1>2. CASE RefuseUnauthorized(k)
  BY <1>1, <1>2, NullAssumption, RefuseUnauthorizedType
<1>3. CASE Refuse(s, "Chat search payload is missing")
  <2>1. "Chat search payload is missing" \in Text
    BY DEF Text
  <2> QED BY <1>1, <1>3, <2>1, RefuseType
<1>4. ASSUME NEW cs \in SUBSET Chat, Reply(s, <<ChatListData(cs)>>),
             UNCHANGED <<server, database>>
      PROVE  TypeOK'
  <2>1. ChatListData(cs) \in Packet
    BY DEF ChatListData, Packet
  <2> QED BY <1>1, <1>4, <2>1, AnswerType
<1>5. \A cs \in Rows(ChatsByUserId(clients[s].userId)) : cs \in SUBSET Chat
  BY DEF Rows, ChatsByUserId
<1>6. CASE handleGetChats(k)
  BY <1>2, <1>4, <1>5, <1>6 DEF handleGetChats
<1>7. ASSUME NEW type \in {"Direct", "Group"}, handleSearchChats(k, type)
      PROVE  TypeOK'
  BY <1>2, <1>3, <1>4, <1>7 DEF handleSearchChats
<1> QED BY <1>6, <1>7

\* createChat and its compensation.
LEMMA ChatStoredType ==
    ASSUME TypeOK, NEW c \in Chat, NEW creator \in User, NEW members \in SUBSET User,
           NEW some \in SUBSET members,
           ChatStored(c, creator, chatType(members), some)
    PROVE  chats' \in [Chat -> ChatRow]
<1>1. [type |-> chatType(members), createdBy |-> creator, members |-> some] \in ChatRow
  BY DEF ChatRow, chatType
<1> QED BY <1>1 DEF ChatStored, TypeOK

\* The members of a new chat are users.
LEMMA MemberIdsType ==
    ASSUME NEW creator \in User, NEW requested
    PROVE  MemberIds(creator, requested) \in SUBSET User
  BY DEF MemberIds, Registered

\* The packets that announce a chat are packets of the protocol.
LEMMA AnnounceType ==
    ASSUME NEW s \in Session, NEW c \in Chat, NEW members \in SUBSET User,
           AnnounceChat(s, c, members)
    PROVE  sent' \in [Session -> Seq(Packet)]
<1>1. PICK info \in Rows(members), lists \in [Session -> SUBSET Chat] :
        sent' = [t \in Session |->
              (IF t = s THEN <<Result(TRUE, "Chat created successfully"), ChatInfoData(c, info)>>
                        ELSE <<>>)
              \o (IF AuthorizedAmong(t, members) THEN <<ChatListData(lists[t])>>
                                                 ELSE <<>>)]
  BY DEF AnnounceChat
<1>2. info \in SUBSET User
  BY DEF Rows
<1>3. <<Result(TRUE, "Chat created successfully"), ChatInfoData(c, info)>> \in Seq(Packet)
  <2>1. Result(TRUE, "Chat created successfully") \in Packet
    BY DEF Result, Packet, Text
  <2>2. ChatInfoData(c, info) \in Packet
    BY <1>2 DEF ChatInfoData, Packet
  <2> QED BY <2>1, <2>2, PairType
<1>4. ASSUME NEW t \in Session
      PROVE  <<ChatListData(lists[t])>> \in Seq(Packet)
  <2>1. ChatListData(lists[t]) \in Packet
    BY DEF ChatListData, Packet
  <2> QED BY <2>1, PairType
<1>5. ASSUME NEW p \in Seq(Packet), NEW q \in Seq(Packet)
      PROVE  p \o q \in Seq(Packet)
  BY ConcatProperties
<1>6. <<>> \in Seq(Packet)
  OBVIOUS
<1> QED BY <1>1, <1>3, <1>4, <1>5, <1>6

\* handleCreateChat keeps the types, whether the chat is stored, refused or undone.
LEMMA CreateChatType ==
    ASSUME TypeOK, NEW k \in Socket, NEW requested \in SUBSET User, NEW c \in Chat,
           handleCreateChat(k, requested, c)
    PROVE  TypeOK'
<1> DEFINE s == peer[k]
           creator == clients[s].userId
<1>1. s \in Session
  BY DEF TypeOK, handleCreateChat
<1>2. CASE RefuseUnauthorized(k)
  BY <1>1, <1>2, NullAssumption, RefuseUnauthorizedType
<1>3. ASSUME NEW why \in Text, Refuse(s, why)
      PROVE  TypeOK'
  BY <1>1, <1>3, RefuseType
<1>4. ASSUME Served(k), NEW found \in RowByRow(requested),
             NEW members, members = MemberIds(creator, found),
             UNCHANGED <<server, account>>,
             \/ /\ ChatStored(c, creator, chatType(members), members)
                /\ AnnounceChat(s, c, members)
             \/ /\ Reply(s, <<Result(FALSE, "Failed to add chat member")>>)
                /\ UNCHANGED chats
             \/ /\ \E some \in SUBSET members :
                     some # members /\ ChatStored(c, creator, chatType(members), some)
                /\ Reply(s, <<Result(FALSE, "Failed to add chat member")>>)
      PROVE  TypeOK'
  <2>1. creator \in User
    BY <1>1, <1>4 DEF Served, Authorized, TypeOK, Connection
  <2>2. members \in SUBSET User
    BY <1>4, <2>1, MemberIdsType
  <2>3. chats' \in [Chat -> ChatRow]
    <3>1. CASE \E some \in SUBSET members : ChatStored(c, creator, chatType(members), some)
      BY <3>1, <2>1, <2>2, ChatStoredType
    <3>2. CASE UNCHANGED chats
      BY <3>2 DEF TypeOK
    <3> QED BY <1>4, <3>1, <3>2
  <2>4. sent' \in [Session -> Seq(Packet)]
    <3>1. Result(FALSE, "Failed to add chat member") \in Packet
      BY DEF Result, Packet, Text
    <3> QED BY <1>1, <1>4, <2>2, <3>1, ReplyOne, AnnounceType
  <2> QED BY <1>4, <2>3, <2>4 DEF TypeOK, server
<1>5. /\ "Invalid chat create payload" \in Text
      /\ "Failed to create chat" \in Text
      /\ "Chat must have at least one valid member" \in Text
  BY DEF Text
<1>6. CASE Served(k) /\ ~RefuseUnauthorized(k)
  <2>1. CASE Refuse(s, "Invalid chat create payload")
    BY <1>3, <1>5, <2>1
  <2>2. CASE Refuse(s, "Failed to create chat")
    BY <1>3, <1>5, <2>2
  <2>3. CASE Refuse(s, "Chat must have at least one valid member")
    BY <1>3, <1>5, <2>3
  <2> QED BY <1>4, <1>6, <2>1, <2>2, <2>3 DEF handleCreateChat
<1> QED BY <1>2, <1>6 DEF handleCreateChat

\* handleChatMessage keeps the types.
LEMMA ChatMessageType ==
    ASSUME TypeOK, NEW k \in Socket, NEW c \in Chat, NEW claimed \in User \cup {NoUser},
           handleChatMessage(k, c, claimed)
    PROVE  TypeOK'
<1> DEFINE s == peer[k]
           user == clients[s].userId
<1>1. s \in Session
  BY DEF TypeOK, handleChatMessage
<1>2. CASE Drop
  BY <1>2, DropType
<1>3. ASSUME NEW why \in Text, Refuse(s, why)
      PROVE  TypeOK'
  BY <1>1, <1>3, RefuseType
<1>4. ASSUME Authorized(s), NEW members,
             sent' = [t \in Session |-> IF t \in Audience(s, members)
                                        THEN <<ChatMessage(c, user)>> ELSE <<>>],
             UNCHANGED <<server, database>>
      PROVE  TypeOK'
  <2>1. user \in User
    BY <1>1, <1>4 DEF Authorized, TypeOK, Connection
  <2>2. ChatMessage(c, user) \in Packet
    BY <2>1 DEF ChatMessage, Packet
  <2>3. <<ChatMessage(c, user)>> \in Seq(Packet) /\ <<>> \in Seq(Packet)
    BY <2>2, PairType
  <2>4. sent' \in [Session -> Seq(Packet)]
    BY <1>4, <2>3
  <2> QED BY <1>4, <2>4 DEF TypeOK, server, database
<1>5. /\ "Not authorized" \in Text /\ "Invalid chat id" \in Text
      /\ "Chat not found" \in Text /\ "Invalid sender user id" \in Text
      /\ "You are not a member of this chat" \in Text
  BY DEF Text
<1> QED BY <1>2, <1>3, <1>4, <1>5 DEF handleChatMessage

\* A crash among the inserts of handleCreateChat keeps the types.
LEMMA CrashInCreateChatType ==
    ASSUME TypeOK, NEW k \in Socket, NEW requested \in SUBSET User, NEW c \in Chat,
           crashInCreateChat(k, requested, c)
    PROVE  TypeOK'
<1> DEFINE creator == clients[peer[k]].userId
           members == MemberIds(creator, requested)
<1>1. creator \in User
  BY DEF crashInCreateChat, Served, Authorized, TypeOK, Connection
<1>2. members \in SUBSET User
  BY <1>1, MemberIdsType
<1>3. chats' \in [Chat -> ChatRow]
  BY <1>1, <1>2, ChatStoredType DEF crashInCreateChat
<1> QED BY <1>3, NothingType DEF crashInCreateChat, ProcessLost, TypeOK,
           NoConnection, Connection

\* Every step of the server keeps the types of its state and of its output.
LEMMA TypeStep ==
    ASSUME TypeOK, [Next]_vars
    PROVE  TypeOK'
<1>1. CASE UNCHANGED vars
  BY <1>1 DEF vars, TypeOK
<1>2. ASSUME NEW k \in Socket, onServerRead(k)
      PROVE  TypeOK'
  BY <1>2, ConnectType, RegisterType, LoginType, LogoutType, ProfileReadType,
     UpdateProfileType, ChatListType, CreateChatType, ChatMessageType
     DEF onServerRead
<1>3. CASE Next
  BY <1>2, <1>3, LifecycleType, CrashInCreateChatType DEF Next
<1> QED BY <1>1, <1>3

\* TypeOK holds in every reachable state, and with it the typing of every packet
\* written to a client.
THEOREM TypeCorrect == Spec => []TypeOK
<1>1. Init => TypeOK
  BY NothingType DEF Init, TypeOK, NoConnection, Connection, NoChatRow, ChatRow
<1> QED BY <1>1, TypeStep, PTL DEF Spec

-----------------------------------------------------------------------------
(***************************************************************************)
(* Sessions.  OneSessionPerUser is not inductive alone: an entry that      *)
(* outlives its socket could be authorized without being registered, and   *)
(* an entry with a user but no authorization flag would be passed over by  *)
(* the loop that looks for a second login.  SessionInv adds both.          *)
(***************************************************************************)

SessionInv == TypeOK /\ NoDanglingSocket /\ AuthorizedIffUser /\ OneSessionPerUser

\* The only ways to change the sockets, the sessions or the users.
Quiet == UNCHANGED <<peer, clients, account>>

Accepts(k, s) ==
    peer[k] = NoSession /\ peer' = [peer EXCEPT ![k] = s] /\ UNCHANGED <<clients, account>>

Drops(k) ==
    onClientDisconnected(k)

Connects(k, s) ==
    /\ peer[k] = s
    /\ ~Connected(s)
    /\ clients' = [clients EXCEPT ![s] = [NoConnection EXCEPT !.socket = k]]
    /\ UNCHANGED <<peer, account>>

LogsIn(s, u) ==
    /\ Connected(s)
    /\ u \in Registered
    /\ ~LoggedInElsewhere(s, u)
    /\ clients' = [clients EXCEPT ![s] = authorize(@, u)]
    /\ UNCHANGED <<peer, account>>

LogsOut(s) ==
    /\ clients' = [clients EXCEPT ![s] = logout(@)]
    /\ UNCHANGED <<peer, account>>

Names(u, name) ==
    /\ ~NameTaken(name, u)
    /\ account' = [account EXCEPT ![u] = name]
    /\ UNCHANGED <<peer, clients>>

Ends == ProcessLost /\ UNCHANGED account

\* Each handler either leaves sockets, sessions and users alone or makes one of
\* these changes; the chat and query handlers are quiet.
LEMMA StepKinds ==
    ASSUME TypeOK, [Next]_vars
    PROVE  \/ Quiet
           \/ Ends
           \/ \E k \in Socket : Drops(k)
           \/ \E k \in Socket, s \in Session :
                 Accepts(k, s) \/ Connects(k, s) \/ LogsOut(s)
           \/ \E s \in Session, u \in User : LogsIn(s, u)
           \/ \E u \in User, name \in Name : Names(u, name)
<1> DEFINE Goal ==
           \/ Quiet
           \/ Ends
           \/ \E k \in Socket : Drops(k)
           \/ \E k \in Socket, s \in Session :
                 Accepts(k, s) \/ Connects(k, s) \/ LogsOut(s)
           \/ \E s \in Session, u \in User : LogsIn(s, u)
           \/ \E u \in User, name \in Name : Names(u, name)
<1>1. ASSUME NEW s, NEW why, Refuse(s, why)
      PROVE  Quiet
  BY <1>1 DEF Refuse, server, database, Quiet
<1>2. ASSUME Drop
      PROVE  Quiet
  BY <1>2 DEF Drop, server, database, Quiet
<1>3. ASSUME NEW k, RefuseUnauthorized(k)
      PROVE  Quiet
  <2>1. Drop \/ Refuse(peer[k], "Not authorized")
    BY <1>3 DEF RefuseUnauthorized
  <2> QED BY <1>1, <1>2, <2>1
<1>4. CASE UNCHANGED vars \/ start \/ stop
  BY <1>4 DEF vars, start, stop, Quiet, database
<1>5. CASE crash \/ \E k \in Socket, requested \in SUBSET User, c \in Chat :
              crashInCreateChat(k, requested, c)
  BY <1>5 DEF crash, crashInCreateChat, Ends, database
<1>6. CASE \E k \in Socket, s \in Session : onNewConnection(k, s)
  BY <1>6 DEF onNewConnection, Accepts, database
<1>7. CASE \E k \in Socket : onClientDisconnected(k)
  BY <1>7 DEF Drops
<1>8. ASSUME NEW k \in Socket, onServerRead(k), peer[k] \in Session
      PROVE  Goal
  <2>1. CASE handleConnectClient(k)
    BY <1>2, <1>8, <2>1 DEF handleConnectClient, Connects, database
  <2>2. ASSUME NEW name \in Name, handleRegisterUser(k, name)
        PROVE  Goal
    <3>1. ASSUME NEW u \in User, ~NameTaken(name, u),
                 account' = [account EXCEPT ![u] = name], UNCHANGED <<server, chats>>
          PROVE  Goal
      BY <3>1 DEF Names, server
    <3> QED BY <1>1, <1>2, <2>2, <3>1 DEF handleRegisterUser, DropForeign, Registered
  <2>3. ASSUME NEW u \in User, handleLoginUser(k, u)
        PROVE  Goal
    <3>1. CASE Drop \/ \E why : Refuse(peer[k], why)
      BY <1>1, <1>2, <3>1
    <3>2. CASE ~(Drop \/ \E why : Refuse(peer[k], why))
      BY <1>8, <2>3, <3>2, NullAssumption
         DEF handleLoginUser, DropForeign, LogsIn, matchesSocket, Connected, database
    <3> QED BY <3>1, <3>2
  <2>4. CASE handleLogoutUser(k)
    <3>1. CASE Drop \/ \E why : Refuse(peer[k], why)
      BY <1>1, <1>2, <3>1
    <3>2. CASE ~(Drop \/ \E why : Refuse(peer[k], why))
      BY <1>8, <2>4, <3>2 DEF handleLogoutUser, DropForeign, LogsOut, database
    <3> QED BY <3>1, <3>2
  <2>5. ASSUME NEW name \in Name \cup {NoName}, handleUpdateUserProfile(k, name)
        PROVE  Goal
    <3> DEFINE u == clients[peer[k]].userId
    <3>1. CASE RefuseUnauthorized(k) \/ \E why : Refuse(peer[k], why)
      BY <1>1, <1>3, <3>1
    <3>2. CASE /\ u \in Registered
               /\ ~(name # NoName /\ NameTaken(name, u))
               /\ account' = [account EXCEPT ![u] = IF name = NoName THEN @ ELSE name]
               /\ UNCHANGED <<server, chats>>
      <4>1. CASE name = NoName
        BY <3>2, <4>1 DEF Quiet, server, TypeOK
      <4>2. CASE name # NoName
        BY <3>2, <4>2 DEF Names, server, Registered
      <4> QED BY <4>1, <4>2
    <3> QED BY <2>5, <3>1, <3>2 DEF handleUpdateUserProfile
  <2>6. CASE \/ handleGetUserProfile(k)
             \/ \E u \in User : handleGetUserInfo(k, u)
    BY <1>1, <1>3, <2>6 DEF handleGetUserProfile, handleGetUserInfo, server, database, Quiet
  <2>7. CASE handleGetChats(k) \/ \E type \in {"Direct", "Group"} : handleSearchChats(k, type)
    BY <1>1, <1>3, <2>7 DEF handleGetChats, handleSearchChats, server, database, Quiet
  <2>8. ASSUME NEW requested \in SUBSET User, NEW c \in Chat, handleCreateChat(k, requested, c)
        PROVE  Goal
    <3>1. CASE RefuseUnauthorized(k) \/ \E why : Refuse(peer[k], why)
      BY <1>1, <1>3, <3>1
    <3>2. CASE UNCHANGED <<server, account>>
      BY <3>2 DEF server, Quiet
    <3> QED BY <2>8, <3>1, <3>2 DEF handleCreateChat
  <2>9. ASSUME NEW c \in Chat, NEW claimed \in User \cup {NoUser},
               handleChatMessage(k, c, claimed)
        PROVE  Goal
    <3>1. CASE Drop \/ \E why : Refuse(peer[k], why)
      BY <1>1, <1>2, <3>1
    <3>2. CASE UNCHANGED <<server, database>>
      BY <3>2 DEF server, database, Quiet
    <3> QED BY <2>9, <3>1, <3>2 DEF handleChatMessage
  <2> QED BY <1>8, <2>1, <2>2, <2>3, <2>4, <2>5, <2>6, <2>7, <2>8, <2>9 DEF onServerRead
<1>9. ASSUME NEW k \in Socket, onServerRead(k)
      PROVE  peer[k] \in Session
  BY <1>9 DEF onServerRead, handleConnectClient, handleRegisterUser, handleLoginUser,
     handleLogoutUser, handleGetUserProfile, handleUpdateUserProfile, handleGetUserInfo,
     handleGetChats, handleSearchChats, handleCreateChat, handleChatMessage, TypeOK
<1> QED BY <1>4, <1>5, <1>6, <1>7, <1>8, <1>9 DEF Next

\* A user of an authorized session is registered, and stays so.
LEMMA RegisteredGrows ==
    ASSUME TypeOK, NEW u \in User, NEW name \in Name, Names(u, name)
    PROVE  Registered \subseteq Registered'
  BY NullAssumption DEF Names, Registered, TypeOK

\* Every change of sockets, sessions and users preserves the session invariant:
\* one proof per kind of step.
LEMMA SessionStep ==
    ASSUME SessionInv, [Next]_vars
    PROVE  SessionInv'
<1> USE NullAssumption DEF Connected, Authorized, matchesSocket
<1>0. TypeOK /\ TypeOK'
  BY TypeStep DEF SessionInv
<1>1. CASE Quiet
  BY <1>0, <1>1 DEF Quiet, SessionInv, NoDanglingSocket, AuthorizedIffUser,
                    OneSessionPerUser, Registered
<1>2. CASE Ends
  BY <1>0, <1>2 DEF Ends, ProcessLost, NoConnection, SessionInv, NoDanglingSocket,
                    AuthorizedIffUser, OneSessionPerUser
<1>3. ASSUME NEW k \in Socket, Drops(k)
      PROVE  SessionInv'
  <2>1. /\ peer[k] # NoSession
        /\ peer' = [peer EXCEPT ![k] = NoSession]
        /\ account' = account
    BY <1>3 DEF Drops, onClientDisconnected, database
  <2>2. ASSUME NEW s \in Session, clients[s].socket = k,
               clients' = [clients EXCEPT ![s] = NoConnection]
        PROVE  SessionInv'
    <3>1. \A t \in Session : clients'[t] = IF t = s THEN NoConnection ELSE clients[t]
      BY <1>0, <2>2 DEF TypeOK
    <3>2. NoDanglingSocket'
      \* no other entry points to k: it would belong to the same session
      BY <1>0, <2>1, <2>2, <3>1 DEF SessionInv, NoDanglingSocket, NoConnection, TypeOK
    <3>3. AuthorizedIffUser'
      BY <2>1, <3>1 DEF SessionInv, AuthorizedIffUser, NoConnection, Registered
    <3>4. OneSessionPerUser'
      BY <3>1 DEF SessionInv, OneSessionPerUser, NoConnection
    <3> QED BY <1>0, <3>2, <3>3, <3>4 DEF SessionInv
  <2>3. CASE (\A s \in Session : clients[s].socket # k) /\ UNCHANGED clients
    <3>1. NoDanglingSocket'
      BY <1>0, <2>1, <2>3 DEF SessionInv, NoDanglingSocket, TypeOK
    <3> QED BY <1>0, <2>1, <2>3, <3>1 DEF SessionInv, AuthorizedIffUser,
               OneSessionPerUser, Registered
  <2> QED BY <1>3, <2>2, <2>3 DEF Drops, onClientDisconnected, EraseConnection
<1>4. ASSUME NEW k \in Socket, NEW s \in Session, Accepts(k, s)
      PROVE  SessionInv'
  <2>1. NoDanglingSocket'
    BY <1>0, <1>4 DEF Accepts, SessionInv, NoDanglingSocket, TypeOK
  <2> QED BY <1>0, <1>4, <2>1 DEF Accepts, SessionInv, AuthorizedIffUser,
             OneSessionPerUser, Registered
<1>5. ASSUME NEW k \in Socket, NEW s \in Session, Connects(k, s)
      PROVE  SessionInv'
  <2>1. \A t \in Session : clients'[t] =
          IF t = s THEN [NoConnection EXCEPT !.socket = k] ELSE clients[t]
    BY <1>0, <1>5 DEF Connects, TypeOK
  <2>2. NoDanglingSocket'
    BY <1>5, <2>1 DEF Connects, SessionInv, NoDanglingSocket, NoConnection
  <2>3. AuthorizedIffUser'
    BY <1>5, <2>1 DEF Connects, SessionInv, AuthorizedIffUser, NoConnection, Registered
  <2>4. OneSessionPerUser'
    BY <2>1 DEF SessionInv, OneSessionPerUser, NoConnection
  <2> QED BY <1>0, <2>2, <2>3, <2>4 DEF SessionInv
<1>6. ASSUME NEW s \in Session, LogsOut(s)
      PROVE  SessionInv'
  <2>1. \A t \in Session :
          /\ clients'[t].socket = clients[t].socket
          /\ t # s => clients'[t] = clients[t]
    BY <1>0, <1>6 DEF LogsOut, logout, TypeOK, Connection
  <2>2. clients'[s].isAuthorized = FALSE /\ clients'[s].userId = NoUser
    BY <1>0, <1>6 DEF LogsOut, logout, TypeOK, Connection
  <2>3. NoDanglingSocket'
    BY <1>6, <2>1 DEF LogsOut, SessionInv, NoDanglingSocket
  <2>4. AuthorizedIffUser'
    BY <1>6, <2>1, <2>2 DEF LogsOut, SessionInv, AuthorizedIffUser, Registered
  <2>5. OneSessionPerUser'
    BY <2>1, <2>2 DEF SessionInv, OneSessionPerUser
  <2> QED BY <1>0, <2>3, <2>4, <2>5 DEF SessionInv
<1>7. ASSUME NEW s \in Session, NEW u \in User, LogsIn(s, u)
      PROVE  SessionInv'
  <2>1. \A t \in Session :
          /\ clients'[t].socket = clients[t].socket
          /\ t # s => clients'[t] = clients[t]
    BY <1>0, <1>7 DEF LogsIn, authorize, TypeOK, Connection
  <2>2. clients'[s].isAuthorized = TRUE /\ clients'[s].userId = u
    BY <1>0, <1>7 DEF LogsIn, authorize, TypeOK, Connection
  <2>3. NoDanglingSocket'
    BY <1>7, <2>1 DEF LogsIn, SessionInv, NoDanglingSocket
  <2>4. AuthorizedIffUser'
    BY <1>7, <2>1, <2>2 DEF LogsIn, SessionInv, AuthorizedIffUser, Registered
  <2>5. \A t \in Session \ {s} : Authorized(t) => clients[t].userId # u
    BY <1>7 DEF LogsIn, LoggedInElsewhere, AuthorizedAmong
  <2>6. OneSessionPerUser'
    BY <2>1, <2>2, <2>5 DEF SessionInv, OneSessionPerUser
  <2> QED BY <1>0, <2>3, <2>4, <2>6 DEF SessionInv
<1>8. ASSUME NEW u \in User, NEW name \in Name, Names(u, name)
      PROVE  SessionInv'
  <2>1. Registered \subseteq Registered'
    BY <1>0, <1>8, RegisteredGrows
  <2>2. UNCHANGED <<peer, clients>>
    BY <1>8 DEF Names
  <2> QED BY <1>0, <2>1, <2>2 DEF SessionInv, NoDanglingSocket, AuthorizedIffUser,
             OneSessionPerUser
<1> QED BY <1>0, <1>1, <1>2, <1>3, <1>4, <1>5, <1>6, <1>7, <1>8, StepKinds

\* The session invariant holds before the server starts.
LEMMA SessionInit == Init => SessionInv
  BY NullAssumption, NothingType
     DEF Init, SessionInv, TypeOK, NoConnection, Connection, NoChatRow, ChatRow,
         NoDanglingSocket, AuthorizedIffUser, OneSessionPerUser, Connected, Authorized

\* The session invariant holds in every reachable state.
LEMMA SessionsInvariant == Spec => []SessionInv
  BY SessionInit, SessionStep, PTL DEF Spec

\* No user is ever authorized on two sessions.
THEOREM OneSession == Spec => []OneSessionPerUser
<1>1. SessionInv => OneSessionPerUser
  BY DEF SessionInv
<1> QED BY <1>1, SessionsInvariant, PTL

\* m_clients never keeps a deleted or foreign socket.
THEOREM SocketsLive == Spec => []NoDanglingSocket
<1>1. SessionInv => NoDanglingSocket
  BY DEF SessionInv
<1> QED BY <1>1, SessionsInvariant, PTL

\* The two authorization fields never disagree, and only registered users are
\* authorized.
THEOREM AuthorizationConsistent == Spec => []AuthorizedIffUser
<1>1. SessionInv => AuthorizedIffUser
  BY DEF SessionInv
<1> QED BY <1>1, SessionsInvariant, PTL

-----------------------------------------------------------------------------
(* Names and sockets. *)

\* User names stay distinct through registrations and renames.
THEOREM NamesUnique == Spec => []UniqueUsernames
<1>1. Init => UniqueUsernames
  BY DEF Init, UniqueUsernames, Registered
<1>2. ASSUME TypeOK, UniqueUsernames, [Next]_vars
      PROVE  UniqueUsernames'
  <2>1. CASE UNCHANGED account
    BY <1>2, <2>1 DEF UniqueUsernames, Registered
  <2>2. ASSUME NEW u \in User, NEW name \in Name, Names(u, name)
        PROVE  UniqueUsernames'
    <3>1. \A v \in User : account'[v] = IF v = u THEN name ELSE account[v]
      BY <1>2, <2>2 DEF Names, TypeOK
    <3>2. \A v \in User \ {u} : account[v] # name
      BY <2>2 DEF Names, NameTaken
    <3> QED BY <1>2, <3>1, <3>2 DEF UniqueUsernames, Registered
  <2> QED BY <1>2, <2>1, <2>2, StepKinds
          DEF Quiet, Ends, Drops, onClientDisconnected, database, Accepts, Connects,
              LogsOut, LogsIn
<1> QED BY <1>1, <1>2, TypeCorrect, PTL DEF Spec

\* A registered session keeps its socket until it is erased, so a reconnecting
\* client waits for the disconnect of its old connection.
THEOREM SocketsKept == Spec => SocketNeverReplaced
<1>1. ASSUME TypeOK, [Next]_vars
      PROVE  [\A s \in Session : Connected(s) /\ Connected(s)' =>
                clients'[s].socket = clients[s].socket]_vars
  <2> SUFFICES ASSUME NEW s \in Session, Connected(s), Connected(s)'
               PROVE  clients'[s].socket = clients[s].socket
    OBVIOUS
  <2> USE <1>1 DEF TypeOK, Connection
  <2>1. CASE UNCHANGED clients
    BY <2>1
  <2>2. CASE Ends
    BY <2>2 DEF Ends, ProcessLost, NoConnection, Connected
  <2>3. ASSUME NEW k \in Socket, Drops(k)
        PROVE  clients'[s].socket = clients[s].socket
    <3>1. ASSUME NEW t \in Session, clients' = [clients EXCEPT ![t] = NoConnection]
          PROVE  clients'[s].socket = clients[s].socket
      BY <3>1 DEF NoConnection, Connected
    <3> QED BY <2>1, <2>3, <3>1 DEF Drops, onClientDisconnected, EraseConnection
  <2>4. ASSUME NEW k \in Socket, NEW t \in Session, Connects(k, t)
        PROVE  clients'[s].socket = clients[s].socket
    BY <2>4 DEF Connects
  <2>5. ASSUME NEW t \in Session, LogsOut(t)
        PROVE  clients'[s].socket = clients[s].socket
    BY <2>5 DEF LogsOut, logout
  <2>6. ASSUME NEW t \in Session, NEW u \in User, LogsIn(t, u)
        PROVE  clients'[s].socket = clients[s].socket
    BY <2>6 DEF LogsIn, authorize
  <2> QED BY <2>1, <2>2, <2>3, <2>4, <2>5, <2>6, StepKinds DEF Quiet, Accepts, Names
<1> QED BY <1>1, TypeCorrect, PTL DEF Spec, SocketNeverReplaced

-----------------------------------------------------------------------------
(* The server implements ExclusiveLogin. *)

\* Logins, logouts, disconnects and the end of the server are steps of the
\* abstract specification, and nothing else changes who holds a user.
THEOREM LoginsExclusive == Spec => LoginExclusive
<1> DEFINE held == [u \in User |-> Holder(u)]
<1>1. Init => Login!Init
  BY DEF Init, Login!Init, Holder, AuthorizedAmong, Authorized, NoConnection
<1>2. ASSUME SessionInv, [Next]_vars
      PROVE  [Login!Next]_held
  <2> USE DEF Holder, AuthorizedAmong, Authorized
  <2>0. TypeOK
    BY <1>2 DEF SessionInv
  <2>1. CASE UNCHANGED clients
    BY <2>1
  <2>2. ASSUME NEW some \in SUBSET Session, 
               \A s \in Session : IF s \in some THEN ~Authorized(s)'
                                                ELSE clients'[s] = clients[s]
        PROVE  Login!Next
    <3>1. Login!LetGo(some)
      BY <2>2 DEF Login!LetGo
    <3> QED BY <3>1 DEF Login!Next
  <2>3. CASE Ends
    <3>1. \A s \in Session : ~Authorized(s)'
      BY <2>3 DEF Ends, ProcessLost, NoConnection
    <3>2. Session \in SUBSET Session
      OBVIOUS
    <3> QED BY <2>2, <3>1, <3>2
  <2>4. ASSUME NEW s \in Session, clients' = [clients EXCEPT ![s] = NoConnection]
        PROVE  Login!Next
    <3>1. \A t \in Session : IF t \in {s} THEN ~Authorized(t)' ELSE clients'[t] = clients[t]
      BY <2>0, <2>4 DEF NoConnection, TypeOK
    <3> QED BY <2>2, <3>1
  <2>5. ASSUME NEW k \in Socket, Drops(k)
        PROVE  [Login!Next]_held
    BY <2>1, <2>4, <2>5 DEF Drops, onClientDisconnected, EraseConnection
  <2>6. ASSUME NEW s \in Session, LogsOut(s)
        PROVE  Login!Next
    <3>1. \A t \in Session : IF t \in {s} THEN ~Authorized(t)' ELSE clients'[t] = clients[t]
      BY <2>0, <2>6 DEF LogsOut, logout, TypeOK, Connection
    <3> QED BY <2>2, <3>1
  <2>7. ASSUME NEW k \in Socket, NEW s \in Session, Connects(k, s)
        PROVE  Login!Next
    <3>1. \A t \in Session : IF t \in {s} THEN ~Authorized(t)' ELSE clients'[t] = clients[t]
      BY <2>0, <2>7 DEF Connects, NoConnection, TypeOK, Connection
    <3> QED BY <2>2, <3>1
  <2>8. ASSUME NEW s \in Session, NEW u \in User, LogsIn(s, u)
        PROVE  Login!Next
    <3>1. \A t \in Session \ {s} : clients'[t] = clients[t]
      BY <2>0, <2>8 DEF LogsIn, authorize, TypeOK, Connection
    <3>2. Authorized(s)' /\ clients'[s].userId = u
      BY <2>0, <2>8, NullAssumption DEF LogsIn, authorize, TypeOK, Connection
    <3>3. Holder(u) \subseteq {s}
      BY <2>8 DEF LogsIn, LoggedInElsewhere
    <3>4. \A v \in User : Holder(v)' = IF v = u THEN {s} ELSE Holder(v) \ {s}
      <4>1. Holder(u)' = {s}
        BY <3>1, <3>2, <3>3
      <4>2. ASSUME NEW v \in User \ {u}
            PROVE  Holder(v)' = Holder(v) \ {s}
        BY <3>1, <3>2
      <4> QED BY <4>1, <4>2
    <3>5. Login!Take(s, u)
      BY <3>3, <3>4 DEF Login!Take
    <3> QED BY <3>5 DEF Login!Next
  <2> QED BY <1>2, <2>0, <2>1, <2>3, <2>2, <2>5, <2>6, <2>7, <2>8, StepKinds
          DEF Quiet, Accepts, Names, Ends
<1> QED BY <1>1, <1>2, SessionsInvariant, PTL DEF Spec, LoginExclusive, Login!Spec

-----------------------------------------------------------------------------
(***************************************************************************)
(* Output.  Only two handlers write a message or announce a chat; what     *)
(* they write is compared with the tables and the logins of the same step. *)
(***************************************************************************)

Types(packets) == {packets[i].type : i \in DOMAIN packets}
OfType(packets, type) == {packets[i] : i \in {j \in DOMAIN packets : packets[j].type = type}}

\* The last event wrote no packet of this type.
Without(type) == \A t \in Session : type \notin Types(sent[t])

\* handleChatMessage passes a message of session s on.
Routes(s, c) ==
    /\ Authorized(s) /\ clients[s].userId \in chats[c].members
    /\ sent' = [t \in Session |-> IF t \in Audience(s, chats[c].members)
                                  THEN <<ChatMessage(c, clients[s].userId)>> ELSE <<>>]
    /\ UNCHANGED <<server, database>>

\* handleCreateChat announces a chat that session s has made.
Announces(s, c, members) ==
    /\ Authorized(s) /\ clients[s].userId \in members
    /\ Cardinality(members) >= 2
    /\ ChatStored(c, clients[s].userId, chatType(members), members)
    /\ AnnounceChat(s, c, members)
    /\ UNCHANGED server

\* What an output of no, one or two packets consists of.
LEMMA ShortOutput ==
    ASSUME NEW p, NEW q
    PROVE  /\ Types(<<>>) = {} /\ Types(<<p>>) = {p.type}
           /\ Types(<<p, q>>) = {p.type, q.type}
  BY DEF Types

\* What an output of three packets consists of.
LEMMA LongOutput ==
    ASSUME NEW out, NEW p, NEW q, NEW r, out = <<p, q, r>>
    PROVE  /\ Types(out) \subseteq {p.type, q.type, r.type}
           /\ \A type : OfType(out, type) \subseteq {p, q, r}
           /\ out # <<>> /\ out[Len(out)] = r
<1>1. /\ DOMAIN out = {1, 2, 3} /\ Len(out) = 3
      /\ out[1] = p /\ out[2] = q /\ out[3] = r
  OBVIOUS
<1>2. out # <<>>
  BY <1>1
<1>3. Types(out) \subseteq {p.type, q.type, r.type}
  BY <1>1 DEF Types
<1>4. \A type : OfType(out, type) \subseteq {p, q, r}
  BY <1>1 DEF OfType
<1> QED BY <1>1, <1>2, <1>3, <1>4

\* Outputs are written one after the other.
LEMMA JoinedOutput ==
    ASSUME NEW p, NEW q, NEW r
    PROVE  <<p, q>> \o <<r>> = <<p, q, r>> /\ <<>> \o <<r>> = <<r>> /\ <<>> \o <<>> = <<>>
<1> DEFINE S == {p, q, r}
           pq == <<p, q>>
           one == <<r>>
           all == <<p, q, r>>
<1>1. pq \in Seq(S) /\ one \in Seq(S) /\ all \in Seq(S) /\ <<>> \in Seq(S)
  OBVIOUS
<1>2. /\ Len(pq) = 2 /\ pq[1] = p /\ pq[2] = q
      /\ Len(one) = 1 /\ one[1] = r
      /\ Len(all) = 3 /\ all[1] = p /\ all[2] = q /\ all[3] = r
  OBVIOUS
<1> HIDE DEF S, pq, one, all
<1>3. /\ pq \o one \in Seq(S) /\ Len(pq \o one) = 3
      /\ \A i \in 1..3 : (pq \o one)[i] = IF i <= 2 THEN pq[i] ELSE one[i - 2]
  BY <1>1, <1>2, ConcatProperties
<1>4. \A i \in 1..3 : (pq \o one)[i] = all[i]
  BY <1>2, <1>3
<1>5. pq \o one = all
  BY <1>1, <1>2, <1>3, <1>4, SeqEqual
<1>6. <<>> \o one = one /\ <<>> \o <<>> = <<>>
  BY <1>1, ConcatEmptySeq
<1> QED BY <1>5, <1>6 DEF pq, one, all

\* An event without output.
LEMMA NothingWithout == sent' = Nothing => \A type : Without(type)'
  BY DEF Nothing, Without, Types

\* An answer of one packet, or of two, has the types of its packets.
LEMMA ReplyWithout ==
    ASSUME NEW s \in Session, NEW type, NEW p, NEW q, p.type # type, q.type # type,
           Reply(s, <<p>>) \/ Reply(s, <<p, q>>)
    PROVE  Without(type)'
<1>1. Types(<<p>>) = {p.type} /\ Types(<<p, q>>) = {p.type, q.type} /\ Types(<<>>) = {}
  BY DEF Types
<1>2. \A t \in Session : sent'[t] \in {<<>>, <<p>>, <<p, q>>}
  BY DEF Reply, Nothing
<1> QED BY <1>1, <1>2 DEF Without

\* Refusals are results, and nothing else.
LEMMA RefuseWithout ==
    ASSUME NEW s \in Session, NEW why, Refuse(s, why), NEW type, type # "OPERATION_RESULT"
    PROVE  Without(type)'
<1>1. Result(FALSE, why).type # type
  BY DEF Result
<1> QED BY <1>1, ReplyWithout DEF Refuse

\* An unauthorized request is dropped or refused.
LEMMA UnauthorizedWithout ==
    ASSUME NEW k \in Socket, peer[k] \in Session, RefuseUnauthorized(k),
           NEW type, type # "OPERATION_RESULT"
    PROVE  Without(type)'
  BY NothingWithout, RefuseWithout DEF RefuseUnauthorized, Drop

Special == {"CHAT_MESSAGE", "CHAT_INFO_DATA"}

\* No event but these two handlers writes a message or announces a chat.
LEMMA OutputKinds ==
    ASSUME TypeOK, Next
    PROVE  \/ \A type \in Special : Without(type)'
           \/ \E s \in Session, c \in Chat : Routes(s, c)
           \/ \E s \in Session, c \in Chat, members \in SUBSET User : Announces(s, c, members)
<1> DEFINE Plain == \A type \in Special : Without(type)'
<1>1. \A type \in Special : type # "OPERATION_RESULT"
  BY DEF Special
<1>2. sent' = Nothing => Plain
  BY NothingWithout
<1>3. ASSUME NEW s \in Session, NEW why, Refuse(s, why) PROVE Plain
  BY <1>1, <1>3, RefuseWithout
<1>4. ASSUME NEW k \in Socket, peer[k] \in Session, RefuseUnauthorized(k) PROVE Plain
  BY <1>1, <1>4, UnauthorizedWithout
<1>5. ASSUME NEW s \in Session, NEW p, NEW q, p.type \notin Special, q.type \notin Special,
             Reply(s, <<p>>) \/ Reply(s, <<p, q>>)
      PROVE  Plain
  BY <1>5, ReplyWithout
<1>6. /\ \A ok, text : Result(ok, text).type \notin Special
      /\ \A u : UserProfileData(u).type \notin Special /\ PublicUserInfoData(u).type \notin Special
      /\ \A cs : ChatListData(cs).type \notin Special
  BY DEF Special, Result, UserProfileData, PublicUserInfoData, ChatListData
<1>7. \A k \in Socket : peer[k] # NoSession => peer[k] \in Session
  BY DEF TypeOK
<1> HIDE DEF Plain
<1>8. ASSUME start \/ stop \/ crash PROVE Plain
  BY <1>2, <1>8 DEF start, stop, crash, ProcessLost
<1>9. ASSUME NEW k \in Socket, NEW s \in Session, onNewConnection(k, s) PROVE Plain
  BY <1>2, <1>9 DEF onNewConnection
<1>10. ASSUME NEW k \in Socket, onClientDisconnected(k) PROVE Plain
  BY <1>2, <1>10 DEF onClientDisconnected
<1>11. ASSUME NEW k \in Socket, NEW requested \in SUBSET User, NEW c \in Chat,
              crashInCreateChat(k, requested, c)
       PROVE  Plain
  BY <1>2, <1>11 DEF crashInCreateChat, ProcessLost
<1>12. ASSUME NEW k \in Socket, handleConnectClient(k) PROVE Plain
  BY <1>2, <1>5, <1>6, <1>7, <1>12 DEF handleConnectClient, Drop
<1>13. ASSUME NEW k \in Socket, NEW name \in Name, handleRegisterUser(k, name) PROVE Plain
  BY <1>2, <1>3, <1>5, <1>6, <1>7, <1>13 DEF handleRegisterUser, DropForeign, Drop
<1>14. ASSUME NEW k \in Socket, NEW u \in User, handleLoginUser(k, u) PROVE Plain
  BY <1>2, <1>3, <1>5, <1>6, <1>7, <1>14 DEF handleLoginUser, DropForeign, Drop
<1>15. ASSUME NEW k \in Socket, handleLogoutUser(k) PROVE Plain
  BY <1>2, <1>3, <1>5, <1>6, <1>7, <1>15 DEF handleLogoutUser, DropForeign, Drop
<1>16. ASSUME NEW k \in Socket, handleGetUserProfile(k) PROVE Plain
  BY <1>3, <1>4, <1>5, <1>6, <1>7, <1>16 DEF handleGetUserProfile
<1>17. ASSUME NEW k \in Socket, NEW u \in User, handleGetUserInfo(k, u) PROVE Plain
  BY <1>3, <1>4, <1>5, <1>6, <1>7, <1>17 DEF handleGetUserInfo
<1>18. ASSUME NEW k \in Socket, NEW name \in Name \cup {NoName}, handleUpdateUserProfile(k, name)
       PROVE  Plain
  BY <1>3, <1>4, <1>5, <1>6, <1>7, <1>18 DEF handleUpdateUserProfile
<1>19. ASSUME NEW k \in Socket, handleGetChats(k) PROVE Plain
  BY <1>4, <1>5, <1>6, <1>7, <1>19 DEF handleGetChats
<1>20. ASSUME NEW k \in Socket, NEW type \in {"Direct", "Group"}, handleSearchChats(k, type)
       PROVE  Plain
  BY <1>3, <1>4, <1>5, <1>6, <1>7, <1>20 DEF handleSearchChats
<1>21. ASSUME NEW k \in Socket, NEW requested \in SUBSET User, NEW c \in Chat,
              handleCreateChat(k, requested, c), ~Plain
       PROVE  \E s \in Session, members \in SUBSET User : Announces(s, c, members)
  <2> DEFINE s == peer[k]
  <2>1. s \in Session
    BY <1>7, <1>21 DEF handleCreateChat
  <2>2. \A text : ~Refuse(s, text) /\ ~Reply(s, <<Result(FALSE, text)>>)
    BY <1>3, <1>5, <1>6, <1>21, <2>1
  <2>3. PICK found \in RowByRow(requested) :
          LET members == MemberIds(clients[s].userId, found) IN
          /\ Cardinality(members) >= 2
          /\ ChatStored(c, clients[s].userId, chatType(members), members)
          /\ AnnounceChat(s, c, members)
          /\ UNCHANGED <<server, account>>
    BY <1>4, <1>21, <2>1, <2>2 DEF handleCreateChat
  <2>4. Authorized(s)
    BY <1>4, <1>21, <2>1 DEF handleCreateChat, Served
  <2> DEFINE members == MemberIds(clients[s].userId, found)
  <2>5. clients[s].userId \in User
    BY <2>1, <2>4 DEF Authorized, TypeOK, Connection
  <2>6. members \in SUBSET User /\ clients[s].userId \in members
    BY <2>5, MemberIdsType DEF MemberIds
  <2> HIDE DEF s, members
  <2>7. Announces(s, c, members)
    BY <2>3, <2>4, <2>6 DEF Announces, members
  <2> QED BY <2>1, <2>6, <2>7
<1>22. ASSUME NEW k \in Socket, NEW c \in Chat, NEW claimed \in User \cup {NoUser},
              handleChatMessage(k, c, claimed), ~Plain
       PROVE  \E s \in Session : Routes(s, c)
  <2> DEFINE s == peer[k]
  <2>1. s \in Session
    BY <1>7, <1>22 DEF handleChatMessage
  <2>2. ~Drop /\ \A why : ~Refuse(s, why)
    BY <1>2, <1>3, <1>22, <2>1 DEF Drop
  <2>3. PICK members \in Rows(chats[c].members) :
          /\ Authorized(s) /\ clients[s].userId \in members
          /\ sent' = [t \in Session |-> IF t \in Audience(s, members)
                        THEN <<ChatMessage(c, clients[s].userId)>> ELSE <<>>]
          /\ UNCHANGED <<server, database>>
    BY <1>22, <2>2 DEF handleChatMessage
  <2>4. members = chats[c].members
    BY <2>3 DEF Rows
  <2> QED BY <2>1, <2>3, <2>4 DEF Routes
<1> QED BY <1>8, <1>9, <1>10, <1>11, <1>12, <1>13, <1>14, <1>15, <1>16, <1>17, <1>18, <1>19,
           <1>20, <1>21, <1>22 DEF Next, onServerRead, Plain

\* What every session is sent when a chat is announced: the creator the result, the
\* chat and its list, every other member that is logged in its list.
AnnouncedAs(s, c, members, info, lists) ==
    /\ \A t \in Session :
         lists[t] \in Rows({d \in Chat : clients[t].userId \in chats'[d].members})
    /\ sent'[s] = <<Result(TRUE, "Chat created successfully"), ChatInfoData(c, info),
                    ChatListData(lists[s])>>
    /\ \A t \in Session \ {s} :
         sent'[t] = IF AuthorizedAmong(t, members) THEN <<ChatListData(lists[t])>> ELSE <<>>

\* Announcing a chat sends every session these packets.
LEMMA AnnouncedPackets ==
    ASSUME NEW s \in Session, NEW c \in Chat, NEW members \in SUBSET User,
           Announces(s, c, members)
    PROVE  \E info \in Rows(members), lists \in [Session -> SUBSET Chat] :
             AnnouncedAs(s, c, members, info, lists)
<1>1. PICK info \in Rows(members), lists \in [Session -> SUBSET Chat] :
        /\ \A t \in Session :
             lists[t] \in Rows({d \in Chat : clients[t].userId \in chats'[d].members})
        /\ sent' = [t \in Session |->
              (IF t = s THEN <<Result(TRUE, "Chat created successfully"), ChatInfoData(c, info)>>
                        ELSE <<>>)
              \o (IF AuthorizedAmong(t, members) THEN <<ChatListData(lists[t])>>
                                                 ELSE <<>>)]
  BY DEF Announces, AnnounceChat
<1>2. AuthorizedAmong(s, members)
  BY DEF Announces, AuthorizedAmong
<1>3. \A p, q, r : <<p, q>> \o <<r>> = <<p, q, r>> /\ <<>> \o <<r>> = <<r>> /\ <<>> \o <<>> = <<>>
  BY JoinedOutput
<1>4. sent'[s] = <<Result(TRUE, "Chat created successfully"), ChatInfoData(c, info),
                   ChatListData(lists[s])>>
  BY <1>1, <1>2, <1>3
<1>5. \A t \in Session \ {s} :
        sent'[t] = IF AuthorizedAmong(t, members) THEN <<ChatListData(lists[t])>> ELSE <<>>
  BY <1>1, <1>3
<1>6. AnnouncedAs(s, c, members, info, lists)
  BY <1>1, <1>4, <1>5 DEF AnnouncedAs
<1> QED BY <1>6

\* Announcing a chat passes no message on.
LEMMA AnnouncedWithout ==
    ASSUME NEW s \in Session, NEW c \in Chat, NEW members \in SUBSET User,
           Announces(s, c, members)
    PROVE  Without("CHAT_MESSAGE")'
<1> PICK info \in Rows(members), lists \in [Session -> SUBSET Chat] :
           AnnouncedAs(s, c, members, info, lists)
  BY AnnouncedPackets
<1> USE DEF AnnouncedAs
<1>1. /\ \A ok, text : Result(ok, text).type # "CHAT_MESSAGE"
      /\ ChatInfoData(c, info).type # "CHAT_MESSAGE"
      /\ \A cs : ChatListData(cs).type # "CHAT_MESSAGE"
  BY DEF Result, ChatInfoData, ChatListData
<1>2. \A p : Types(<<p>>) = {p.type} /\ Types(<<>>) = {}
  BY ShortOutput
<1>3. "CHAT_MESSAGE" \notin Types(sent'[s])
  <2>1. PICK p, q, r : /\ p = Result(TRUE, "Chat created successfully")
                       /\ q = ChatInfoData(c, info) /\ r = ChatListData(lists[s])
    OBVIOUS
  <2>2. sent'[s] = <<p, q, r>>
    BY <2>1
  <2>3. Types(sent'[s]) \subseteq {p.type, q.type, r.type}
    BY <2>2, LongOutput
  <2> QED BY <1>1, <2>1, <2>3
<1>4. ASSUME NEW t \in Session \ {s} PROVE "CHAT_MESSAGE" \notin Types(sent'[t])
  <2>1. CASE sent'[t] = <<>>
    BY <1>2, <2>1
  <2>2. CASE sent'[t] = <<ChatListData(lists[t])>>
    BY <1>1, <1>2, <2>2
  <2> QED BY <2>1, <2>2
<1> QED BY <1>3, <1>4 DEF Without

\* A message that is passed on goes to the members of its chat that are logged
\* in, but to none of its author's sessions: the sender's is the only one.
THEOREM MessagesRouted == Spec => []MessageAudience
<1>1. ASSUME Init PROVE MessageAudience
  BY <1>1 DEF Init, Nothing, MessageAudience, Messages
<1>2. ASSUME SessionInv, MessageAudience, [Next]_vars PROVE MessageAudience'
  <2>1. CASE UNCHANGED vars
    BY <1>2, <2>1 DEF vars, MessageAudience, Messages, AuthorizedAmong, Authorized
  <2>2. CASE Without("CHAT_MESSAGE")'
    BY <2>2 DEF Without, Types, MessageAudience, Messages
  <2>3. ASSUME NEW s \in Session, NEW c \in Chat, Routes(s, c) PROVE MessageAudience'
    <3> PICK u, members, m : /\ u = clients[s].userId /\ members = chats[c].members
                             /\ m = ChatMessage(c, u)
      OBVIOUS
    <3>1. clients' = clients /\ chats' = chats
      BY <2>3 DEF Routes, server, database
    <3>2. m.type = "CHAT_MESSAGE" /\ m.sender = u /\ m.chat = c
      BY DEF ChatMessage
    <3>3. \A t \in Session : sent'[t] = IF t \in Audience(s, members) THEN <<m>> ELSE <<>>
      BY <2>3 DEF Routes
    <3>4. \A t \in Session : Messages(t)' = IF t \in Audience(s, members) THEN {m} ELSE {}
      <4>1. ASSUME NEW t \in Session, sent'[t] = <<m>> PROVE Messages(t)' = {m}
        BY <3>2, <4>1 DEF Messages
      <4>2. ASSUME NEW t \in Session, sent'[t] = <<>> PROVE Messages(t)' = {}
        BY <4>2 DEF Messages
      <4> QED BY <3>3, <4>1, <4>2
    <3>5. \A r \in Session : r \in Audience(s, members) <=>
                               AuthorizedAmong(r, members) /\ clients[r].userId # u
      BY <1>2, <2>3 DEF SessionInv, OneSessionPerUser, Routes, Audience, AuthorizedAmong
    <3>6. u \in members
      BY <2>3 DEF Routes
    <3>7. \A t \in Session : \A n \in Messages(t)' : n = m
      BY <3>4
    <3>8. m.sender \in chats'[m.chat].members /\ chats'[m.chat].members = members
      BY <3>1, <3>2, <3>6
    <3>9. \A r \in Session : AuthorizedAmong(r, members)' <=> AuthorizedAmong(r, members)
      BY <3>1 DEF AuthorizedAmong, Authorized
    <3>10. \A r \in Session : m \in Messages(r)' <=>
                 AuthorizedAmong(r, chats[m.chat].members)' /\ clients'[r].userId # m.sender
      BY <3>1, <3>2, <3>4, <3>5, <3>8 DEF AuthorizedAmong, Authorized
    <3> QED BY <3>7, <3>8, <3>10 DEF MessageAudience
  <2>4. ASSUME NEW s \in Session, NEW c \in Chat, NEW members \in SUBSET User,
               Announces(s, c, members)
        PROVE  Without("CHAT_MESSAGE")'
    BY <2>4, AnnouncedWithout
  <2> QED BY <1>2, <2>1, <2>2, <2>3, <2>4, OutputKinds DEF SessionInv, Special
<1> QED BY <1>1, <1>2, SessionsInvariant, PTL DEF Spec

\* While its SELECTs succeed, the server announces a chat only when it is stored
\* whole, to its creator and with the lists of all members that are logged in.
THEOREM ChatsAnnounced == ~ReadsMayFail => (Spec => []AnnouncementConsistent)
<1> SUFFICES ASSUME ~ReadsMayFail PROVE Spec => []AnnouncementConsistent
  OBVIOUS
<1>1. ASSUME Init PROVE AnnouncementConsistent
  BY <1>1 DEF Init, Nothing, AnnouncementConsistent, Announced
<1>2. ASSUME TypeOK, AnnouncementConsistent, [Next]_vars PROVE AnnouncementConsistent'
  <2>1. CASE UNCHANGED vars
    BY <1>2, <2>1 DEF vars, AnnouncementConsistent, Announced, AuthorizedAmong, Authorized,
                      ChatsByUserId
  <2>2. CASE Without("CHAT_INFO_DATA")'
    BY <2>2 DEF Without, Types, AnnouncementConsistent, Announced
  <2>3. ASSUME NEW s \in Session, NEW c \in Chat, Routes(s, c)
        PROVE  Without("CHAT_INFO_DATA")'
    <3>1. \A t \in Session : sent'[t] \in {<<ChatMessage(c, clients[s].userId)>>, <<>>}
      BY <2>3 DEF Routes
    <3>2. Types(<<ChatMessage(c, clients[s].userId)>>) = {"CHAT_MESSAGE"} /\ Types(<<>>) = {}
      BY DEF Types, ChatMessage
    <3> QED BY <3>1, <3>2 DEF Without
  <2>4. ASSUME NEW s \in Session, NEW c \in Chat, NEW members \in SUBSET User,
               Announces(s, c, members)
        PROVE  AnnouncementConsistent'
    <3> PICK info \in Rows(members), lists \in [Session -> SUBSET Chat] :
             AnnouncedAs(s, c, members, info, lists)
      BY <2>4, AnnouncedPackets
    <3> USE DEF AnnouncedAs
    <3> DEFINE u == clients[s].userId
               row == [type |-> chatType(members), createdBy |-> u, members |-> members]
               a == ChatInfoData(c, info)
    <3>1. clients' = clients /\ AuthorizedAmong(s, members)
      BY <2>4 DEF Announces, server, AuthorizedAmong
    <3>2. chats'[c] = row
      BY <1>2, <2>4 DEF Announces, ChatStored, TypeOK
    <3>3. info = members
      BY DEF Rows
    <3>4. \A t \in Session : lists[t] = ChatsByUserId(clients[t].userId)'
      BY <3>1 DEF Rows, ChatsByUserId
    <3>5. /\ \A ok, text : Result(ok, text).type # "CHAT_INFO_DATA"
          /\ a.type = "CHAT_INFO_DATA" /\ a.chat = c /\ a.members = members
          /\ \A cs : ChatListData(cs).type # "CHAT_INFO_DATA"
      BY <3>3 DEF Result, ChatInfoData, ChatListData
    <3>6. /\ Cardinality(members) >= 2 /\ u \in members
          /\ row.type = "Group" <=> Cardinality(members) > 2
      BY <2>4 DEF Announces, chatType
    <3>7. row.createdBy = u /\ row.members = members
      OBVIOUS
    <3> HIDE DEF u, row, a
    <3>8. \A p \in Announced(s)' : p = a
      <4>1. \A p \in Announced(s)' : p.type = "CHAT_INFO_DATA" /\ p \in OfType(sent'[s], p.type)
        BY DEF Announced, OfType
      <4>3. PICK l : l = ChatListData(lists[s])
        OBVIOUS
      <4>4. PICK r : r = Result(TRUE, "Chat created successfully")
        OBVIOUS
      <4>5. sent'[s] = <<r, a, l>>
        BY <4>3, <4>4 DEF a
      <4>6. OfType(sent'[s], "CHAT_INFO_DATA") \subseteq {r, a, l}
        BY <4>5, LongOutput
      <4> QED BY <3>5, <4>1, <4>3, <4>4, <4>6
    <3>9. \A t \in Session \ {s} : Announced(t)' = {}
      <4>1. ASSUME NEW t \in Session \ {s}, NEW p \in Announced(t)' PROVE FALSE
        <5>1. "CHAT_INFO_DATA" \in Types(sent'[t])
          BY <4>1 DEF Announced, Types
        <5>2. sent'[t] = <<>> \/ sent'[t] = <<ChatListData(lists[t])>>
          BY <4>1
        <5>3. \A r : Types(<<r>>) = {r.type} /\ Types(<<>>) = {}
          BY ShortOutput
        <5> QED BY <3>5, <5>1, <5>2, <5>3
      <4> QED BY <4>1
    <3>10. \A t \in Session : AuthorizedAmong(t, members) =>
              sent'[t] # <<>> /\ sent'[t][Len(sent'[t])] = ChatListData(lists[t])
      <4>1. \A r : <<r>> # <<>> /\ <<r>>[Len(<<r>>)] = r
        OBVIOUS
      <4>2. \A t \in Session \ {s} : AuthorizedAmong(t, members) =>
              sent'[t] # <<>> /\ sent'[t][Len(sent'[t])] = ChatListData(lists[t])
        BY <4>1
      <4>3. sent'[s] # <<>> /\ sent'[s][Len(sent'[s])] = ChatListData(lists[s])
        <5>1. PICK q, r, l : /\ r = Result(TRUE, "Chat created successfully")
                             /\ q = ChatInfoData(c, info) /\ l = ChatListData(lists[s])
          OBVIOUS
        <5>2. PICK out : out = sent'[s]
          OBVIOUS
        <5>3. out = <<r, q, l>>
          BY <5>1, <5>2
        <5>4. out # <<>> /\ out[Len(out)] = l
          <6> HIDE <5>1, <5>2
          <6> HIDE DEF AnnouncedAs
          <6> QED BY <5>3, LongOutput
        <5> QED BY <5>1, <5>2, <5>4
      <4> QED BY <4>2, <4>3
    <3>11. \A t \in Session : AuthorizedAmong(t, members)' <=> AuthorizedAmong(t, members)
      BY <3>1 DEF AuthorizedAmong, Authorized
    <3>12. clients'[s].userId = u
      BY <3>1 DEF u
    <3> QED BY <3>2, <3>4, <3>5, <3>6, <3>7, <3>8, <3>9, <3>10, <3>11, <3>12
            DEF AnnouncementConsistent
  <2> QED BY <1>2, <2>1, <2>2, <2>3, <2>4, OutputKinds DEF Special
<1> QED BY <1>1, <1>2, TypeCorrect, PTL DEF Spec

=============================================================================
