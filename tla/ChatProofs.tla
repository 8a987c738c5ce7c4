----------------------------- MODULE ChatProofs -----------------------------
(***************************************************************************)
(* Proofs about ChatCreation and UserResolver, for any number of users,    *)
(* names and chats: the selection, the names of senders and the marks of   *)
(* pending look-ups never go stale, and the list is the server's whenever  *)
(* no packet is under way that will make it so.                            *)
(***************************************************************************)
EXTENDS ChatCreation, FiniteSetTheorems, SequenceTheorems, TLAPS

-----------------------------------------------------------------------------
(* Sequences. *)

\* What a queue holds after an element joined it.
LEMMA RangeAppend ==
    ASSUME NEW S, NEW s \in Seq(S), NEW e \in S
    PROVE  Append(s, e) \in Seq(S) /\ Range(Append(s, e)) = Range(s) \cup {e}
<1>1. <<e>> \in Seq(S) /\ Range(<<e>>) = {e}
  BY DEF Range
<1>2. Append(s, e) = s \o <<e>>
  BY AppendIsConcat
<1> DEFINE one == <<e>>
<1> HIDE DEF one
<1>3. one \in Seq(S) /\ Range(one) = {e} /\ Append(s, e) = s \o one
  BY <1>1, <1>2 DEF one
<1>4. Range(s \o one) = Range(s) \cup Range(one)
  BY <1>3, RangeConcatenation
<1>5. s \o one \in Seq(S)
  BY <1>3, ConcatProperties
<1> QED BY <1>3, <1>4, <1>5

\* What a queue holds besides its head.
LEMMA RangeTail ==
    ASSUME NEW S, NEW s \in Seq(S), s # <<>>
    PROVE  /\ Head(s) \in S /\ Tail(s) \in Seq(S)
           /\ Range(s) = {Head(s)} \cup Range(Tail(s))
<1>1. /\ Head(s) \in S /\ Tail(s) \in Seq(S)
      /\ Len(Tail(s)) = Len(s) - 1
      /\ \A i \in 1..Len(Tail(s)) : Tail(s)[i] = s[i + 1]
      /\ Len(s) \in Nat \ {0} /\ Head(s) = s[1]
  BY HeadTailProperties, EmptySeq
<1>2. Range(s) = {s[i] : i \in 1..Len(s)} /\ Range(Tail(s)) = {Tail(s)[i] : i \in 1..Len(Tail(s))}
  BY <1>1, RangeEquality
<1>3. \A i \in 1..Len(s) : i = 1 \/ (i - 1 \in 1..Len(Tail(s)) /\ (i - 1) + 1 = i)
  BY <1>1
<1>4. 1 \in 1..Len(s) /\ \A i \in 1..Len(Tail(s)) : i + 1 \in 1..Len(s)
  BY <1>1
<1>5. ASSUME NEW i \in 1..Len(s) PROVE s[i] \in {Head(s)} \cup Range(Tail(s))
  <2>1. CASE i = 1
    BY <1>1, <2>1
  <2>2. CASE i # 1
    <3>1. i - 1 \in 1..Len(Tail(s)) /\ (i - 1) + 1 = i
      BY <1>3, <2>2
    <3>2. Tail(s)[i - 1] = s[i]
      BY <1>1, <3>1
    <3> QED BY <1>2, <3>1, <3>2
  <2> QED BY <2>1, <2>2
<1>6. ASSUME NEW i \in 1..Len(Tail(s)) PROVE Tail(s)[i] \in Range(s)
  BY <1>1, <1>2, <1>4
<1>7. Head(s) \in Range(s)
  BY <1>1, <1>2, <1>4
<1> QED BY <1>1, <1>2, <1>5, <1>6, <1>7

\* The look-ups of some users, in any order, ask for each of them and nobody else.
LEMMA AsksForAll ==
    ASSUME NEW us \in SUBSET User, NEW order \in SetToSeqs(us)
    PROVE  LET asks == [i \in DOMAIN order |-> AskId(order[i])] IN
           asks \in Seq(Requests) /\ Range(asks) = {AskId(u) : u \in us}
<1> DEFINE n == Cardinality(us)
           asks == [i \in DOMAIN order |-> AskId(order[i])]
<1>1. IsFiniteSet(us) /\ n \in Nat
  BY ResolverAssumption, FS_Subset, FS_CardinalityType
<1>2. order \in [1..n -> us] /\ \A i, j \in 1..n : i # j => order[i] # order[j]
  BY DEF SetToSeqs
<1>3. order \in Injection(1..n, us)
  BY <1>2 DEF Injection, IsInjective
<1>4. Cardinality(1..n) = n
  BY <1>1, FS_Interval
<1>5. \A u \in us : \E i \in 1..n : order[i] = u
  BY <1>1, <1>3, <1>4, FS_Injection DEF Surjection
<1>6. asks = [i \in 1..n |-> AskId(order[i])]
  BY <1>2
<1>7. \A i \in 1..n : AskId(order[i]) \in Requests
  BY <1>2 DEF Requests
<1>8. asks \in Seq(Requests)
  BY <1>1, <1>6, <1>7, IsASeq
<1>9. Range(asks) = {AskId(u) : u \in us}
  BY <1>2, <1>5, <1>6 DEF Range
<1> QED BY <1>8, <1>9

\* LookUp marks the users it asks for and sends one request for each.
LEMMA LookUpEffect ==
    ASSUME requests \in Seq(Requests), resolver \in Resolver, NEW us, LookUp(us)
    PROVE  \E asked \in SUBSET User :
             /\ \A u \in asked : AsksForUser(resolver, u)
             /\ resolver' = [resolver EXCEPT !.pendingRequests = @ \cup asked]
             /\ resolver' \in Resolver
             /\ requests' \in Seq(Requests)
             /\ Range(requests') = Range(requests) \cup {AskId(u) : u \in asked}
             /\ ~connected => asked = {} /\ requests' = requests
<1> DEFINE asked == {u \in us \cap User : AsksForUser(resolver, u)}
<1>1. asked \in SUBSET User /\ resolver' = [resolver EXCEPT !.pendingRequests = @ \cup asked]
  BY DEF LookUp
<1>2. PICK order \in SetToSeqs(asked) :
        requests' = requests \o [i \in DOMAIN order |-> AskId(order[i])]
  BY DEF LookUp
<1> DEFINE asks == [i \in DOMAIN order |-> AskId(order[i])]
<1> HIDE DEF asked
<1>3. asks \in Seq(Requests) /\ Range(asks) = {AskId(u) : u \in asked}
  BY <1>1, AsksForAll
<1> HIDE DEF asks
<1>4. requests' = requests \o asks
  BY <1>2 DEF asks
<1>5. requests' \in Seq(Requests) /\ Range(requests') = Range(requests) \cup Range(asks)
  BY <1>3, <1>4, ConcatProperties, RangeConcatenation
<1>6. resolver' \in Resolver
  BY <1>1 DEF Resolver
<1>7. ASSUME ~connected PROVE asked = {} /\ requests' = requests
  <2>1. asked = {}
    BY <1>7 DEF asked, AsksForUser
  <2>2. Range(asks) = {}
    BY <1>3, <2>1
  <2>3. asks = <<>>
    <3>1. ASSUME asks # <<>> PROVE FALSE
      <4>1. 1 \in 1..Len(asks) /\ DOMAIN asks = 1..Len(asks)
        BY <1>3, <3>1, EmptySeq, LenProperties
      <4> QED BY <2>2, <4>1 DEF Range
    <3> QED BY <3>1
  <2> QED BY <1>4, <2>1, <2>3, ConcatEmptySeq
<1>8. \A u \in asked : AsksForUser(resolver, u)
  BY DEF asked
<1> QED BY <1>1, <1>3, <1>5, <1>6, <1>7, <1>8

-----------------------------------------------------------------------------
(* Types. *)

Few == (SUBSET User) \ {{}}

\* The packets of the client and of the server.
LEMMA WireTypes ==
    /\ \A u \in User : AskId(u) \in Requests
    /\ \A n \in Name : AskName(n) \in Requests
    /\ {LoginUser, LogoutUser, GetUserProfile, GetChats} \subseteq Requests
    /\ \A us \in Few : CreateChat(us) \in Requests
    /\ {Accepted, Refused, Profile} \subseteq Replies
    /\ \A u \in User, n \in Name : UserInfo(u, n) \in Replies
    /\ \A c \in Chat, us \in Few : ChatInfo(c, us) \in Replies
    /\ \A list \in [Chat -> SUBSET User] : ChatList(list) \in Replies
    /\ \A c \in Chat, u \in User : ChatMessage(c, u) \in Replies
  BY DEF Requests, Replies, Few

\* What a typed packet of the server carries.
LEMMA ReplyShape ==
    ASSUME NEW p \in Replies
    PROVE  /\ p.type = "OPERATION_RESULT" => p \in {Accepted, Refused}
           /\ p.type = "PUBLIC_USER_INFO_DATA" =>
                p.id \in User /\ p.name \in Name /\ p = UserInfo(p.id, p.name)
           /\ p.type = "CHAT_INFO_DATA" => p.chat \in Chat /\ p.members \in Few
           /\ p.type = "CHAT_LIST_DATA" => p.chats \in [Chat -> SUBSET User]
           /\ p.type = "CHAT_MESSAGE" => p.chat \in Chat /\ p.sender \in User
  BY DEF Replies, Accepted, Refused, Profile, UserInfo, ChatInfo, ChatList, ChatMessage, Few

\* What a typed request carries.
LEMMA RequestShape ==
    ASSUME NEW r \in Requests
    PROVE  /\ r.type = "GET_USER_INFO" =>
                \/ \E u \in User : r = AskId(u)
                \/ \E n \in Name : r = AskName(n)
           /\ r.type = "CREATE_CHAT" => r.members \in Few
           /\ r.type # "GET_USER_INFO" => (\A u \in User : r # AskId(u))
                                           /\ (\A n \in Name : r # AskName(n))
  BY DEF Requests, AskId, AskName, LoginUser, LogoutUser, GetUserProfile, GetChats, CreateChat, Few

\* One more request, or one more packet, under way.
LEMMA QueuesGrow ==
    ASSUME ChatTypeOK
    PROVE  /\ \A r \in Requests : /\ Append(requests, r) \in Seq(Requests)
                                  /\ Range(Append(requests, r)) = Range(requests) \cup {r}
           /\ \A p \in Replies : /\ Append(replies, p) \in Seq(Replies)
                                 /\ Range(Append(replies, p)) = Range(replies) \cup {p}
<1>1. requests \in Seq(Requests) /\ replies \in Seq(Replies)
  BY DEF ChatTypeOK
<1> QED BY <1>1, RangeAppend

\* The slots of ChatCreator.
LEMMA CreatorTypes ==
    ASSUME NEW a \in Creator
    PROVE  /\ \A u \in User, n \in Name \cup {NoName} : addResolvedUser(a, u, n) \in Creator
           /\ \A u \in User, n \in Name : onUserResolved(a, u, n) \in Creator
           /\ onRefused(a) \in Creator
           /\ EmptyCreator \in Creator
           /\ \A n \in Name : [a EXCEPT !.pendingUsername = n] \in Creator
           /\ [a EXCEPT !.creating = TRUE] \in Creator
  BY DEF Creator, addResolvedUser, onUserResolved, onRefused, EmptyCreator

\* The slots of UserResolver.
LEMMA ResolverTypes ==
    ASSUME NEW r \in Resolver
    PROVE  /\ \A u \in User : WithPendingUser(r, u) \in Resolver
           /\ \A n \in Name : WithPendingName(r, n) \in Resolver
           /\ NothingPending(r) \in Resolver
           /\ \A u \in User, n \in Name : onPublicUserInfoReceived(r, u, n) \in Resolver
<1>1. \A u \in User : WithPendingUser(r, u) \in Resolver
  BY DEF Resolver, WithPendingUser
<1>2. \A n \in Name : WithPendingName(r, n) \in Resolver
  BY DEF Resolver, WithPendingName
<1>3. NothingPending(r) \in Resolver
  BY DEF Resolver, NothingPending
<1>4. \A u \in User, n \in Name : onPublicUserInfoReceived(r, u, n) \in Resolver
  BY DEF Resolver, onPublicUserInfoReceived
<1> QED BY <1>1, <1>2, <1>3, <1>4

\* The window keeps the types.
LEMMA WindowTypes == ASSUME ChatTypeOK, Window PROVE ChatTypeOK'
<1> USE DEF manager, gui, server, resolverVars
<1>1. CASE openWindow
  BY <1>1, CreatorTypes DEF openWindow, ChatTypeOK
<1>2. CASE closeWindow
  BY <1>2 DEF closeWindow, ChatTypeOK
<1>3. CASE createChat
  <2>1. creator' \in Creator /\ window' \in BOOLEAN
    BY <1>3, CreatorTypes DEF createChat, ChatTypeOK
  <2>2. requests' \in Seq(Requests)
    <3>1. CreateChat(memberIds(creator)) \in Requests
      BY <1>3, WireTypes DEF createChat, canCreateChat, memberIds, Few
    <3> QED BY <1>3, <3>1, QueuesGrow DEF createChat, ChatTypeOK
  <2> QED BY <1>3, <2>1, <2>2 DEF createChat, ChatTypeOK
<1>4. ASSUME NEW n \in Name, addUser(n) PROVE ChatTypeOK'
  <2>1. CASE HasName(resolver, n)
    <3>1. resolver.usernameCache[n] \in User
      BY <2>1 DEF HasName, ChatTypeOK, Resolver
    <3>2. resolver.cache[resolver.usernameCache[n]] \in Name \cup {NoName}
      BY <3>1 DEF ChatTypeOK, Resolver
    <3>3. creator' \in Creator
      <4>1. PICK u, name : /\ u = resolver.usernameCache[n]
                           /\ name = resolver.cache[resolver.usernameCache[n]]
        OBVIOUS
      <4>2. creator' = addResolvedUser(creator, u, name)
        BY <1>4, <2>1, <4>1 DEF addUser
      <4>3. creator \in Creator /\ u \in User /\ name \in Name \cup {NoName}
        BY <3>1, <3>2, <4>1 DEF ChatTypeOK
      <4> QED BY <4>2, <4>3, CreatorTypes
    <3>4. UNCHANGED resolverVars /\ UNCHANGED <<manager, window, server>>
      BY <1>4, <2>1 DEF addUser
    <3>5. /\ UNCHANGED <<connected, resolver, directory, requests, replies, window>>
          /\ UNCHANGED <<pending, loggedIn, chatStorage, selectedChat, unnamed,
                          authorized, serverChats>>
      BY <3>4
    <3> QED BY <3>3, <3>5 DEF ChatTypeOK
  <2>2. CASE ~HasName(resolver, n)
    <3>1. creator' \in Creator
      BY <1>4, <2>2, CreatorTypes DEF addUser, ChatTypeOK
    <3>2. CASE resolveUsername(n)
      <4>1. requests' \in Seq(Requests) /\ resolver' \in Resolver
        BY <3>2, WireTypes, QueuesGrow, ResolverTypes DEF resolveUsername, ChatTypeOK
      <4> QED BY <1>4, <3>1, <3>2, <4>1 DEF addUser, resolveUsername, ChatTypeOK
    <3>3. CASE UNCHANGED resolverVars
      BY <1>4, <3>1, <3>3 DEF addUser, ChatTypeOK
    <3> QED BY <1>4, <2>2, <3>2, <3>3 DEF addUser
  <2> QED BY <2>1, <2>2
<1>5. ASSUME NEW action \in {"Login", "Logout"}, NEW request \in {LoginUser, LogoutUser},
             starts(action, request)
      PROVE  ChatTypeOK'
  <2>1. requests' \in Seq(Requests)
    BY <1>5, WireTypes, QueuesGrow DEF starts
  <2>2. pending' \in {"Login", "Logout"}
    BY <1>5 DEF starts
  <2> QED BY <1>5, <2>1, <2>2 DEF starts, ChatTypeOK
<1> QED BY <1>1, <1>2, <1>3, <1>4, <1>5 DEF Window, login, logout

\* Removing chats from the list keeps the types.
LEMMA KeepTypes ==
    ASSUME ChatTypeOK, NEW kept \in SUBSET Chat, Keep(kept)
    PROVE  selectedChat' \in Chat \cup {NoChat} /\ unnamed' \in [Chat -> SUBSET User]
  BY DEF Keep, ChatTypeOK

\* The end of a login keeps the types.
LEMMA LogsOutTypes ==
    ASSUME ChatTypeOK, logsOut
    PROVE  /\ loggedIn' \in BOOLEAN /\ chatStorage' \in Members
           /\ selectedChat' \in Chat \cup {NoChat} /\ unnamed' \in [Chat -> SUBSET User]
<1>1. NoChats \in Members
  BY DEF NoChats, Members
<1>2. selectedChat' \in Chat \cup {NoChat} /\ unnamed' \in [Chat -> SUBSET User]
  BY KeepTypes DEF logsOut
<1> QED BY <1>1, <1>2 DEF logsOut

\* Selections and the connection keep the types.
LEMMA ListEventTypes == ASSUME ChatTypeOK, ChatListEvent PROVE ChatTypeOK'
<1> USE DEF manager, gui, server, resolverVars
<1>1. ASSUME NEW c \in Chat, selectChat(c) PROVE ChatTypeOK'
  BY <1>1 DEF selectChat, ChatTypeOK
<1>2. CASE unselectChat
  BY <1>2 DEF unselectChat, ChatTypeOK
<1>3. CASE connectionChanges
  <2>1. /\ loggedIn' \in BOOLEAN /\ chatStorage' \in Members
        /\ selectedChat' \in Chat \cup {NoChat} /\ unnamed' \in [Chat -> SUBSET User]
    BY <1>3, LogsOutTypes DEF connectionChanges, ChatTypeOK
  <2>2. resolver' \in Resolver
    BY <1>3, ResolverTypes DEF connectionChanges, onConnectionStatusChanged, ChatTypeOK
  <2>3. requests' \in Seq(Requests) /\ replies' \in Seq(Replies)
    BY <1>3, EmptySeq DEF connectionChanges, onConnectionStatusChanged
  <2> QED BY <1>3, <2>1, <2>2, <2>3 DEF connectionChanges, onConnectionStatusChanged, ChatTypeOK
<1> QED BY <1>1, <1>2, <1>3 DEF ChatListEvent

\* The packet that is read, and the ones that are left.
LEMMA HeadReply ==
    ASSUME ChatTypeOK, replies # <<>>
    PROVE  /\ Head(replies) \in Replies /\ Tail(replies) \in Seq(Replies)
           /\ Range(replies) = {Head(replies)} \cup Range(Tail(replies))
  BY RangeTail DEF ChatTypeOK

\* The client's packet handlers keep the types.
LEMMA PacketTypes == ASSUME ChatTypeOK, onPacket PROVE ChatTypeOK'
<1> PICK p : p = Head(replies)
  OBVIOUS
<1>1. /\ p \in Replies /\ replies' \in Seq(Replies)
      /\ UNCHANGED <<connected, directory, window, server>>
      /\ \/ onSuccess(p) \/ onError(p) \/ onUserInfo(p) \/ onProfile(p) \/ onChatInfo(p)
         \/ onChatListReceived(p) \/ onNewMessage(p)
  BY HeadReply DEF onPacket
<1> USE DEF manager, server
<1>2. \A us \in SUBSET User : OtherMembers(us) \in SUBSET (User \cup {Self})
  BY DEF OtherMembers
<1>3. ASSUME NEW us, LookUp(us) PROVE requests' \in Seq(Requests) /\ resolver' \in Resolver
  BY <1>3, LookUpEffect DEF ChatTypeOK
<1>4. CASE onError(p)
  BY <1>1, <1>4, CreatorTypes, ResolverTypes DEF onError, ChatTypeOK
<1>10. CASE onSuccess(p)
  <2>1. /\ loggedIn' \in BOOLEAN /\ chatStorage' \in Members
        /\ selectedChat' \in Chat \cup {NoChat} /\ unnamed' \in [Chat -> SUBSET User]
    BY <1>10, LogsOutTypes DEF onSuccess, ChatTypeOK
  <2>2. requests' \in Seq(Requests)
    BY <1>10, WireTypes, QueuesGrow DEF onSuccess, ChatTypeOK
  <2>3. pending' \in {"None", "Login", "FetchProfile", "Logout"}
    BY <1>10 DEF onSuccess, ChatTypeOK
  <2> QED BY <1>1, <1>10, <2>1, <2>2, <2>3 DEF onSuccess, ChatTypeOK
<1>5. CASE onUserInfo(p)
  <2>1. p.id \in User /\ p.name \in Name
    BY <1>1, <1>5, ReplyShape DEF onUserInfo
  <2>2. resolver' \in Resolver /\ creator' \in Creator
    BY <1>5, <2>1, ResolverTypes, CreatorTypes DEF onUserInfo, ChatTypeOK
  <2>3. unnamed' \in [Chat -> SUBSET User]
    BY <1>5 DEF onUserInfo, Named, ChatTypeOK
  <2> QED BY <1>1, <1>5, <2>2, <2>3 DEF onUserInfo, ChatTypeOK
<1>6. CASE onProfile(p)
  <2>1. /\ requests' \in Seq(Requests) /\ loggedIn' \in BOOLEAN
        /\ pending' \in {"None", "Login", "FetchProfile", "Logout"}
    BY <1>6, WireTypes, QueuesGrow DEF onProfile, ChatTypeOK
  <2> QED BY <1>1, <1>6, <2>1 DEF onProfile, ChatTypeOK
<1>7. CASE onChatInfo(p)
  <2>1. p.chat \in Chat /\ p.members \in SUBSET User
    BY <1>1, <1>7, ReplyShape DEF onChatInfo, Few
  <2>2. CASE creator.creating
    <3>1. /\ chatStorage' = [chatStorage EXCEPT ![p.chat] =
                                IF @ = {} THEN OtherMembers(p.members) ELSE @]
          /\ selectedChat' = p.chat /\ creator' = EmptyCreator /\ LookUp(p.members)
      BY <1>7, <2>2 DEF onChatInfo
    <3>2. chatStorage' \in Members
      BY <1>2, <2>1, <3>1 DEF Members, ChatTypeOK
    <3> QED BY <1>1, <1>3, <1>7, <2>1, <3>1, <3>2, CreatorTypes DEF onChatInfo, ChatTypeOK
  <2>3. CASE ~creator.creating
    BY <1>1, <1>7, <2>3 DEF onChatInfo, ChatTypeOK
  <2> QED BY <2>2, <2>3
<1>8. CASE onChatListReceived(p)
  <2>1. p.chats \in [Chat -> SUBSET User]
    BY <1>1, <1>8, ReplyShape DEF onChatListReceived
  <2>2. chatStorage' \in Members
    BY <1>2, <1>8, <2>1 DEF onChatListReceived, Members
  <2>3. selectedChat' \in Chat \cup {NoChat} /\ unnamed' \in [Chat -> SUBSET User]
    <3>1. {c \in Chat : p.chats[c] # {}} \in SUBSET Chat
      OBVIOUS
    <3> QED BY <1>8, <3>1, KeepTypes DEF onChatListReceived
  <2>4. requests' \in Seq(Requests) /\ resolver' \in Resolver
    BY <1>3, <1>8 DEF onChatListReceived
  <2> QED BY <1>1, <1>8, <2>2, <2>3, <2>4 DEF onChatListReceived, ChatTypeOK
<1>9. CASE onNewMessage(p)
  <2>1. p.chat \in Chat /\ p.sender \in User
    BY <1>1, <1>9, ReplyShape DEF onNewMessage
  <2>2. requests' \in Seq(Requests) /\ resolver' \in Resolver
    BY <1>3, <1>9 DEF onNewMessage, ChatTypeOK
  <2>3. unnamed' \in [Chat -> SUBSET User]
    BY <1>9, <2>1 DEF onNewMessage, ChatTypeOK
  <2> QED BY <1>1, <1>9, <2>2, <2>3 DEF onNewMessage, ChatTypeOK
<1> QED BY <1>1, <1>4, <1>5, <1>6, <1>7, <1>8, <1>9, <1>10

\* The server's answer is about the user, or under the name, that was asked for.
LEMMA AnswerShape ==
    ASSUME ChatTypeOK
    PROVE  /\ \A u \in User : \/ Answer(AskId(u)) = Refused
                              \/ \E n \in Name : Answer(AskId(u)) = UserInfo(u, n)
           /\ \A n \in Name : \/ Answer(AskName(n)) = Refused
                              \/ \E u \in User : Answer(AskName(n)) = UserInfo(u, n)
<1>1. directory \in [User -> Name \cup {NoName}]
  BY DEF ChatTypeOK
<1>2. ASSUME NEW r,
             NEW found, found = {u \in User : directory[u] # NoName /\ (u = r.id \/ directory[u] = r.name)}
      PROVE  \/ Answer(r) = Refused
             \/ \E v \in found : Answer(r) = UserInfo(v, directory[v])
  BY <1>2 DEF Answer
<1>3. ASSUME NEW u \in User
      PROVE  \/ Answer(AskId(u)) = Refused
             \/ \E n \in Name : Answer(AskId(u)) = UserInfo(u, n)
  <2> DEFINE r == AskId(u)
             found == {v \in User : directory[v] # NoName /\ (v = r.id \/ directory[v] = r.name)}
  <2>1. r.id = u /\ r.name = NoName
    BY DEF AskId
  <2>2. \A v \in found : v = u /\ directory[v] \in Name
    BY <1>1, <2>1
  <2> HIDE DEF r
  <2>3. \/ Answer(r) = Refused
        \/ \E v \in found : Answer(r) = UserInfo(v, directory[v])
    BY <1>2
  <2> HIDE DEF found
  <2> QED BY <2>2, <2>3 DEF r
<1>4. ASSUME NEW n \in Name
      PROVE  \/ Answer(AskName(n)) = Refused
             \/ \E u \in User : Answer(AskName(n)) = UserInfo(u, n)
  <2> DEFINE r == AskName(n)
             found == {v \in User : directory[v] # NoName /\ (v = r.id \/ directory[v] = r.name)}
  <2>1. r.id = NoUser /\ r.name = n
    BY DEF AskName
  <2>2. \A v \in found : v \in User /\ directory[v] = n
    BY <2>1, ResolverAssumption
  <2> HIDE DEF r
  <2>3. \/ Answer(r) = Refused
        \/ \E v \in found : Answer(r) = UserInfo(v, directory[v])
    BY <1>2
  <2> HIDE DEF found
  <2> QED BY <2>2, <2>3 DEF r
<1> QED BY <1>3, <1>4

\* The request that the server reads, and the ones that are left.
LEMMA HeadRequest ==
    ASSUME ChatTypeOK, requests # <<>>
    PROVE  /\ Head(requests) \in Requests /\ Tail(requests) \in Seq(Requests)
           /\ Range(requests) = {Head(requests)} \cup Range(Tail(requests))
  BY RangeTail DEF ChatTypeOK

\* Labels, other requests and other users keep the types.
LEMMA ElsewhereTypes == ASSUME ChatTypeOK, Elsewhere PROVE ChatTypeOK'
<1> USE DEF manager, gui, server, resolverVars, wire
<1>1. ASSUME NEW c \in Chat, label(c), UNCHANGED <<manager, gui, server>> PROVE ChatTypeOK'
  <2> PICK u \in User : resolveUserId(u)
    BY <1>1 DEF label
  <2>1. requests' \in Seq(Requests) /\ resolver' \in Resolver
    BY WireTypes, QueuesGrow, ResolverTypes DEF resolveUserId, ChatTypeOK
  <2> QED BY <1>1, <2>1 DEF resolveUserId, ChatTypeOK
<1>2. ASSUME otherRequestEnds, UNCHANGED <<manager, gui, server>> PROVE ChatTypeOK'
  <2>1. replies' \in Seq(Replies)
    BY <1>2, WireTypes, QueuesGrow DEF otherRequestEnds
  <2> QED BY <1>2, <2>1 DEF otherRequestEnds, ChatTypeOK
<1>3. ASSUME NEW u \in User, NEW n \in Name, rename(u, n), UNCHANGED <<manager, gui, server>>
      PROVE  ChatTypeOK'
  BY <1>3 DEF rename, ChatTypeOK
<1>4. ASSUME NEW c \in Chat, NEW us \in SUBSET User, otherCreatesChat(c, us) PROVE ChatTypeOK'
  <2>1. serverChats' \in [Chat -> SUBSET User]
    BY <1>4 DEF otherCreatesChat, ChatTypeOK
  <2>2. replies' \in Seq(Replies)
    BY <1>4, <2>1, WireTypes, QueuesGrow DEF otherCreatesChat, ChatTypeOK
  <2> QED BY <1>4, <2>1, <2>2 DEF otherCreatesChat, ChatTypeOK
<1>5. ASSUME NEW c \in Chat, NEW u \in User, otherSendsMessage(c, u) PROVE ChatTypeOK'
  <2>1. replies' \in Seq(Replies)
    BY <1>5, WireTypes, QueuesGrow DEF otherSendsMessage
  <2> QED BY <1>5, <2>1 DEF otherSendsMessage, ChatTypeOK
<1> QED BY <1>1, <1>2, <1>3, <1>4, <1>5 DEF Elsewhere

\* What the creator of a chat is sent.
LEMMA CreatedType ==
    ASSUME NEW c \in Chat, NEW us \in Few, NEW list \in [Chat -> SUBSET User], ChatTypeOK
    PROVE  /\ Append(replies, Accepted) \o Created(c, us, list) \in Seq(Replies)
           /\ Range(replies) \subseteq Range(Append(replies, Accepted) \o Created(c, us, list))
<1>1. ChatInfo(c, us) \in Replies /\ ChatList(list) \in Replies
  BY WireTypes
<1> DEFINE made == Created(c, us, list)
           first == Append(replies, Accepted)
<1>2. made \in Seq(Replies)
  BY <1>1 DEF Created
<1>3. first \in Seq(Replies) /\ Range(replies) \subseteq Range(first)
  BY WireTypes, QueuesGrow
<1> HIDE DEF made, first
<1>4. first \o made \in Seq(Replies) /\ Range(first \o made) = Range(first) \cup Range(made)
  BY <1>2, <1>3, ConcatProperties, RangeConcatenation
<1> QED BY <1>3, <1>4 DEF made, first

\* The server's handlers keep the types.
LEMMA ServerTypes == ASSUME ChatTypeOK, ServerReads PROVE ChatTypeOK'
<1> USE DEF manager, gui, server, resolverVars
<1>1. CASE handleGetUserInfo /\ UNCHANGED <<manager, gui, server>>
  <2> DEFINE r == Head(requests)
  <2>1. r \in Requests /\ Tail(requests) \in Seq(Requests) /\ r.type = "GET_USER_INFO"
    BY <1>1, HeadRequest DEF handleGetUserInfo
  <2> HIDE DEF r
  <2>2. Answer(r) \in Replies
    BY <2>1, RequestShape, AnswerShape, WireTypes
  <2>3. replies' \in Seq(Replies)
    BY <1>1, <2>2, WireTypes, QueuesGrow DEF handleGetUserInfo, r
  <2> QED BY <1>1, <2>1, <2>3 DEF handleGetUserInfo, ChatTypeOK
<1>2. ASSUME NEW type, handles(type), replies' \in Seq(Replies), authorized' \in BOOLEAN,
             serverChats' \in [Chat -> SUBSET User]
      PROVE  ChatTypeOK'
  <2>1. requests' \in Seq(Requests)
    BY <1>2, HeadRequest DEF handles
  <2> QED BY <1>2, <2>1 DEF handles, ChatTypeOK
<1>3. \A reply \in Replies : answers(reply) => replies' \in Seq(Replies)
  BY QueuesGrow DEF answers
<1>4. CASE handleLoginUser
  <2>1. handles("LOGIN_USER") /\ replies' \in Seq(Replies)
    BY <1>3, <1>4, WireTypes DEF handleLoginUser
  <2> QED BY <1>2, <1>4, <2>1 DEF handleLoginUser, ChatTypeOK
<1>5. CASE handleLogoutUser
  <2>1. handles("LOGOUT_USER") /\ replies' \in Seq(Replies)
    BY <1>3, <1>5, WireTypes DEF handleLogoutUser
  <2> QED BY <1>2, <1>5, <2>1 DEF handleLogoutUser, ChatTypeOK
<1>6. CASE handleGetUserProfile
  <2>1. handles("GET_USER_PROFILE") /\ replies' \in Seq(Replies)
    BY <1>3, <1>6, WireTypes DEF handleGetUserProfile
  <2> QED BY <1>2, <1>6, <2>1 DEF handleGetUserProfile, ChatTypeOK
<1>7. CASE handleGetChats
  <2>1. ChatList(serverChats) \in Replies
    BY WireTypes DEF ChatTypeOK
  <2>2. handles("GET_CHATS") /\ replies' \in Seq(Replies)
    BY <1>3, <1>7, <2>1, WireTypes DEF handleGetChats
  <2> QED BY <1>2, <1>7, <2>2 DEF handleGetChats, ChatTypeOK
<1>8. CASE handleCreateChat
  <2> DEFINE us == Head(requests).members
  <2>1. us \in Few /\ handles("CREATE_CHAT")
    BY <1>8, HeadRequest, RequestShape DEF handleCreateChat, handles
  <2> HIDE DEF us
  <2>2. replies' \in Seq(Replies) /\ serverChats' \in [Chat -> SUBSET User]
    <3>1. CASE answers(Refused) /\ UNCHANGED serverChats
      BY <1>3, <3>1, WireTypes DEF ChatTypeOK
    <3>2. ASSUME NEW c \in Chat, serverChats' = [serverChats EXCEPT ![c] = us],
                 replies' = Append(replies, Accepted) \o Created(c, us, serverChats')
          PROVE  replies' \in Seq(Replies) /\ serverChats' \in [Chat -> SUBSET User]
      <4>1. serverChats' \in [Chat -> SUBSET User]
        BY <2>1, <3>2 DEF ChatTypeOK, Few
      <4> QED BY <2>1, <3>2, <4>1, CreatedType
    <3> QED BY <1>8, <3>1, <3>2 DEF handleCreateChat, us
  <2> QED BY <1>2, <1>8, <2>1, <2>2 DEF handleCreateChat, ChatTypeOK
<1> QED BY <1>1, <1>4, <1>5, <1>6, <1>7, <1>8 DEF ServerReads

\* Every step keeps the types.
LEMMA ChatTypeStep == ASSUME ChatTypeOK, [ChatNext]_chatVars PROVE ChatTypeOK'
<1>1. CASE UNCHANGED chatVars
  BY <1>1 DEF chatVars, resolverVars, manager, gui, server, ChatTypeOK
<1> QED BY <1>1, WindowTypes, ListEventTypes, PacketTypes, ElsewhereTypes, ServerTypes
        DEF ChatNext

\* A client starts typed.
LEMMA ChatInitTyped == ASSUME ChatInit PROVE ChatTypeOK
<1>1. EmptyResolver \in Resolver /\ EmptyCreator \in Creator
  BY DEF EmptyResolver, Resolver, EmptyCreator, Creator
<1>2. NoChats \in Members /\ NoChats \in [Chat -> SUBSET User]
  BY DEF NoChats, Members
<1> QED BY <1>1, <1>2, EmptySeq DEF ChatInit, ResolverInit, ChatTypeOK

\* The client's state and every packet under way are typed; a chat that is asked
\* for or announced has another member.
THEOREM ChatsTyped == ChatSpec => []ChatTypeOK
  BY ChatInitTyped, ChatTypeStep, PTL DEF ChatSpec

-----------------------------------------------------------------------------
(* The selection. *)

\* Who a chat is shown with is empty only for no members at all.
LEMMA OthersShown == ASSUME NEW us PROVE OtherMembers(us) = {} <=> us = {}
  BY DEF OtherMembers

\* The server changes nothing of the client, whose next request it takes.
LEMMA ServerKeepsClient ==
    ASSUME ServerReads
    PROVE  /\ requests # <<>> /\ requests' = Tail(requests)
           /\ UNCHANGED <<connected, resolver>> /\ UNCHANGED manager /\ UNCHANGED gui
  BY DEF ServerReads, handleGetUserInfo, handles, handleLoginUser, handleLogoutUser,
         handleGetUserProfile, handleGetChats, handleCreateChat

\* Every step selects a chat of the list or clears the selection.
LEMMA SelectionStep ==
    ASSUME ChatTypeOK, SelectedIsListed, [ChatNext]_chatVars
    PROVE  SelectedIsListed'
<1> USE DEF manager, gui, server, resolverVars
<1>1. CASE UNCHANGED <<chatStorage, selectedChat>>
  BY <1>1 DEF SelectedIsListed, Listed
<1>2. CASE Window
  BY <1>1, <1>2 DEF Window, openWindow, closeWindow, createChat, addUser, login, logout, starts
<1>3. CASE ChatListEvent
  <2>1. ASSUME NEW c \in Chat, selectChat(c) PROVE SelectedIsListed'
    BY <2>1 DEF selectChat, SelectedIsListed, Listed
  <2>2. CASE unselectChat
    BY <2>2 DEF unselectChat, SelectedIsListed
  <2>3. ASSUME Keep({}) PROVE SelectedIsListed'
    BY <2>3 DEF Keep, SelectedIsListed
  <2>4. CASE connectionChanges /\ ~loggedIn
    BY <1>1, <2>4 DEF connectionChanges
  <2> QED BY <1>3, <2>1, <2>2, <2>3, <2>4 DEF ChatListEvent, logsOut, connectionChanges
<1>4. CASE onPacket
  <2> PICK p : p = Head(replies)
    OBVIOUS
  <2>1. /\ p \in Replies
        /\ \/ onSuccess(p) \/ onError(p) \/ onUserInfo(p) \/ onProfile(p) \/ onChatInfo(p)
           \/ onChatListReceived(p) \/ onNewMessage(p)
    BY <1>4, HeadReply DEF onPacket
  <2>2. CASE onError(p) \/ onUserInfo(p) \/ onProfile(p) \/ onNewMessage(p)
    BY <1>1, <2>2 DEF onError, onUserInfo, onProfile, onNewMessage
  <2>6. CASE onSuccess(p)
    BY <1>1, <2>6 DEF onSuccess, logsOut, Keep, SelectedIsListed
  <2>3. CASE onChatInfo(p) /\ creator.creating
    <3>1. p.chat \in Chat /\ OtherMembers(p.members) # {}
      BY <2>1, <2>3, ReplyShape, OthersShown DEF onChatInfo, Few
    <3>2. /\ chatStorage' = [chatStorage EXCEPT ![p.chat] =
                                IF @ = {} THEN OtherMembers(p.members) ELSE @]
          /\ selectedChat' = p.chat
      BY <2>3 DEF onChatInfo
    <3>3. chatStorage'[p.chat] # {}
      BY <3>1, <3>2 DEF ChatTypeOK, Members
    <3> QED BY <3>1, <3>2, <3>3 DEF SelectedIsListed, Listed
  <2>4. CASE onChatInfo(p) /\ ~creator.creating
    BY <1>1, <2>4 DEF onChatInfo
  <2>5. CASE onChatListReceived(p)
    <3>1. \A c \in Chat : chatStorage'[c] = OtherMembers(p.chats[c])
      BY <2>5 DEF onChatListReceived
    <3>2. selectedChat' # NoChat => selectedChat' \in Chat /\ p.chats[selectedChat'] # {}
      BY <2>5 DEF onChatListReceived, Keep
    <3> QED BY <3>1, <3>2, OthersShown DEF SelectedIsListed, Listed
  <2> QED BY <2>1, <2>2, <2>3, <2>4, <2>5, <2>6
<1>5. CASE Elsewhere
  BY <1>1, <1>5 DEF Elsewhere, otherCreatesChat, otherSendsMessage
<1>6. CASE ServerReads
  BY <1>1, <1>6, ServerKeepsClient
<1>7. CASE UNCHANGED chatVars
  BY <1>1, <1>7 DEF chatVars
<1> QED BY <1>2, <1>3, <1>4, <1>5, <1>6, <1>7 DEF ChatNext

\* The selected chat is always one of the list: a list without it, a logout and
\* a lost connection clear the selection, and a created chat is listed first.
THEOREM SelectionListed == ChatSpec => []SelectedIsListed
<1>1. ChatInit => SelectedIsListed
  BY DEF ChatInit, SelectedIsListed
<1> QED BY <1>1, SelectionStep, ChatsTyped, PTL DEF ChatSpec

-----------------------------------------------------------------------------
(* The names of senders. *)

\* Only the answer to a look-up changes what is known of a user.
LEMMA CacheChanges ==
    ASSUME ChatTypeOK, [ChatNext]_chatVars
    PROVE  \/ \E p \in Replies : onUserInfo(p)
           \/ resolver'.cache = resolver.cache
<1> USE DEF manager, gui, server, resolverVars, wire
<1>1. CASE UNCHANGED resolver
  BY <1>1
<1>2. CASE Window
  BY <1>2 DEF Window, openWindow, closeWindow, createChat, addUser, login, logout, starts,
              resolveUsername, WithPendingName, ChatTypeOK, Resolver
<1>3. CASE ChatListEvent
  BY <1>3 DEF ChatListEvent, selectChat, unselectChat, connectionChanges,
              onConnectionStatusChanged, NothingPending, ChatTypeOK, Resolver
<1>4. CASE onPacket
  <2> PICK p : p = Head(replies)
    OBVIOUS
  <2>1. /\ p \in Replies
        /\ \/ onSuccess(p) \/ onError(p) \/ onUserInfo(p) \/ onProfile(p) \/ onChatInfo(p)
           \/ onChatListReceived(p) \/ onNewMessage(p)
    BY <1>4, HeadReply DEF onPacket
  <2>2. ASSUME NEW us, LookUp(us) PROVE resolver'.cache = resolver.cache
    BY <2>2 DEF LookUp, ChatTypeOK, Resolver
  <2>3. CASE onError(p)
    BY <2>3 DEF onError, NothingPending, ChatTypeOK, Resolver
  <2>4. CASE onProfile(p) \/ onSuccess(p)
    BY <2>4 DEF onProfile, onSuccess
  <2> QED BY <2>1, <2>2, <2>3, <2>4 DEF onChatInfo, onChatListReceived, onNewMessage
<1>5. CASE Elsewhere
  BY <1>5 DEF Elsewhere, label, resolveUserId, WithPendingUser, otherRequestEnds, rename,
              otherCreatesChat, otherSendsMessage,
              ChatTypeOK, Resolver
<1>6. CASE ServerReads
  BY <1>1, <1>6, ServerKeepsClient
<1> QED BY <1>1, <1>2, <1>3, <1>4, <1>5, <1>6 DEF ChatNext, chatVars

\* A message waits for a name only if its sender is unknown when it arrives.
LEMMA UnnamedGrows ==
    ASSUME ChatTypeOK, [ChatNext]_chatVars, NEW c \in Chat, NEW u \in unnamed'[c]
    PROVE  u \in unnamed[c] \/ ~HasUser(resolver, u)
<1> USE DEF manager, gui, server, resolverVars
<1>1. CASE UNCHANGED unnamed
  BY <1>1
<1>2. CASE Window
  BY <1>1, <1>2 DEF Window, openWindow, closeWindow, createChat, addUser, login, logout, starts
<1>3. ASSUME NEW kept, Keep(kept) PROVE u \in unnamed[c]
  BY <1>3 DEF Keep
<1>4. CASE ChatListEvent
  BY <1>1, <1>3, <1>4 DEF ChatListEvent, selectChat, unselectChat, logsOut, connectionChanges
<1>5. CASE onPacket
  <2> PICK p : p = Head(replies)
    OBVIOUS
  <2>1. \/ onSuccess(p) \/ onError(p) \/ onUserInfo(p) \/ onProfile(p) \/ onChatInfo(p)
        \/ onChatListReceived(p) \/ onNewMessage(p)
    BY <1>5 DEF onPacket
  <2>2. CASE onUserInfo(p)
    BY <2>2 DEF onUserInfo, Named
  <2>3. CASE onChatListReceived(p)
    BY <1>3, <2>3 DEF onChatListReceived
  <2>4. CASE onNewMessage(p)
    BY <1>1, <2>4 DEF onNewMessage, ChatTypeOK
  <2>5. CASE onSuccess(p)
    BY <1>1, <1>3, <2>5 DEF onSuccess, logsOut
  <2> QED BY <1>1, <2>1, <2>2, <2>3, <2>4, <2>5 DEF onError, onProfile, onChatInfo
<1>6. CASE Elsewhere
  BY <1>1, <1>6 DEF Elsewhere, otherCreatesChat, otherSendsMessage
<1>7. CASE ServerReads
  BY <1>1, <1>7, ServerKeepsClient
<1> QED BY <1>1, <1>2, <1>4, <1>5, <1>6, <1>7 DEF ChatNext, chatVars

\* No message shows "Loading..." for a sender the client knows, whichever
\* look-ups were refused, forgotten or answered to somebody else.
THEOREM SendersNamed == ChatSpec => []KnownSendersNamed
<1>1. ChatInit => KnownSendersNamed
  BY DEF ChatInit, KnownSendersNamed
<1>2. ASSUME ChatTypeOK, ChatTypeOK', KnownSendersNamed, [ChatNext]_chatVars
      PROVE  KnownSendersNamed'
  <2> SUFFICES ASSUME NEW c \in Chat, NEW u \in unnamed'[c]
               PROVE  resolver'.cache[u] = NoName
    BY DEF KnownSendersNamed, HasUser
  <2>1. u \in User
    BY <1>2 DEF ChatTypeOK
  <2>2. resolver.cache[u] = NoName
    BY <1>2, UnnamedGrows DEF KnownSendersNamed, HasUser
  <2>3. ASSUME NEW p \in Replies, onUserInfo(p) PROVE resolver'.cache[u] = NoName
    <3>1. p.id \in User /\ p.id # u
      BY <2>3, ReplyShape DEF onUserInfo, Named
    <3> QED BY <1>2, <2>1, <2>2, <2>3, <3>1
            DEF onUserInfo, onPublicUserInfoReceived, ChatTypeOK, Resolver
  <2> QED BY <1>2, <2>2, <2>3, CacheChanges
<1> QED BY <1>1, <1>2, ChatsTyped, PTL DEF ChatSpec

-----------------------------------------------------------------------------
(* The marks of pending look-ups. *)

Asks == {AskId(u) : u \in User} \cup {AskName(n) : n \in Name}
Answers == {Refused} \cup {UserInfo(u, n) : u \in User, n \in Name}

\* While there is no connection nobody waits for an answer.
OfflineQuiet ==
    ~connected => resolver.pendingRequests = {} /\ resolver.pendingUsernameRequests = {}

PendingInv == ChatTypeOK /\ OfflineQuiet /\ PendingIsUnderWay

\* A step that keeps the look-ups and their answers under way, and marks only
\* what it asks for, leaves no mark behind.
LEMMA UnderWayKept ==
    ASSUME ChatTypeOK, PendingIsUnderWay,
           NEW us \in SUBSET User, NEW ns \in SUBSET Name,
           resolver'.pendingRequests \subseteq resolver.pendingRequests \cup us,
           resolver'.pendingUsernameRequests \subseteq resolver.pendingUsernameRequests \cup ns,
           \A u \in us : AskId(u) \in Range(requests'),
           \A n \in ns : AskName(n) \in Range(requests'),
           \A r \in Asks : r \in Range(requests) => r \in Range(requests'),
           \A p \in Answers : p \in Range(replies) => p \in Range(replies')
    PROVE  PendingIsUnderWay'
<1>1. resolver.pendingRequests \subseteq User /\ resolver.pendingUsernameRequests \subseteq Name
  BY DEF ChatTypeOK, Resolver
<1>2. ASSUME NEW n \in resolver'.pendingUsernameRequests
      PROVE  \/ AskName(n) \in Range(requests')
             \/ ({Refused} \cup {UserInfo(u, n) : u \in User}) \cap Range(replies') # {}
  <2>1. CASE n \in ns
    BY <2>1
  <2>2. CASE n \in resolver.pendingUsernameRequests
    <3>1. n \in Name /\ AskName(n) \in Asks
      BY <1>1, <2>2 DEF Asks
    <3>2. Refused \in Answers /\ \A u \in User : UserInfo(u, n) \in Answers
      BY <3>1 DEF Answers
    <3> QED BY <2>2, <3>1, <3>2 DEF PendingIsUnderWay
  <2> QED BY <1>2, <2>1, <2>2
<1>3. ASSUME NEW u \in resolver'.pendingRequests
      PROVE  \/ AskId(u) \in Range(requests')
             \/ ({Refused} \cup {UserInfo(u, n) : n \in Name}) \cap Range(replies') # {}
  <2>1. CASE u \in us
    BY <2>1
  <2>2. CASE u \in resolver.pendingRequests
    <3>1. u \in User /\ AskId(u) \in Asks
      BY <1>1, <2>2 DEF Asks
    <3>2. Refused \in Answers /\ \A n \in Name : UserInfo(u, n) \in Answers
      BY <3>1 DEF Answers
    <3> QED BY <2>2, <3>1, <3>2 DEF PendingIsUnderWay
  <2> QED BY <1>3, <2>1, <2>2
<1> QED BY <1>2, <1>3 DEF PendingIsUnderWay

\* The same, with nothing asked for and the resolver as it was.
LEMMA UnderWaySame ==
    ASSUME ChatTypeOK, PendingIsUnderWay, UNCHANGED resolver,
           \A r \in Asks : r \in Range(requests) => r \in Range(requests'),
           \A p \in Answers : p \in Range(replies) => p \in Range(replies')
    PROVE  PendingIsUnderWay'
<1> {} \in SUBSET User /\ {} \in SUBSET Name
  OBVIOUS
<1> QED BY UnderWayKept

\* With nothing pending there is nothing to be under way.
LEMMA NothingUnderWay ==
    ASSUME resolver'.pendingRequests = {}, resolver'.pendingUsernameRequests = {}
    PROVE  PendingIsUnderWay' /\ OfflineQuiet'
  BY DEF PendingIsUnderWay, OfflineQuiet

\* Only look-ups are asked, only look-ups are answered.
LEMMA OtherPackets ==
    /\ \A r \in Asks : r.type = "GET_USER_INFO"
    /\ \A p \in Answers : p.type \in {"OPERATION_RESULT", "PUBLIC_USER_INFO_DATA"}
    /\ Accepted \notin Answers
<1>1. /\ \A r \in Asks : r.type = "GET_USER_INFO"
      /\ \A p \in Answers : p.type \in {"OPERATION_RESULT", "PUBLIC_USER_INFO_DATA"}
  BY DEF Asks, Answers, AskId, AskName, Refused, UserInfo
<1>2. Accepted # Refused /\ \A u, n : Accepted # UserInfo(u, n)
  <2>1. Accepted.success # Refused.success
    BY DEF Accepted, Refused
  <2>2. Accepted.type = "OPERATION_RESULT" /\ \A u, n : UserInfo(u, n).type = "PUBLIC_USER_INFO_DATA"
    BY DEF Accepted, UserInfo
  <2> QED BY <2>1, <2>2
<1> QED BY <1>1, <1>2 DEF Answers

\* The window marks the name it asks for.
LEMMA WindowPending == ASSUME PendingInv, Window PROVE PendingIsUnderWay' /\ OfflineQuiet'
<1> USE DEF manager, gui, server, resolverVars, PendingInv
<1>1. CASE UNCHANGED <<connected, resolver, requests, replies>>
  BY <1>1, UnderWaySame DEF OfflineQuiet
<1>2. CASE openWindow \/ closeWindow
  BY <1>1, <1>2 DEF openWindow, closeWindow
<1>3. CASE createChat
  <2>1. Range(requests) \subseteq Range(requests')
    <3>1. CreateChat(memberIds(creator)) \in Requests
      BY <1>3, WireTypes DEF createChat, canCreateChat, memberIds, Few
    <3> QED BY <1>3, <3>1, QueuesGrow DEF createChat
  <2> QED BY <1>3, <2>1, UnderWaySame DEF createChat, OfflineQuiet
<1>4. ASSUME NEW n \in Name, addUser(n) PROVE PendingIsUnderWay' /\ OfflineQuiet'
  <2>1. CASE UNCHANGED resolverVars
    BY <1>1, <2>1
  <2>2. CASE resolveUsername(n)
    <3>1. Range(requests') = Range(requests) \cup {AskName(n)}
      BY <2>2, WireTypes, QueuesGrow DEF resolveUsername
    <3>2. /\ resolver'.pendingRequests = resolver.pendingRequests
          /\ resolver'.pendingUsernameRequests = resolver.pendingUsernameRequests \cup {n}
      BY <2>2 DEF resolveUsername, WithPendingName, ChatTypeOK, Resolver
    <3>3. UNCHANGED <<connected, replies>> /\ connected
      BY <2>2 DEF resolveUsername, AsksForName
    <3> {} \in SUBSET User /\ {n} \in SUBSET Name
      OBVIOUS
    <3> QED BY <3>1, <3>2, <3>3, UnderWayKept DEF OfflineQuiet
  <2> QED BY <1>4, <2>1, <2>2 DEF addUser
<1>5. ASSUME NEW action, NEW request \in {LoginUser, LogoutUser}, starts(action, request)
      PROVE  PendingIsUnderWay' /\ OfflineQuiet'
  <2>1. UNCHANGED <<connected, resolver, replies>> /\ Range(requests) \subseteq Range(requests')
    BY <1>5, WireTypes, QueuesGrow DEF starts
  <2>2. PendingIsUnderWay'
    BY <2>1, UnderWaySame
  <2> QED BY <2>1, <2>2 DEF OfflineQuiet
<1> QED BY <1>2, <1>3, <1>4, <1>5 DEF Window, login, logout

\* A connection that comes or goes finds or leaves nothing pending.
LEMMA ListEventPending ==
    ASSUME PendingInv, ChatListEvent PROVE PendingIsUnderWay' /\ OfflineQuiet'
<1> USE DEF manager, gui, server, resolverVars, PendingInv
<1>1. CASE UNCHANGED <<connected, resolver, requests, replies>>
  BY <1>1, UnderWaySame DEF OfflineQuiet
<1>2. CASE connectionChanges
  <2>1. resolver'.pendingRequests = {} /\ resolver'.pendingUsernameRequests = {}
    BY <1>2 DEF connectionChanges, onConnectionStatusChanged, NothingPending, OfflineQuiet,
                ChatTypeOK, Resolver
  <2> QED BY <2>1, NothingUnderWay
<1> QED BY <1>1, <1>2 DEF ChatListEvent, selectChat, unselectChat

\* A refusal ends every look-up, an answer the one of its user and its name.
LEMMA PacketPending == ASSUME PendingInv, onPacket PROVE PendingIsUnderWay' /\ OfflineQuiet'
<1> USE DEF manager, server, PendingInv
<1> PICK p : p = Head(replies)
  OBVIOUS
<1>1. /\ p \in Replies /\ UNCHANGED connected
      /\ Range(replies) = {p} \cup Range(replies')
      /\ \/ onSuccess(p) \/ onError(p) \/ onUserInfo(p) \/ onProfile(p) \/ onChatInfo(p)
         \/ onChatListReceived(p) \/ onNewMessage(p)
  BY HeadReply DEF onPacket
<1>2. requests \in Seq(Requests) /\ resolver \in Resolver
  BY DEF ChatTypeOK
<1>3. ASSUME p \notin Answers, UNCHANGED resolver, Range(requests) \subseteq Range(requests')
      PROVE  PendingIsUnderWay' /\ OfflineQuiet'
  <2>1. PendingIsUnderWay'
    BY <1>1, <1>3, UnderWaySame
  <2> QED BY <1>1, <1>3, <2>1 DEF OfflineQuiet
<1>4. ASSUME p \notin Answers, NEW us, LookUp(us)
      PROVE  PendingIsUnderWay' /\ OfflineQuiet'
  <2>1. PICK asked \in SUBSET User :
             /\ resolver' = [resolver EXCEPT !.pendingRequests = @ \cup asked]
             /\ Range(requests') = Range(requests) \cup {AskId(u) : u \in asked}
             /\ ~connected => asked = {}
    BY <1>2, <1>4, LookUpEffect
  <2>2. /\ resolver'.pendingRequests = resolver.pendingRequests \cup asked
        /\ resolver'.pendingUsernameRequests = resolver.pendingUsernameRequests
    BY <1>2, <2>1 DEF Resolver
  <2>3. \A q \in Answers : q \in Range(replies) => q \in Range(replies')
    BY <1>1, <1>4
  <2> {} \in SUBSET Name
    OBVIOUS
  <2>4. PendingIsUnderWay'
    BY <2>1, <2>2, <2>3, UnderWayKept
  <2> QED BY <1>1, <2>1, <2>2, <2>4 DEF OfflineQuiet
<1>5. CASE onError(p)
  <2>1. resolver'.pendingRequests = {} /\ resolver'.pendingUsernameRequests = {}
    BY <1>2, <1>5 DEF onError, NothingPending, Resolver
  <2> QED BY <2>1, NothingUnderWay
<1>11. CASE onSuccess(p)
  <2>1. p \notin Answers
    BY <1>11, OtherPackets DEF onSuccess
  <2>2. Range(requests) \subseteq Range(requests') /\ UNCHANGED resolver
    BY <1>11, WireTypes, QueuesGrow DEF onSuccess
  <2> QED BY <1>3, <2>1, <2>2
<1>6. CASE onUserInfo(p)
  <2>1. p.id \in User /\ p.name \in Name /\ p = UserInfo(p.id, p.name)
    BY <1>1, <1>6, ReplyShape DEF onUserInfo
  <2>2. p.id # NoUser
    BY <2>1, ResolverAssumption
  <2>3. /\ resolver'.pendingRequests = resolver.pendingRequests \ {p.id}
        /\ resolver'.pendingUsernameRequests = resolver.pendingUsernameRequests \ {p.name}
        /\ UNCHANGED requests
    BY <1>6, <2>2 DEF onUserInfo, onPublicUserInfoReceived
  <2>4. ASSUME NEW n \in resolver'.pendingUsernameRequests
        PROVE  \/ AskName(n) \in Range(requests')
               \/ ({Refused} \cup {UserInfo(u, n) : u \in User}) \cap Range(replies') # {}
    <3>1. p # Refused /\ \A u \in User : p # UserInfo(u, n)
      BY <2>1, <2>3, <2>4 DEF Refused, UserInfo
    <3> QED BY <1>1, <2>3, <2>4, <3>1 DEF PendingIsUnderWay
  <2>5. ASSUME NEW u \in resolver'.pendingRequests
        PROVE  \/ AskId(u) \in Range(requests')
               \/ ({Refused} \cup {UserInfo(u, n) : n \in Name}) \cap Range(replies') # {}
    <3>1. p # Refused /\ \A n \in Name : p # UserInfo(u, n)
      BY <2>1, <2>3, <2>5 DEF Refused, UserInfo
    <3> QED BY <1>1, <2>3, <2>5, <3>1 DEF PendingIsUnderWay
  <2>6. PendingIsUnderWay'
    BY <2>4, <2>5 DEF PendingIsUnderWay
  <2> QED BY <1>1, <2>3, <2>6 DEF OfflineQuiet
<1>7. CASE onProfile(p)
  <2>1. p \notin Answers
    BY <1>7, OtherPackets DEF onProfile, Profile
  <2>2. Range(requests) \subseteq Range(requests') /\ UNCHANGED resolver
    BY <1>7, WireTypes, QueuesGrow DEF onProfile
  <2> QED BY <1>3, <2>1, <2>2
<1>8. CASE onChatInfo(p)
  <2>1. p \notin Answers
    BY <1>8, OtherPackets DEF onChatInfo
  <2> QED BY <1>3, <1>4, <1>8, <2>1 DEF onChatInfo
<1>9. CASE onChatListReceived(p)
  <2>1. p \notin Answers
    BY <1>9, OtherPackets DEF onChatListReceived
  <2> QED BY <1>4, <1>9, <2>1 DEF onChatListReceived
<1>10. CASE onNewMessage(p)
  <2>1. p \notin Answers
    BY <1>10, OtherPackets DEF onNewMessage
  <2> QED BY <1>3, <1>4, <1>10, <2>1 DEF onNewMessage
<1> QED BY <1>1, <1>5, <1>6, <1>7, <1>8, <1>9, <1>10, <1>11

\* A label marks the member it asks for.
LEMMA ElsewherePending ==
    ASSUME PendingInv, Elsewhere PROVE PendingIsUnderWay' /\ OfflineQuiet'
<1> USE DEF manager, gui, server, resolverVars, wire, PendingInv
<1>1. ASSUME UNCHANGED <<connected, resolver, requests>>, Range(replies) \subseteq Range(replies')
      PROVE  PendingIsUnderWay' /\ OfflineQuiet'
  <2>1. PendingIsUnderWay'
    BY <1>1, UnderWaySame
  <2> QED BY <1>1, <2>1 DEF OfflineQuiet
<1>2. ASSUME NEW c \in Chat, label(c) PROVE PendingIsUnderWay' /\ OfflineQuiet'
  <2> PICK u \in User : resolveUserId(u)
    BY <1>2 DEF label
  <2>1. Range(requests') = Range(requests) \cup {AskId(u)}
    BY WireTypes, QueuesGrow DEF resolveUserId
  <2>2. /\ resolver'.pendingRequests = resolver.pendingRequests \cup {u}
        /\ resolver'.pendingUsernameRequests = resolver.pendingUsernameRequests
    BY DEF resolveUserId, WithPendingUser, ChatTypeOK, Resolver
  <2>3. UNCHANGED <<connected, replies>> /\ connected
    BY DEF resolveUserId, AsksForUser
  <2> {u} \in SUBSET User /\ {} \in SUBSET Name
    OBVIOUS
  <2> QED BY <2>1, <2>2, <2>3, UnderWayKept DEF OfflineQuiet
<1>3. CASE otherRequestEnds
  BY <1>1, <1>3, WireTypes, QueuesGrow DEF otherRequestEnds
<1>4. ASSUME NEW u \in User, NEW n \in Name, rename(u, n)
      PROVE  PendingIsUnderWay' /\ OfflineQuiet'
  BY <1>1, <1>4 DEF rename
<1>5. ASSUME NEW c \in Chat, NEW us \in SUBSET User, otherCreatesChat(c, us)
      PROVE  PendingIsUnderWay' /\ OfflineQuiet'
  <2>1. serverChats' \in [Chat -> SUBSET User]
    BY <1>5 DEF otherCreatesChat, ChatTypeOK
  <2> QED BY <1>1, <1>5, <2>1, WireTypes, QueuesGrow DEF otherCreatesChat
<1>6. ASSUME NEW c \in Chat, NEW u \in User, otherSendsMessage(c, u)
      PROVE  PendingIsUnderWay' /\ OfflineQuiet'
  BY <1>1, <1>6, WireTypes, QueuesGrow DEF otherSendsMessage
<1> QED BY <1>2, <1>3, <1>4, <1>5, <1>6 DEF Elsewhere

\* The server answers the look-up that it takes off the queue.
LEMMA ServerPending == ASSUME PendingInv, ServerReads PROVE PendingIsUnderWay' /\ OfflineQuiet'
<1> USE DEF manager, gui, server, PendingInv
<1>1. UNCHANGED <<connected, resolver>> /\ requests # <<>> /\ requests' = Tail(requests)
  BY ServerKeepsClient
<1>2. OfflineQuiet'
  BY <1>1 DEF OfflineQuiet
<1>3. Range(requests) = {Head(requests)} \cup Range(requests')
  BY <1>1, HeadRequest
<1>4. CASE handleGetUserInfo
  <2> PICK r : r = Head(requests)
    OBVIOUS
  <2>1. r \in Requests
    BY <1>1, HeadRequest
  <2>2. PICK answer \in {Answer(r), Refused} : replies' = Append(replies, answer)
    BY <1>4 DEF handleGetUserInfo
  <2>3. Answer(r) \in Replies
    BY <1>4, <2>1, RequestShape, AnswerShape, WireTypes DEF handleGetUserInfo
  <2>4. Range(replies') = Range(replies) \cup {answer}
    BY <2>2, <2>3, WireTypes, QueuesGrow
  <2>5. ASSUME NEW n \in resolver'.pendingUsernameRequests
        PROVE  \/ AskName(n) \in Range(requests')
               \/ ({Refused} \cup {UserInfo(u, n) : u \in User}) \cap Range(replies') # {}
    <3>1. n \in Name /\ n \in resolver.pendingUsernameRequests
      BY <1>1, <2>5 DEF ChatTypeOK, Resolver
    <3>2. CASE r = AskName(n)
      <4>1. answer \in {Refused} \cup {UserInfo(u, n) : u \in User}
        BY <2>2, <3>1, <3>2, AnswerShape
      <4> QED BY <2>4, <4>1
    <3>3. CASE r # AskName(n)
      BY <1>3, <2>4, <3>1, <3>3 DEF PendingIsUnderWay
    <3> QED BY <3>2, <3>3
  <2>6. ASSUME NEW u \in resolver'.pendingRequests
        PROVE  \/ AskId(u) \in Range(requests')
               \/ ({Refused} \cup {UserInfo(u, n) : n \in Name}) \cap Range(replies') # {}
    <3>1. u \in User /\ u \in resolver.pendingRequests
      BY <1>1, <2>6 DEF ChatTypeOK, Resolver
    <3>2. CASE r = AskId(u)
      <4>1. answer \in {Refused} \cup {UserInfo(u, n) : n \in Name}
        BY <2>2, <3>1, <3>2, AnswerShape
      <4> QED BY <2>4, <4>1
    <3>3. CASE r # AskId(u)
      BY <1>3, <2>4, <3>1, <3>3 DEF PendingIsUnderWay
    <3> QED BY <3>2, <3>3
  <2>7. PendingIsUnderWay'
    BY <2>5, <2>6 DEF PendingIsUnderWay
  <2> QED BY <1>2, <2>7
<1>5. ASSUME Head(requests).type # "GET_USER_INFO", Range(replies) \subseteq Range(replies')
      PROVE  PendingIsUnderWay' /\ OfflineQuiet'
  <2>1. Head(requests) \notin Asks
    BY <1>5, OtherPackets
  <2> QED BY <1>1, <1>2, <1>3, <1>5, <2>1, UnderWaySame
<1>6. ASSUME NEW type, handles(type), type # "GET_USER_INFO",
             Range(replies) \subseteq Range(replies')
      PROVE  PendingIsUnderWay' /\ OfflineQuiet'
  BY <1>5, <1>6 DEF handles
<1>7. \A reply \in Replies : answers(reply) => Range(replies) \subseteq Range(replies')
  BY QueuesGrow DEF answers
<1>8. CASE handleLoginUser
  BY <1>6, <1>7, <1>8, WireTypes DEF handleLoginUser
<1>9. CASE handleLogoutUser
  BY <1>6, <1>7, <1>9, WireTypes DEF handleLogoutUser
<1>10. CASE handleGetUserProfile
  BY <1>6, <1>7, <1>10, WireTypes DEF handleGetUserProfile
<1>11. CASE handleGetChats
  <2>1. ChatList(serverChats) \in Replies
    BY WireTypes DEF ChatTypeOK
  <2> QED BY <1>6, <1>7, <1>11, <2>1, WireTypes DEF handleGetChats
<1>12. CASE handleCreateChat
  <2> PICK us : us = Head(requests).members
    OBVIOUS
  <2>1. handles("CREATE_CHAT") /\ us \in Few
    BY <1>1, <1>12, HeadRequest, RequestShape DEF handleCreateChat, handles
  <2>2. Range(replies) \subseteq Range(replies')
    <3>1. CASE answers(Refused)
      BY <1>7, <3>1, WireTypes
    <3>2. ASSUME NEW c \in Chat, serverChats' = [serverChats EXCEPT ![c] = us],
                 replies' = Append(replies, Accepted) \o Created(c, us, serverChats')
          PROVE  Range(replies) \subseteq Range(replies')
      <4>1. PICK list : list = serverChats'
        OBVIOUS
      <4>2. list \in [Chat -> SUBSET User]
        BY <2>1, <3>2, <4>1 DEF ChatTypeOK, Few
      <4> QED BY <2>1, <3>2, <4>1, <4>2, CreatedType
    <3> QED BY <1>12, <3>1, <3>2 DEF handleCreateChat
  <2> QED BY <1>6, <2>1, <2>2
<1> QED BY <1>4, <1>8, <1>9, <1>10, <1>11, <1>12 DEF ServerReads

\* No pending mark outlives its request: what the resolver waits for is asked for
\* or answered on the connection, though refusals of any request end all marks.
THEOREM PendingUnderWay == ChatSpec => []PendingIsUnderWay
<1>1. ChatInit => PendingInv
  <2> SUFFICES ASSUME ChatInit PROVE OfflineQuiet /\ PendingIsUnderWay /\ ChatTypeOK
    BY DEF PendingInv
  <2>1. resolver.pendingRequests = {} /\ resolver.pendingUsernameRequests = {}
    BY DEF ChatInit, ResolverInit, EmptyResolver
  <2> QED BY <2>1, ChatInitTyped DEF OfflineQuiet, PendingIsUnderWay
<1>2. ASSUME PendingInv, [ChatNext]_chatVars PROVE PendingInv'
  <2>1. ChatTypeOK'
    BY <1>2, ChatTypeStep DEF PendingInv
  <2>2. CASE UNCHANGED chatVars
    <3>1. UNCHANGED <<connected, resolver, requests, replies>>
      BY <2>2 DEF chatVars, resolverVars
    <3> QED BY <1>2, <2>1, <3>1 DEF PendingInv, OfflineQuiet, PendingIsUnderWay
  <2> QED BY <1>2, <2>1, <2>2, WindowPending, ListEventPending, PacketPending,
             ElsewherePending, ServerPending DEF PendingInv, ChatNext
<1>3. PendingInv => PendingIsUnderWay
  BY DEF PendingInv
<1> QED BY <1>1, <1>2, <1>3, PTL DEF ChatSpec

-----------------------------------------------------------------------------
(* The chat list.  The order of the packets keeps it current: the last     *)
(* list under way is the server's with no new chat behind it, and no       *)
(* packet before a new chat brings that chat.  A client that is logged in  *)
(* and asks the server to be authorized, as a login does whose answer      *)
(* never came, asks for the list behind that.                              *)

IsList(p) == p.type = "CHAT_LIST_DATA"
IsInfo(p) == p.type = "CHAT_INFO_DATA"

\* A packet that can bring a chat into the client's list, or is about it.
Adds(p, c) == \/ IsList(p) /\ p.chats[c] # {}
              \/ IsInfo(p) /\ p.chat = c
Mentions(p, c) == Adds(p, c) \/ (p.type = "CHAT_MESSAGE" /\ p.chat = c)

WireOrder(s, storage, stored) ==
    /\ \A i \in 1..Len(s) :
         /\ IsInfo(s[i]) => storage[s[i].chat] = {}
         /\ \A c \in Chat : Mentions(s[i], c) => stored[c] # {}
    /\ \A i, j \in 1..Len(s) : IsInfo(s[i]) /\ j < i => ~Adds(s[j], s[i].chat)
    /\ \A c \in Chat : storage[c] # {} => stored[c] # {}

\* The packets that are left change the list to what the server has, or not at all.
Brings(s, stored) ==
    \E i \in 1..Len(s) :
        /\ IsList(s[i]) /\ s[i].chats = stored
        /\ \A j \in 1..Len(s) : IsList(s[j]) \/ IsInfo(s[j]) => j <= i
Still(s) == \A i \in 1..Len(s) : ~IsList(s[i]) /\ ~IsInfo(s[i])

\* The list is asked for behind every login that is under way.
LoginsAhead(s) ==
    \A i \in 1..Len(s) : s[i] = LoginUser => \E j \in 1..Len(s) : i < j /\ s[j] = GetChats

Lists ==
    /\ WireOrder(replies, chatStorage, serverChats)
    /\ loggedIn => LoginsAhead(requests)
    /\ loggedIn /\ authorized =>
         \/ GetChats \in Range(requests)
         \/ Brings(replies, serverChats)
         \/ Still(replies) /\ chatStorage = serverChats

ListInv == ChatTypeOK /\ Lists

\* No packet under way.
LEMMA OrderEmpty ==
    ASSUME NEW storage, NEW stored, \A c \in Chat : storage[c] # {} => stored[c] # {}
    PROVE  WireOrder(<<>>, storage, stored)
  BY DEF WireOrder

\* The positions of a queue that grew at its end, and of one that lost its head.
LEMMA QueuePositions ==
    ASSUME NEW S, NEW s \in Seq(S), NEW p \in S
    PROVE  /\ Len(s) \in Nat /\ Append(s, p) \in Seq(S) /\ Len(Append(s, p)) = Len(s) + 1
           /\ \A i \in 1..Len(s) : Append(s, p)[i] = s[i]
           /\ Append(s, p)[Len(s) + 1] = p
<1>1. /\ Append(s, p) \in Seq(S) /\ Len(Append(s, p)) = Len(s) + 1
      /\ \A i \in 1..Len(s) : Append(s, p)[i] = s[i]
      /\ Append(s, p)[Len(s) + 1] = p
  BY AppendProperties
<1> QED BY <1>1, LenProperties

\* The same of a queue that lost its head.
LEMMA TailPositions ==
    ASSUME NEW S, NEW s \in Seq(S), s # <<>>, NEW n, n = Len(Tail(s))
    PROVE  /\ n \in Nat /\ Len(s) = n + 1 /\ Head(s) = s[1] /\ Head(s) \in S
           /\ Tail(s) \in Seq(S)
           /\ \A i \in 1..n : i + 1 \in 1..n + 1 /\ 1 < i + 1 /\ Tail(s)[i] = s[i + 1]
           /\ \A i \in 1..n + 1 : i = 1 \/ (i - 1 \in 1..n /\ s[i] = Tail(s)[i - 1])
           /\ 1 \in 1..n + 1
<1>1. /\ Len(s) \in Nat \ {0} /\ Head(s) = s[1] /\ Tail(s) \in Seq(S) /\ Head(s) \in S
      /\ n = Len(s) - 1
      /\ \A i \in 1..n : Tail(s)[i] = s[i + 1]
  BY HeadTailProperties, EmptySeq, LenProperties
<1>2. n \in Nat /\ Len(s) = n + 1
  BY <1>1
<1>3. \A i \in 1..n + 1 : i = 1 \/ (i - 1 \in 1..n /\ (i - 1) + 1 = i)
  BY <1>2
<1>4. \A i \in 1..n : i + 1 \in 1..n + 1 /\ 1 < i + 1
  BY <1>2
<1>5. \A i \in 1..n + 1 : i = 1 \/ (i - 1 \in 1..n /\ s[i] = Tail(s)[i - 1])
  BY <1>1, <1>3
<1> QED BY <1>1, <1>2, <1>4, <1>5

\* A packet joins the queue: of a new chat, only one the server has not had.
LEMMA OrderAppended ==
    ASSUME NEW s \in Seq(Replies), NEW p \in Replies, NEW storage, NEW stored, NEW now,
           WireOrder(s, storage, stored),
           \A c \in Chat : stored[c] # {} \/ Mentions(p, c) => now[c] # {},
           IsInfo(p) => p.chat \in Chat /\ stored[p.chat] = {}
    PROVE  WireOrder(Append(s, p), storage, now)
<1>1. PICK t, n : t = Append(s, p) /\ n = Len(s)
  OBVIOUS
<1>2. /\ n \in Nat /\ Len(s) = n /\ Len(t) = n + 1 /\ t[n + 1] = p
      /\ \A i \in 1..n : t[i] = s[i]
  BY <1>1, QueuePositions
<1>3. \A i \in 1..n + 1 : i \in 1..n \/ i = n + 1
  BY <1>2
<1>4. ASSUME NEW i \in 1..n + 1
      PROVE  /\ IsInfo(t[i]) => storage[t[i].chat] = {}
             /\ \A c \in Chat : Mentions(t[i], c) => now[c] # {}
  <2>1. CASE i \in 1..n
    <3>1. /\ t[i] = s[i]
          /\ IsInfo(s[i]) => storage[s[i].chat] = {}
          /\ \A c \in Chat : Mentions(s[i], c) => stored[c] # {}
      BY <1>2, <2>1 DEF WireOrder
    <3> QED BY <3>1
  <2>2. CASE i = n + 1
    <3>1. \A c \in Chat : stored[c] = {} => storage[c] = {}
      BY DEF WireOrder
    <3> QED BY <1>2, <2>2, <3>1
  <2> QED BY <1>3, <2>1, <2>2
<1>5. ASSUME NEW i \in 1..n + 1, NEW j \in 1..n + 1, IsInfo(t[i]), j < i
      PROVE  ~Adds(t[j], t[i].chat)
  <2>1. j \in 1..n
    BY <1>2, <1>5
  <2>2. CASE i \in 1..n
    BY <1>2, <1>5, <2>1, <2>2 DEF WireOrder
  <2>3. CASE i = n + 1
    <3>1. \A c \in Chat : Mentions(s[j], c) => stored[c] # {}
      BY <1>2, <2>1 DEF WireOrder
    <3> QED BY <1>2, <1>5, <2>1, <2>3, <3>1 DEF Mentions
  <2> QED BY <1>3, <2>2, <2>3
<1>6. \A c \in Chat : storage[c] # {} => now[c] # {}
  BY DEF WireOrder
<1>7. WireOrder(t, storage, now)
  BY <1>2, <1>4, <1>5, <1>6 DEF WireOrder
<1> QED BY <1>1, <1>7

\* The head is taken from the queue, with the chats it brings, or with none.
LEMMA OrderTaken ==
    ASSUME NEW s \in Seq(Replies), s # <<>>, NEW storage, NEW stored, NEW now,
           WireOrder(s, storage, stored),
           \A c \in Chat : now[c] # {} => storage[c] # {} \/ Adds(Head(s), c)
    PROVE  WireOrder(Tail(s), now, stored)
<1>1. PICK t, n : t = Tail(s) /\ n = Len(t)
  OBVIOUS
<1>2. /\ n \in Nat /\ Len(s) = n + 1 /\ Head(s) = s[1] /\ 1 \in 1..n + 1
      /\ \A i \in 1..n : i + 1 \in 1..n + 1 /\ 1 < i + 1 /\ t[i] = s[i + 1]
  BY <1>1, TailPositions
<1>3. \A i, j \in 1..n + 1 : IsInfo(s[i]) /\ j < i => ~Adds(s[j], s[i].chat)
  BY <1>2 DEF WireOrder
<1>4. ASSUME NEW i \in 1..n
      PROVE  /\ IsInfo(t[i]) => now[t[i].chat] = {}
             /\ \A c \in Chat : Mentions(t[i], c) => stored[c] # {}
  <2>1. t[i] = s[i + 1] /\ i + 1 \in 1..Len(s) /\ t[i] \in Replies
    <3>1. s[i + 1] \in Replies
      BY <1>2, ElementOfSeq
    <3> QED BY <1>2, <3>1
  <2>2. /\ IsInfo(s[i + 1]) => storage[s[i + 1].chat] = {}
        /\ \A c \in Chat : Mentions(s[i + 1], c) => stored[c] # {}
    BY <2>1 DEF WireOrder
  <2>3. IsInfo(t[i]) => t[i].chat \in Chat /\ ~Adds(Head(s), t[i].chat)
    BY <1>2, <1>3, <2>1, ReplyShape DEF IsInfo
  <2> QED BY <2>1, <2>2, <2>3
<1>5. ASSUME NEW i \in 1..n, NEW j \in 1..n, IsInfo(t[i]), j < i
      PROVE  ~Adds(t[j], t[i].chat)
  <2>1. j + 1 < i + 1
    BY <1>5
  <2> QED BY <1>2, <1>3, <1>5, <2>1
<1>6. ASSUME NEW c \in Chat, now[c] # {} PROVE stored[c] # {}
  <2>1. /\ storage[c] # {} => stored[c] # {}
        /\ Mentions(s[1], c) => stored[c] # {}
    BY <1>2 DEF WireOrder
  <2> QED BY <1>2, <1>6, <2>1 DEF Mentions
<1>7. WireOrder(t, now, stored)
  BY <1>1, <1>4, <1>5, <1>6 DEF WireOrder
<1> QED BY <1>1, <1>7

\* What is behind the last list, or follows none, changes no list.
LEMMA BringsAppended ==
    ASSUME NEW s \in Seq(Replies), NEW p \in Replies, NEW stored
    PROVE  /\ ~IsList(p) /\ ~IsInfo(p) =>
                /\ Brings(s, stored) => Brings(Append(s, p), stored)
                /\ Still(s) => Still(Append(s, p))
           /\ IsList(p) /\ p.chats = stored => Brings(Append(s, p), stored)
<1>1. PICK t, n : t = Append(s, p) /\ n = Len(s)
  OBVIOUS
<1>2. /\ n \in Nat /\ Len(s) = n /\ Len(t) = n + 1 /\ t[n + 1] = p
      /\ \A i \in 1..n : t[i] = s[i]
  BY <1>1, QueuePositions
<1>3. \A i \in 1..n + 1 : i \in 1..n \/ i = n + 1
  BY <1>2
<1>4. n + 1 \in 1..n + 1 /\ \A i \in 1..n : i \in 1..n + 1
  BY <1>2
<1>5. \A j \in 1..n + 1 : j <= n + 1
  BY <1>2
<1>6. ASSUME ~IsList(p), ~IsInfo(p), Brings(s, stored) PROVE Brings(t, stored)
  <2>1. PICK i \in 1..n : /\ IsList(s[i]) /\ s[i].chats = stored
                          /\ \A j \in 1..n : IsList(s[j]) \/ IsInfo(s[j]) => j <= i
    BY <1>2, <1>6 DEF Brings
  <2>2. ASSUME NEW j \in 1..n + 1, IsList(t[j]) \/ IsInfo(t[j]) PROVE j <= i
    <3>1. j \in 1..n /\ t[j] = s[j]
      BY <1>2, <1>3, <1>6, <2>2
    <3> QED BY <2>1, <2>2, <3>1
  <2> QED BY <1>2, <1>4, <2>1, <2>2 DEF Brings
<1>7. ~IsList(p) /\ ~IsInfo(p) /\ Still(s) => Still(t)
  BY <1>2, <1>3 DEF Still
<1>8. IsList(p) /\ p.chats = stored => Brings(t, stored)
  BY <1>2, <1>4, <1>5 DEF Brings
<1> QED BY <1>1, <1>6, <1>7, <1>8

\* The packet that is read is the last list, or leaves the last list to be read.
LEMMA BringsTaken ==
    ASSUME NEW s \in Seq(Replies), s # <<>>, NEW stored
    PROVE  /\ Brings(s, stored) =>
                \/ Brings(Tail(s), stored)
                \/ IsList(Head(s)) /\ Head(s).chats = stored /\ Still(Tail(s))
           /\ Still(s) => ~IsList(Head(s)) /\ ~IsInfo(Head(s)) /\ Still(Tail(s))
<1>1. PICK t, n : t = Tail(s) /\ n = Len(t)
  OBVIOUS
<1>2. /\ n \in Nat /\ Len(s) = n + 1 /\ Head(s) = s[1] /\ 1 \in 1..n + 1
      /\ \A i \in 1..n : i + 1 \in 1..n + 1 /\ 1 < i + 1 /\ t[i] = s[i + 1]
      /\ \A i \in 1..n + 1 : i = 1 \/ (i - 1 \in 1..n /\ s[i] = t[i - 1])
  BY <1>1, TailPositions
<1>3. ASSUME Brings(s, stored)
      PROVE  \/ Brings(t, stored)
             \/ IsList(Head(s)) /\ Head(s).chats = stored /\ Still(t)
  <2>1. PICK i \in 1..n + 1 : /\ IsList(s[i]) /\ s[i].chats = stored
                              /\ \A j \in 1..n + 1 : IsList(s[j]) \/ IsInfo(s[j]) => j <= i
    BY <1>2, <1>3 DEF Brings
  <2>2. \A j \in 1..n : IsList(t[j]) \/ IsInfo(t[j]) => j + 1 <= i
    BY <1>2, <2>1
  <2>3. CASE i = 1
    <3>1. \A j \in 1..n : ~(j + 1 <= i)
      BY <1>2, <2>3
    <3>2. Still(t)
      BY <1>1, <2>2, <3>1 DEF Still
    <3> QED BY <1>2, <2>1, <2>3, <3>2
  <2>4. CASE i # 1
    <3>1. i - 1 \in 1..n /\ s[i] = t[i - 1]
      BY <1>2, <2>4
    <3>2. \A j \in 1..n : j + 1 <= i => j <= i - 1
      BY <1>2
    <3> QED BY <1>1, <2>1, <2>2, <3>1, <3>2 DEF Brings
  <2> QED BY <2>3, <2>4
<1>4. Still(s) => ~IsList(Head(s)) /\ ~IsInfo(Head(s)) /\ Still(t)
  BY <1>1, <1>2 DEF Still
<1> QED BY <1>1, <1>3, <1>4

\* Requests join those of a logged-in client: no login, or the list behind all.
LEMMA AheadAppended ==
    ASSUME NEW s \in Seq(Requests), NEW r \in Requests
    PROVE  /\ r # LoginUser /\ LoginsAhead(s) => LoginsAhead(Append(s, r))
           /\ LoginsAhead(Append(s, GetChats))
<1>1. PICK n : n = Len(s)
  OBVIOUS
<1>2. ASSUME NEW q \in Requests
      PROVE  /\ n \in Nat /\ Len(s) = n /\ Len(Append(s, q)) = n + 1 /\ Append(s, q)[n + 1] = q
             /\ \A i \in 1..n : Append(s, q)[i] = s[i]
  BY <1>1, QueuePositions
<1>3. GetChats \in Requests /\ GetChats # LoginUser
  BY WireTypes DEF GetChats, LoginUser
<1>4. \A i \in 1..n + 1 : i \in 1..n \/ i = n + 1
  BY <1>2, <1>3
<1>5. n + 1 \in 1..n + 1 /\ \A i \in 1..n : i \in 1..n + 1 /\ i < n + 1
  BY <1>2, <1>3
<1>6. ASSUME r # LoginUser, LoginsAhead(s) PROVE LoginsAhead(Append(s, r))
  <2> PICK t : t = Append(s, r)
    OBVIOUS
  <2>1. Len(t) = n + 1 /\ t[n + 1] = r /\ \A i \in 1..n : t[i] = s[i]
    BY <1>2
  <2>2. ASSUME NEW i \in 1..n + 1, t[i] = LoginUser
        PROVE  \E j \in 1..n + 1 : i < j /\ t[j] = GetChats
    <3>1. i \in 1..n /\ s[i] = LoginUser
      BY <1>4, <1>6, <2>1, <2>2
    <3>2. PICK j \in 1..n : i < j /\ s[j] = GetChats
      BY <1>1, <1>6, <3>1 DEF LoginsAhead
    <3> QED BY <1>5, <2>1, <3>2
  <2> QED BY <2>1, <2>2 DEF LoginsAhead
<1>7. LoginsAhead(Append(s, GetChats))
  <2> PICK t : t = Append(s, GetChats)
    OBVIOUS
  <2>1. Len(t) = n + 1 /\ t[n + 1] = GetChats
    BY <1>2, <1>3
  <2> QED BY <1>3, <1>4, <1>5, <2>1 DEF LoginsAhead
<1> QED BY <1>6, <1>7

\* The server takes the next request: behind a login it finds the list asked for.
LEMMA AheadTaken ==
    ASSUME NEW s \in Seq(Requests), s # <<>>, LoginsAhead(s)
    PROVE  LoginsAhead(Tail(s)) /\ (Head(s) = LoginUser => GetChats \in Range(Tail(s)))
<1>1. PICK t, n : t = Tail(s) /\ n = Len(t)
  OBVIOUS
<1>2. /\ n \in Nat /\ Len(s) = n + 1 /\ Head(s) = s[1] /\ 1 \in 1..n + 1 /\ t \in Seq(Requests)
      /\ \A i \in 1..n : i + 1 \in 1..n + 1 /\ 1 < i + 1 /\ t[i] = s[i + 1]
      /\ \A i \in 1..n + 1 : i = 1 \/ (i - 1 \in 1..n /\ s[i] = t[i - 1])
  BY <1>1, TailPositions
<1>3. \A i \in 1..n + 1 : s[i] = LoginUser => \E j \in 1..n + 1 : i < j /\ s[j] = GetChats
  BY <1>2 DEF LoginsAhead
<1>4. ASSUME NEW i \in 1..n + 1, NEW j \in 1..n + 1, i < j
      PROVE  j - 1 \in 1..n /\ i <= j - 1 /\ s[j] = t[j - 1]
  <2>1. j # 1
    BY <1>2, <1>4
  <2>2. i <= j - 1
    BY <1>2, <1>4
  <2> QED BY <1>2, <2>1, <2>2
<1>5. ASSUME NEW i \in 1..n, t[i] = LoginUser PROVE \E j \in 1..n : i < j /\ t[j] = GetChats
  <2>1. PICK j \in 1..n + 1 : i + 1 < j /\ s[j] = GetChats
    BY <1>2, <1>3, <1>5
  <2>2. j - 1 \in 1..n /\ i + 1 <= j - 1 /\ t[j - 1] = GetChats
    BY <1>2, <1>4, <2>1
  <2>3. i < j - 1
    BY <2>2
  <2> QED BY <2>2, <2>3
<1>6. ASSUME Head(s) = LoginUser PROVE GetChats \in Range(t)
  <2>1. PICK j \in 1..n + 1 : 1 < j /\ s[j] = GetChats
    BY <1>2, <1>3, <1>6
  <2>2. j - 1 \in 1..n /\ t[j - 1] = GetChats
    BY <1>2, <1>4, <2>1
  <2>3. Range(t) = {t[i] : i \in 1..n}
    <3>1. t \in Seq(Requests)
      BY <1>2
    <3>2. Range(t) = {t[i] : i \in 1..Len(t)}
      BY <3>1, RangeEquality
    <3> QED BY <1>1, <3>2
  <2> QED BY <2>2, <2>3
<1>7. LoginsAhead(t)
  BY <1>1, <1>5 DEF LoginsAhead
<1> QED BY <1>1, <1>6, <1>7

\* Look-ups neither ask for the list nor log in.
LEMMA LookUpAhead ==
    ASSUME ChatTypeOK, NEW us, LookUp(us)
    PROVE  /\ GetChats \in Range(requests') <=> GetChats \in Range(requests)
           /\ LoginsAhead(requests) => LoginsAhead(requests')
<1>1. requests \in Seq(Requests) /\ resolver \in Resolver
  BY DEF ChatTypeOK
<1>2. PICK users \in SUBSET User :
        Range(requests') = Range(requests) \cup {AskId(u) : u \in users}
  BY <1>1, LookUpEffect
<1>3. \A u : AskId(u) # GetChats /\ AskId(u) # LoginUser
  BY DEF AskId, GetChats, LoginUser
<1> DEFINE asked == {u \in us \cap User : AsksForUser(resolver, u)}
<1>4. PICK order \in SetToSeqs(asked) :
        requests' = requests \o [i \in DOMAIN order |-> AskId(order[i])]
  BY DEF LookUp
<1> DEFINE asks == [i \in DOMAIN order |-> AskId(order[i])]
<1>5. asked \in SUBSET User
  OBVIOUS
<1> HIDE DEF asked
<1>6. asks \in Seq(Requests) /\ Range(asks) = {AskId(u) : u \in asked}
  BY <1>5, AsksForAll
<1> HIDE DEF asks
<1>7. requests' = requests \o asks
  BY <1>4 DEF asks
<1>8. ASSUME LoginsAhead(requests) PROVE LoginsAhead(requests')
  <2> PICK s, t, n, m : s = requests /\ t = requests \o asks /\ n = Len(requests) /\ m = Len(asks)
    OBVIOUS
  <2>1. /\ n \in Nat /\ m \in Nat /\ Len(s) = n /\ Len(t) = n + m
        /\ \A i \in 1..n : t[i] = s[i]
        /\ \A i \in 1..n + m : i > n => t[i] = asks[i - n]
    BY <1>1, <1>6, ConcatProperties, LenProperties
  <2>2. \A i \in 1..m : asks[i] # LoginUser
    <3>1. Range(asks) = {asks[i] : i \in 1..m}
      BY <1>6, RangeEquality
    <3> QED BY <1>3, <1>6, <3>1
  <2>3. \A i \in 1..n + m : i \in 1..n \/ (i > n /\ i - n \in 1..m)
    BY <2>1
  <2>4. \A i \in 1..n : i \in 1..n + m
    BY <2>1
  <2>5. ASSUME NEW i \in 1..n + m, t[i] = LoginUser
        PROVE  \E j \in 1..n + m : i < j /\ t[j] = GetChats
    <3>1. i \in 1..n /\ s[i] = LoginUser
      BY <2>1, <2>2, <2>3, <2>5
    <3>2. PICK j \in 1..n : i < j /\ s[j] = GetChats
      BY <1>8, <2>1, <3>1 DEF LoginsAhead
    <3> QED BY <2>1, <2>4, <3>2
  <2> QED BY <1>7, <2>1, <2>5 DEF LoginsAhead
<1> QED BY <1>2, <1>3, <1>8

\* A step that leaves the list, the server's chats and their packets alone.
LEMMA ListSame ==
    ASSUME ListInv, UNCHANGED <<loggedIn, chatStorage, serverChats, replies>>,
           authorized' => authorized,
           GetChats \in Range(requests) => GetChats \in Range(requests'),
           loggedIn /\ LoginsAhead(requests) => LoginsAhead(requests')
    PROVE  Lists'
  BY DEF ListInv, Lists

\* One more packet of the server that is no list and no new chat.  Only a login
\* authorizes, and finds the list asked for.
LEMMA ReplySent ==
    ASSUME ListInv, NEW p \in Replies, ~IsInfo(p), ~IsList(p),
           \A c \in Chat : Mentions(p, c) => serverChats[c] # {},
           replies' = Append(replies, p), UNCHANGED <<loggedIn, chatStorage, serverChats>>,
           loggedIn /\ authorized' => authorized \/ GetChats \in Range(requests'),
           authorized' /\ GetChats \in Range(requests) => GetChats \in Range(requests'),
           loggedIn /\ LoginsAhead(requests) => LoginsAhead(requests')
    PROVE  Lists'
<1>1. replies \in Seq(Replies) /\ WireOrder(replies, chatStorage, serverChats)
  BY DEF ListInv, ChatTypeOK, Lists
<1>2. WireOrder(Append(replies, p), chatStorage, serverChats)
  BY <1>1, OrderAppended
<1>3. /\ Brings(replies, serverChats) => Brings(Append(replies, p), serverChats)
      /\ Still(replies) => Still(Append(replies, p))
  BY <1>1, BringsAppended
<1>4. /\ loggedIn => LoginsAhead(requests)
      /\ loggedIn /\ authorized =>
           \/ GetChats \in Range(requests)
           \/ Brings(replies, serverChats)
           \/ Still(replies) /\ chatStorage = serverChats
  BY DEF ListInv, Lists
<1>5. loggedIn /\ authorized' =>
        \/ GetChats \in Range(requests')
        \/ Brings(Append(replies, p), serverChats)
        \/ Still(Append(replies, p)) /\ chatStorage = serverChats
  BY <1>3, <1>4
<1> QED BY <1>2, <1>4, <1>5 DEF Lists

\* The server's current list is sent.
LEMMA ListSent ==
    ASSUME ListInv, NEW s \in Seq(Replies), NEW now \in [Chat -> SUBSET User],
           WireOrder(s, chatStorage, now),
           replies' = Append(s, ChatList(now)), serverChats' = now,
           UNCHANGED <<loggedIn, chatStorage>>,
           loggedIn /\ LoginsAhead(requests) => LoginsAhead(requests')
    PROVE  Lists'
<1> PICK p : p = ChatList(now)
  OBVIOUS
<1>1. /\ p \in Replies /\ IsList(p) /\ ~IsInfo(p) /\ p.chats = now
      /\ \A c \in Chat : Mentions(p, c) => now[c] # {}
  BY WireTypes DEF IsList, IsInfo, ChatList, Mentions, Adds
<1>2. WireOrder(Append(s, p), chatStorage, now)
  BY <1>1, OrderAppended
<1>3. Brings(Append(s, p), now)
  BY <1>1, BringsAppended
<1>4. loggedIn => LoginsAhead(requests)
  BY DEF ListInv, Lists
<1> QED BY <1>2, <1>3, <1>4 DEF Lists

\* One more request of the client, no login of a client that is logged in.
LEMMA RequestSent ==
    ASSUME ListInv, NEW r \in Requests, r # LoginUser \/ ~loggedIn,
           requests' = Append(requests, r)
    PROVE  /\ GetChats \in Range(requests) => GetChats \in Range(requests')
           /\ loggedIn /\ LoginsAhead(requests) => LoginsAhead(requests')
<1>1. requests \in Seq(Requests)
  BY DEF ListInv, ChatTypeOK
<1>2. Range(requests') = Range(requests) \cup {r}
  BY <1>1, RangeAppend
<1>3. r # LoginUser /\ LoginsAhead(requests) => LoginsAhead(Append(requests, r))
  BY <1>1, AheadAppended
<1> QED BY <1>2, <1>3

\* The window asks for no list.
LEMMA WindowList == ASSUME ListInv, Window PROVE Lists'
<1> USE DEF manager, gui, server, resolverVars
<1>1. CASE openWindow \/ closeWindow
  BY <1>1, ListSame DEF openWindow, closeWindow
<1>2. CASE createChat
  <2> PICK r : r = CreateChat(memberIds(creator))
    OBVIOUS
  <2>1. r \in Requests /\ r # LoginUser
    BY <1>2, WireTypes DEF createChat, canCreateChat, memberIds, Few, CreateChat, LoginUser
  <2>2. requests' = requests \/ requests' = Append(requests, r)
    BY <1>2 DEF createChat
  <2>3. /\ GetChats \in Range(requests) => GetChats \in Range(requests')
        /\ loggedIn /\ LoginsAhead(requests) => LoginsAhead(requests')
    BY <2>1, <2>2, RequestSent
  <2>4. UNCHANGED <<loggedIn, chatStorage, serverChats, replies, authorized>>
    BY <1>2 DEF createChat
  <2> QED BY <2>3, <2>4, ListSame
<1>3. ASSUME NEW n \in Name, addUser(n) PROVE Lists'
  <2>1. AskName(n) \in Requests /\ AskName(n) # LoginUser
    BY WireTypes DEF AskName, LoginUser
  <2>2. /\ requests' = requests \/ requests' = Append(requests, AskName(n))
        /\ replies' = replies
    BY <1>3 DEF addUser, resolveUsername
  <2>3. /\ GetChats \in Range(requests) => GetChats \in Range(requests')
        /\ loggedIn /\ LoginsAhead(requests) => LoginsAhead(requests')
    BY <2>1, <2>2, RequestSent
  <2>4. UNCHANGED <<loggedIn, chatStorage, authorized, serverChats>>
    BY <1>3 DEF addUser
  <2> QED BY <2>2, <2>3, <2>4, ListSame
<1>4. ASSUME NEW action, NEW request \in {LoginUser, LogoutUser}, starts(action, request),
             request # LoginUser \/ ~loggedIn
      PROVE  Lists'
  <2>1. /\ request \in Requests /\ requests' = Append(requests, request)
        /\ UNCHANGED <<loggedIn, chatStorage, serverChats, replies, authorized>>
    BY <1>4, WireTypes DEF starts
  <2>2. /\ GetChats \in Range(requests) => GetChats \in Range(requests')
        /\ loggedIn /\ LoginsAhead(requests) => LoginsAhead(requests')
    BY <1>4, <2>1, RequestSent
  <2> QED BY <2>1, <2>2, ListSame
<1>5. LogoutUser # LoginUser
  BY DEF LogoutUser, LoginUser
<1> QED BY <1>1, <1>2, <1>3, <1>4, <1>5 DEF Window, login, logout

\* Another connection starts logged out, with nothing under way.
LEMMA ListEventList == ASSUME ListInv, ChatListEvent PROVE Lists'
<1> USE DEF manager, gui, server, resolverVars
<1>1. ASSUME UNCHANGED <<loggedIn, chatStorage, serverChats, replies, requests, authorized>>
      PROVE  Lists'
  BY <1>1, ListSame
<1>2. CASE connectionChanges
  <2>1. /\ ~authorized' /\ ~loggedIn' /\ replies' = <<>> /\ serverChats' = serverChats
        /\ chatStorage' = NoChats \/ chatStorage' = chatStorage
    BY <1>2 DEF connectionChanges, onConnectionStatusChanged, logsOut, ListInv, ChatTypeOK
  <2>2. \A c \in Chat : chatStorage'[c] # {} => serverChats'[c] # {}
    BY <2>1 DEF ListInv, Lists, WireOrder, NoChats
  <2>3. WireOrder(<<>>, chatStorage', serverChats')
    BY <2>2, OrderEmpty
  <2> QED BY <2>1, <2>3 DEF Lists
<1> QED BY <1>1, <1>2 DEF ChatListEvent, selectChat, unselectChat

\* What the client takes from the queue is the list, comes before it or brings none.
LEMMA PacketList == ASSUME ListInv, onPacket PROVE Lists'
<1> USE DEF manager, gui, server
<1> PICK p : p = Head(replies)
  OBVIOUS
<1>0. ChatTypeOK
  BY DEF ListInv
<1>1. /\ replies # <<>> /\ replies' = Tail(replies) /\ authorized' = authorized
      /\ serverChats' = serverChats
  BY DEF onPacket
<1>2. /\ p \in Replies /\ replies \in Seq(Replies)
      /\ Range(replies) = {p} \cup Range(replies')
  BY <1>0, <1>1, HeadReply DEF ChatTypeOK
<1>3. \/ onSuccess(p) \/ onError(p) \/ onUserInfo(p)
      \/ onProfile(p) \/ onChatInfo(p) \/ onChatListReceived(p) \/ onNewMessage(p)
  BY DEF onPacket
<1>4. WireOrder(replies, chatStorage, serverChats)
  BY DEF ListInv, Lists
<1>5. /\ GetChats \in Range(requests) => GetChats \in Range(requests')
      /\ loggedIn /\ LoginsAhead(requests) => LoginsAhead(requests')
  <2>1. CASE onProfile(p) \/ onSuccess(p)
    <3>1. \E r \in {GetChats, GetUserProfile} : requests' \in {requests, Append(requests, r)}
      BY <2>1 DEF onProfile, onSuccess
    <3>2. PICK r \in {GetChats, GetUserProfile} : requests' \in {requests, Append(requests, r)}
      BY <3>1
    <3>3. r \in Requests /\ r # LoginUser
      BY WireTypes DEF GetChats, GetUserProfile, LoginUser
    <3> QED BY <3>2, <3>3, RequestSent
  <2>2. CASE ~onProfile(p) /\ ~onSuccess(p)
    <3>1. requests' = requests \/ \E us : LookUp(us)
      BY <1>3, <2>2 DEF onError, onUserInfo, onChatInfo, onChatListReceived, onNewMessage
    <3> QED BY <1>0, <3>1, LookUpAhead
  <2> QED BY <2>1, <2>2
<1>6. CASE loggedIn' /\ ~loggedIn
  <2>1. onProfile(p) /\ requests' = Append(requests, GetChats) /\ chatStorage' = chatStorage
    BY <1>3, <1>6 DEF onSuccess, onError, onUserInfo, onProfile, onChatInfo, onChatListReceived,
                      onNewMessage, logsOut
  <2>2. GetChats \in Range(requests')
    BY <1>0, <2>1, WireTypes, QueuesGrow
  <2>3. LoginsAhead(requests')
    <3>1. requests \in Seq(Requests) /\ GetChats \in Requests
      BY <1>0, WireTypes DEF ChatTypeOK
    <3> QED BY <2>1, <3>1, AheadAppended
  <2>4. WireOrder(Tail(replies), chatStorage, serverChats)
    BY <1>1, <1>2, <1>4, OrderTaken
  <2> QED BY <1>1, <2>1, <2>2, <2>3, <2>4 DEF Lists
<1>7. \A c \in Chat : chatStorage'[c] # {} => chatStorage[c] # {} \/ Adds(p, c)
  <2>1. CASE onChatListReceived(p)
    <3>1. \A c \in Chat : chatStorage'[c] # {} => p.chats[c] # {}
      BY <2>1, OthersShown DEF onChatListReceived
    <3> QED BY <2>1, <3>1 DEF Adds, IsList, onChatListReceived
  <2>2. CASE onChatInfo(p)
    <3>1. \A c \in Chat : chatStorage'[c] # chatStorage[c] => c = p.chat
      BY <1>0, <2>2 DEF onChatInfo, ChatTypeOK, Members
    <3> QED BY <2>2, <3>1 DEF Adds, IsInfo, onChatInfo
  <2>3. CASE chatStorage' = chatStorage \/ chatStorage' = NoChats
    BY <2>3 DEF NoChats
  <2> QED BY <1>3, <2>1, <2>2, <2>3
          DEF onSuccess, onError, onProfile, onUserInfo, onNewMessage, logsOut
<1>8. WireOrder(Tail(replies), chatStorage', serverChats)
  BY <1>1, <1>2, <1>4, <1>7, OrderTaken
<1>9. CASE ~loggedIn'
  BY <1>1, <1>8, <1>9 DEF Lists
<1>10. CASE loggedIn' /\ loggedIn
  <2>1. LoginsAhead(requests')
    BY <1>5, <1>10 DEF ListInv, Lists
  <2>2. CASE ~authorized
    BY <1>1, <1>8, <2>1, <2>2 DEF Lists
  <2>3. CASE authorized /\ GetChats \in Range(requests)
    BY <1>1, <1>5, <1>8, <2>1, <2>3 DEF Lists
  <2>4. CASE Brings(replies, serverChats)
    <3>1. \/ Brings(Tail(replies), serverChats)
          \/ IsList(p) /\ p.chats = serverChats /\ Still(Tail(replies))
      BY <1>1, <1>2, <2>4, BringsTaken
    <3>2. CASE Brings(Tail(replies), serverChats)
      BY <1>1, <1>8, <2>1, <3>2 DEF Lists
    <3>3. CASE IsList(p) /\ p.chats = serverChats /\ Still(Tail(replies))
      <4>1. onChatListReceived(p)
        BY <1>3, <3>3 DEF IsList, onSuccess, onError, onUserInfo, onProfile, onChatInfo, onNewMessage,
                          Accepted, Refused, Profile
      <4>2. chatStorage' = [c \in Chat |-> p.chats[c]]
        BY <1>10, <4>1 DEF onChatListReceived, OtherMembers
      <4>3. chatStorage' = serverChats
        BY <1>0, <3>3, <4>2 DEF ChatTypeOK
      <4> QED BY <1>1, <1>8, <2>1, <3>3, <4>3 DEF Lists
    <3> QED BY <3>1, <3>2, <3>3
  <2>5. CASE Still(replies) /\ chatStorage = serverChats
    <3>1. ~IsList(p) /\ ~IsInfo(p) /\ Still(Tail(replies))
      BY <1>1, <1>2, <2>5, BringsTaken
    <3>2. chatStorage' = chatStorage
      BY <1>3, <1>10, <3>1 DEF IsList, IsInfo, onSuccess, onError, onUserInfo, onProfile, onChatInfo,
                               onChatListReceived, onNewMessage, logsOut
    <3> QED BY <1>1, <1>8, <2>1, <2>5, <3>1, <3>2 DEF Lists
  <2> QED BY <1>10, <2>2, <2>3, <2>4, <2>5 DEF ListInv, Lists
<1> QED BY <1>6, <1>9, <1>10, <1>0 DEF ChatTypeOK

\* Packets that are no list and about no chat.
LEMMA PlainPackets ==
    ASSUME NEW p \in {Accepted, Refused, Profile} \cup {UserInfo(u, n) : u \in User, n \in Name}
    PROVE  p \in Replies /\ ~IsInfo(p) /\ ~IsList(p) /\ \A c : ~Mentions(p, c)
<1>1. p \in Replies
  BY WireTypes
<1>2. p.type \in {"OPERATION_RESULT", "USER_PROFILE_DATA", "PUBLIC_USER_INFO_DATA"}
  BY DEF Accepted, Refused, Profile, UserInfo
<1> QED BY <1>1, <1>2 DEF IsInfo, IsList, Mentions, Adds

\* What happens elsewhere sends the list only with what the server then has.
LEMMA ElsewhereList == ASSUME ListInv, Elsewhere PROVE Lists'
<1> USE DEF manager, gui, server, resolverVars, wire
<1>0. ChatTypeOK
  BY DEF ListInv
<1>1. ASSUME NEW c \in Chat, label(c), UNCHANGED <<manager, gui, server>> PROVE Lists'
  <2>1. PICK u \in User : requests' = Append(requests, AskId(u)) /\ replies' = replies
    BY <1>1 DEF label, resolveUserId
  <2>2. AskId(u) \in Requests /\ AskId(u) # LoginUser
    BY WireTypes DEF AskId, LoginUser
  <2>3. /\ GetChats \in Range(requests) => GetChats \in Range(requests')
        /\ loggedIn /\ LoginsAhead(requests) => LoginsAhead(requests')
    BY <2>1, <2>2, RequestSent
  <2> QED BY <1>1, <2>1, <2>3, ListSame
<1>2. CASE otherRequestEnds /\ UNCHANGED <<manager, gui, server>>
  <2>1. PICK p \in {Accepted, Refused} : replies' = Append(replies, p)
    BY <1>2 DEF otherRequestEnds
  <2>2. requests' = requests
    BY <1>2 DEF otherRequestEnds
  <2>3. p \in Replies /\ ~IsInfo(p) /\ ~IsList(p) /\ \A c : ~Mentions(p, c)
    BY PlainPackets
  <2> QED BY <1>2, <2>1, <2>2, <2>3, ReplySent
<1>3. ASSUME NEW u \in User, NEW n \in Name, rename(u, n), UNCHANGED <<manager, gui, server>>
      PROVE  Lists'
  BY <1>3, ListSame DEF rename
<1>4. ASSUME NEW c \in Chat, NEW us \in SUBSET User, otherCreatesChat(c, us) PROVE Lists'
  <2>1. /\ serverChats' \in [Chat -> SUBSET User]
        /\ \A d \in Chat : serverChats[d] # {} => serverChats'[d] # {}
        /\ UNCHANGED <<loggedIn, chatStorage, authorized, requests>>
    BY <1>0, <1>4 DEF otherCreatesChat, ChatTypeOK
  <2>2. WireOrder(replies, chatStorage, serverChats')
    BY <2>1 DEF ListInv, Lists, WireOrder
  <2>3. CASE authorized
    <3>1. replies' = Append(replies, ChatList(serverChats')) /\ replies \in Seq(Replies)
      BY <1>0, <1>4, <2>3 DEF otherCreatesChat, ChatTypeOK
    <3>2. PICK now : now = serverChats'
      OBVIOUS
    <3> QED BY <2>1, <2>2, <3>1, <3>2, ListSent
  <2>4. CASE ~authorized
    <3>1. replies' = replies
      BY <1>4, <2>4 DEF otherCreatesChat
    <3> QED BY <2>1, <2>2, <2>4, <3>1 DEF ListInv, Lists
  <2> QED BY <2>3, <2>4
<1>5. ASSUME NEW c \in Chat, NEW u \in User, otherSendsMessage(c, u) PROVE Lists'
  <2>1. PICK p : p = ChatMessage(c, u)
    OBVIOUS
  <2>2. /\ p \in Replies /\ ~IsInfo(p) /\ ~IsList(p)
        /\ \A d \in Chat : Mentions(p, d) => d = c
    BY <2>1, WireTypes DEF ChatMessage, IsInfo, IsList, Mentions, Adds
  <2>3. /\ replies' = Append(replies, p) /\ serverChats[c] # {}
        /\ UNCHANGED <<loggedIn, chatStorage, authorized, serverChats, requests>>
    BY <1>5, <2>1 DEF otherSendsMessage
  <2> QED BY <2>2, <2>3, ReplySent
<1> QED BY <1>1, <1>2, <1>3, <1>4, <1>5 DEF Elsewhere

\* The server answers with its list, and a new chat with the chat before the list.
LEMMA ServerList == ASSUME ListInv, ServerReads PROVE Lists'
<1> USE DEF manager, gui, server
<1> PICK r : r = Head(requests)
  OBVIOUS
<1>0. ChatTypeOK
  BY DEF ListInv
<1>1. /\ r \in Requests /\ Range(requests) = {r} \cup Range(requests')
      /\ requests # <<>> /\ requests' = Tail(requests)
      /\ UNCHANGED <<loggedIn, chatStorage>>
  BY <1>0, HeadRequest, ServerKeepsClient
<1>2. /\ LoginsAhead(requests) => LoginsAhead(requests')
      /\ LoginsAhead(requests) /\ r = LoginUser => GetChats \in Range(requests')
  <2>1. requests \in Seq(Requests)
    BY <1>0 DEF ChatTypeOK
  <2> QED BY <1>1, <2>1, AheadTaken
<1>3. ASSUME NEW p \in {Accepted, Refused, Profile} \cup {UserInfo(u, n) : u \in User, n \in Name},
             replies' = Append(replies, p), UNCHANGED serverChats, authorized' => authorized,
             r # GetChats \/ ~authorized
      PROVE  Lists'
  <2>1. p \in Replies /\ ~IsInfo(p) /\ ~IsList(p) /\ \A c : ~Mentions(p, c)
    BY PlainPackets
  <2>2. authorized' /\ GetChats \in Range(requests) => GetChats \in Range(requests')
    BY <1>1, <1>3
  <2> QED BY <1>1, <1>2, <1>3, <2>1, <2>2, ReplySent
<1>4. CASE handleGetUserInfo /\ UNCHANGED <<manager, gui, server>>
  <2>1. PICK p \in {Answer(r), Refused} : replies' = Append(replies, p)
    BY <1>4 DEF handleGetUserInfo
  <2>2. r.type = "GET_USER_INFO"
    BY <1>4 DEF handleGetUserInfo
  <2>3. p \in {Accepted, Refused, Profile} \cup {UserInfo(u, n) : u \in User, n \in Name}
    <3>1. (\E u \in User : r = AskId(u)) \/ (\E n \in Name : r = AskName(n))
      BY <1>1, <2>2, RequestShape
    <3>2. Answer(r) = Refused \/ \E u \in User, n \in Name : Answer(r) = UserInfo(u, n)
      BY <1>0, <3>1, AnswerShape
    <3> QED BY <2>1, <3>2
  <2>4. r # GetChats
    BY <2>2 DEF GetChats
  <2> QED BY <1>3, <1>4, <2>1, <2>3, <2>4
<1>5. CASE handleLoginUser
  <2>1. r.type = "LOGIN_USER" /\ serverChats' = serverChats
    BY <1>5 DEF handleLoginUser, handles
  <2>2. r # GetChats
    BY <2>1 DEF GetChats
  <2>3. CASE answers(Refused) /\ UNCHANGED authorized
    BY <1>3, <2>1, <2>2, <2>3 DEF answers
  <2>4. CASE answers(Accepted) /\ authorized' = TRUE
    <3>1. r = LoginUser
      BY <1>1, <2>1 DEF Requests, AskId, AskName, LogoutUser, GetUserProfile, GetChats, CreateChat
    <3>2. loggedIn => GetChats \in Range(requests')
      BY <1>2, <3>1 DEF ListInv, Lists
    <3>3. GetChats \in Range(requests) => GetChats \in Range(requests')
      BY <1>1, <2>2
    <3>4. /\ Accepted \in Replies /\ ~IsInfo(Accepted) /\ ~IsList(Accepted)
          /\ \A c : ~Mentions(Accepted, c)
      BY PlainPackets
    <3>5. replies' = Append(replies, Accepted)
      BY <2>4 DEF answers
    <3> QED BY <1>1, <1>2, <2>1, <3>2, <3>3, <3>4, <3>5, ReplySent
  <2> QED BY <1>5, <2>3, <2>4 DEF handleLoginUser
<1>6. CASE handleLogoutUser
  <2>1. r # GetChats /\ serverChats' = serverChats /\ ~authorized'
    BY <1>6 DEF handleLogoutUser, handles, GetChats
  <2>2. \E p \in {Accepted, Refused} : replies' = Append(replies, p)
    BY <1>6 DEF handleLogoutUser, answers
  <2> QED BY <1>3, <2>1, <2>2
<1>7. CASE handleGetUserProfile
  <2>1. r # GetChats /\ serverChats' = serverChats /\ authorized' = authorized
    BY <1>7 DEF handleGetUserProfile, handles, GetChats
  <2>2. \E p \in {Profile, Refused} : replies' = Append(replies, p)
    BY <1>7 DEF handleGetUserProfile, answers
  <2> QED BY <1>3, <2>1, <2>2
<1>8. CASE handleGetChats
  <2>1. serverChats' = serverChats /\ authorized' = authorized
    BY <1>8 DEF handleGetChats
  <2>2. CASE authorized
    <3>1. replies' = Append(replies, ChatList(serverChats))
      BY <1>8, <2>2 DEF handleGetChats, answers
    <3>2. serverChats \in [Chat -> SUBSET User] /\ replies \in Seq(Replies)
      BY <1>0 DEF ChatTypeOK
    <3>3. WireOrder(replies, chatStorage, serverChats)
      BY DEF ListInv, Lists
    <3> QED BY <1>1, <1>2, <2>1, <3>1, <3>2, <3>3, ListSent
  <2>3. CASE ~authorized
    <3>1. replies' = Append(replies, Refused)
      BY <1>8, <2>3 DEF handleGetChats, answers
    <3> QED BY <1>3, <2>1, <2>3, <3>1
  <2> QED BY <2>2, <2>3
<1>9. CASE handleCreateChat
  <2>1. r.type = "CREATE_CHAT" /\ r # GetChats /\ UNCHANGED authorized
    BY <1>9 DEF handleCreateChat, handles, GetChats
  <2>2. CASE answers(Refused) /\ UNCHANGED serverChats
    BY <1>3, <2>1, <2>2 DEF answers
  <2>3. ASSUME NEW c \in Chat, serverChats[c] = {},
               serverChats' = [serverChats EXCEPT ![c] = r.members],
               replies' = Append(replies, Accepted) \o Created(c, r.members, serverChats')
        PROVE  Lists'
    <3>1. r.members \in Few
      BY <1>1, <2>1, RequestShape
    <3>2. PICK now, p, s, t : /\ now = serverChats' /\ p = ChatInfo(c, r.members)
                              /\ s = Append(replies, Accepted) /\ t = Append(s, p)
      OBVIOUS
    <3>3. /\ now \in [Chat -> SUBSET User] /\ now[c] # {}
          /\ \A d \in Chat : serverChats[d] # {} => now[d] # {}
      BY <1>0, <2>3, <3>1, <3>2 DEF ChatTypeOK, Few
    <3>4. /\ replies \in Seq(Replies) /\ Accepted \in Replies /\ p \in Replies
          /\ ChatList(now) \in Replies
      BY <1>0, <3>1, <3>2, <3>3, WireTypes DEF ChatTypeOK
    <3>5. s \in Seq(Replies) /\ t \in Seq(Replies)
      BY <3>2, <3>4, RangeAppend
    <3>6. replies' = Append(t, ChatList(now))
      <4>1. replies' = s \o <<p, ChatList(now)>>
        BY <2>3, <3>2 DEF Created
      <4> QED BY <3>2, <3>4, <3>5, <4>1
    <3>7. WireOrder(s, chatStorage, serverChats)
      <4>1. WireOrder(replies, chatStorage, serverChats)
        BY DEF ListInv, Lists
      <4>2. ~IsInfo(Accepted) /\ \A d : ~Mentions(Accepted, d)
        BY PlainPackets
      <4> QED BY <3>2, <3>4, <4>1, <4>2, OrderAppended
    <3>8. WireOrder(t, chatStorage, now)
      <4>1. p.chat = c /\ IsInfo(p) /\ \A d \in Chat : Mentions(p, d) => d = c
        BY <3>2 DEF ChatInfo, IsInfo, Mentions, Adds, IsList
      <4> QED BY <2>3, <3>2, <3>3, <3>4, <3>5, <3>7, <4>1, OrderAppended
    <3> QED BY <1>1, <1>2, <3>2, <3>3, <3>5, <3>6, <3>8, ListSent
  <2> QED BY <1>9, <2>2, <2>3 DEF handleCreateChat
<1> QED BY <1>4, <1>5, <1>6, <1>7, <1>8, <1>9 DEF ServerReads

\* The order of packets and requests holds along every behaviour.
LEMMA ListsAgree == ChatSpec => []ListInv
<1>1. ChatInit => ListInv
  <2>1. ASSUME ChatInit PROVE ListInv
    <3>1. /\ replies = <<>> /\ ~loggedIn
          /\ chatStorage = NoChats /\ serverChats = NoChats
      BY <2>1 DEF ChatInit, ResolverInit
    <3>2. WireOrder(replies, chatStorage, serverChats)
      BY <3>1, OrderEmpty
    <3> QED BY <2>1, <3>1, <3>2, ChatInitTyped DEF ListInv, Lists
  <2> QED BY <2>1
<1>2. ListInv /\ [ChatNext]_chatVars => ListInv'
  <2>1. ASSUME ListInv, [ChatNext]_chatVars PROVE ListInv'
    <3>1. ChatTypeOK'
      BY <2>1, ChatTypeStep DEF ListInv
    <3>2. CASE UNCHANGED chatVars
      BY <2>1, <3>1, <3>2, ListSame DEF ListInv, chatVars, resolverVars, manager, server
    <3> QED BY <2>1, <3>1, <3>2, WindowList, ListEventList, PacketList, ElsewhereList,
               ServerList DEF ListInv, ChatNext
  <2> QED BY <2>1
<1> QED BY <1>1, <1>2, PTL DEF ChatSpec

\* Whenever nothing is under way, a client that is logged in, here and at the
\* server, shows exactly the server's chats, whichever results ended its logins
\* and logouts and whatever was still on its way when they did.
THEOREM ListStaysCurrent == ChatSpec => []ListIsCurrent
<1>1. ASSUME ListInv PROVE ListIsCurrent
  <2>1. ASSUME loggedIn, authorized, InFlight = 0 PROVE chatStorage = serverChats
    <3>1. replies \in Seq(Replies) /\ requests \in Seq(Requests)
      BY <1>1 DEF ListInv, ChatTypeOK
    <3>2. Len(replies) = 0 /\ Len(requests) = 0
      <4>1. Len(replies) \in Nat /\ Len(requests) \in Nat /\ Len(requests) + Len(replies) = 0
        BY <2>1, <3>1, LenProperties DEF InFlight
      <4> QED BY <4>1
    <3>3. GetChats \notin Range(requests)
      BY <3>1, <3>2, EmptySeq DEF Range
    <3>4. ~Brings(replies, serverChats)
      BY <3>2 DEF Brings
    <3> QED BY <1>1, <2>1, <3>3, <3>4 DEF ListInv, Lists
  <2> QED BY <2>1 DEF ListIsCurrent
<1> QED BY <1>1, ListsAgree, PTL

\* A chat that was just created is never in the list it is added to.
THEOREM CreatedNotDropped == ChatSpec => []NoChatDropped
<1>1. ASSUME ListInv PROVE NoChatDropped
  <2>1. ASSUME replies # <<>>, Head(replies).type = "CHAT_INFO_DATA"
        PROVE  chatStorage[Head(replies).chat] = {}
    <3>1. Head(replies) = replies[1] /\ 1 \in 1..Len(replies)
      <4>1. replies \in Seq(Replies)
        BY <1>1 DEF ListInv, ChatTypeOK
      <4>2. Len(replies) \in Nat \ {0} /\ Head(replies) = replies[1]
        BY <2>1, <4>1, HeadTailProperties, EmptySeq, LenProperties
      <4> QED BY <4>2
    <3> QED BY <1>1, <2>1, <3>1 DEF ListInv, Lists, WireOrder, IsInfo
  <2> QED BY <2>1 DEF NoChatDropped, Listed
<1> QED BY <1>1, ListsAgree, PTL

\* A message for a chat that is not shown has the list with the chat on its way.
THEOREM MessagesFindChats == ChatSpec => []MessageFindsChat
<1>1. ASSUME ListInv PROVE MessageFindsChat
  <2>1. ASSUME NEW c \in Chat, NEW u \in User, loggedIn, authorized, replies # <<>>,
               Head(replies) = ChatMessage(c, u), c \notin Listed
        PROVE  \/ GetChats \in Range(requests)
               \/ \E p \in Range(replies) : p.type = "CHAT_LIST_DATA" /\ p.chats[c] # {}
    <3>1. replies \in Seq(Replies) /\ chatStorage[c] = {}
      BY <1>1, <2>1 DEF ListInv, ChatTypeOK, Listed
    <3>2. /\ Len(replies) \in Nat \ {0} /\ Head(replies) = replies[1]
          /\ Range(replies) = {replies[i] : i \in 1..Len(replies)}
      BY <2>1, <3>1, HeadTailProperties, EmptySeq, LenProperties, RangeEquality
    <3>3. serverChats[c] # {}
      <4>1. Mentions(replies[1], c)
        BY <2>1, <3>2 DEF Mentions, ChatMessage
      <4> QED BY <1>1, <3>2, <4>1 DEF ListInv, Lists, WireOrder
    <3>4. GetChats \in Range(requests) \/ Brings(replies, serverChats)
      BY <1>1, <2>1, <3>1, <3>3 DEF ListInv, Lists
    <3>5. Brings(replies, serverChats) =>
            \E i \in 1..Len(replies) : IsList(replies[i]) /\ replies[i].chats = serverChats
      BY DEF Brings
    <3> QED BY <3>2, <3>3, <3>4, <3>5 DEF IsList
  <2> QED BY <2>1 DEF MessageFindsChat
<1> QED BY <1>1, ListsAgree, PTL

=============================================================================
