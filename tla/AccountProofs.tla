--------------------------- MODULE AccountProofs ---------------------------
(***************************************************************************)
(* Proofs about AccountSession, for any number of clients, sockets and     *)
(* users: the server's promises hold under the requests real clients send, *)
(* and the fields of AccountManager agree whatever arrives when.           *)
(***************************************************************************)
EXTENDS AccountSession, ServerProofs

-----------------------------------------------------------------------------
(* The server in the composition. *)

\* The answer to a chat message changes nothing at the server, and is typed.
LEMMA AnswerMessage ==
    ASSUME TypeOK, NEW k \in Socket, NEW u \in User \cup {NoUser}, answerMessage(k, u)
    PROVE  TypeOK' /\ UNCHANGED <<server, database>>
<1>1. peer[k] \in Session
  BY DEF answerMessage, TypeOK
<1>2. "Not authorized" \in Text /\ "Invalid sender user id" \in Text
  BY DEF Text
<1> QED BY <1>1, <1>2, DropType, RefuseType DEF answerMessage, Drop, Refuse

\* A typed request of the right kind carries what its handler takes.
LEMMA RequestShape ==
    ASSUME NEW r \in RequestType
    PROVE  /\ r.type = "REGISTER_USER" => r.name \in Name
           /\ r.type \in {"LOGIN_USER", "GET_USER_INFO"} => r.user \in User
           /\ r.type = "CHAT_MESSAGE" => r.user \in User \cup {NoUser}
  BY DEF RequestType

\* What is on the way to the server is typed.
LEMMA HeadRequest ==
    ASSUME ATypeOK, NEW k \in Socket, up[k] # <<>>
    PROVE  Head(up[k]) \in RequestType /\ Tail(up[k]) \in Seq(RequestType)
  BY HeadTailProperties DEF ATypeOK

\* Every step of the composition is a step of Server, leaves Server alone or
\* answers a chat message.
LEMMA ServerSteps ==
    ASSUME TypeOK, ATypeOK, [ANext]_avars
    PROVE  \/ [Next]_vars
           \/ TypeOK' /\ UNCHANGED <<server, database>>
<1>1. ASSUME NEW s \in Session, ClientStep(s) PROVE [Next]_vars
  BY <1>1 DEF ClientStep, login, registerAccount, logout_, showLogin, showRegister,
     resolveUser, sendMessage, connectTo, onDisconnected, onReadyRead, Press, Next
<1>2. ASSUME NEW k \in Socket, serverReads(k)
      PROVE  [Next]_vars \/ (TypeOK' /\ UNCHANGED <<server, database>>)
  <2> PICK r : r = Head(up[k])
    OBVIOUS
  <2>1. r \in RequestType
    BY <1>2, HeadRequest DEF serverReads
  <2>2. \/ handleConnectClient(k)
        \/ r.type = "REGISTER_USER" /\ handleRegisterUser(k, r.name)
        \/ r.type = "LOGIN_USER" /\ handleLoginUser(k, r.user)
        \/ handleLogoutUser(k)
        \/ handleGetUserProfile(k)
        \/ r.type = "GET_USER_INFO" /\ handleGetUserInfo(k, r.user)
        \/ r.type = "CHAT_MESSAGE" /\ answerMessage(k, r.user)
    BY <1>2 DEF serverReads
  <2>3. CASE r.type = "CHAT_MESSAGE" /\ answerMessage(k, r.user)
    BY <2>1, <2>3, RequestShape, AnswerMessage
  <2>4. CASE ~(r.type = "CHAT_MESSAGE" /\ answerMessage(k, r.user))
    <3>1. onServerRead(k)
      BY <2>1, <2>2, <2>4, RequestShape DEF onServerRead
    <3> QED BY <3>1 DEF Next
  <2> QED BY <2>3, <2>4
<1>3. ASSUME NEW k \in Socket, serverDisconnects(k) PROVE [Next]_vars
  BY <1>3 DEF serverDisconnects, Next
<1>4. CASE serverCrashes \/ serverStarts
  BY <1>4 DEF serverCrashes, serverStarts, Next
<1>5. CASE UNCHANGED avars
  BY <1>5 DEF avars
<1> QED BY <1>1, <1>2, <1>3, <1>4, <1>5 DEF ANext, ServerStep

-----------------------------------------------------------------------------
(* Types. *)

\* What AccountManager sees of typed packets is typed.
LEMMA RepliesType ==
    ASSUME NEW packets \in Seq(Packet)
    PROVE  Replies(packets) \in Seq(ReplyTypes)
<1>1. \A p \in Packet : Seen(p) \in ReplyTypes
  BY NullAssumption DEF Packet, Seen, ReplyTypes
<1>2. Len(packets) \in Nat /\ DOMAIN packets = 1..Len(packets)
      /\ \A i \in 1..Len(packets) : packets[i] \in Packet
  BY LenProperties, ElementOfSeq
<1>3. Replies(packets) = [i \in 1..Len(packets) |-> Seen(packets[i])]
  BY <1>2 DEF Replies
<1> QED BY <1>1, <1>2, <1>3, IsASeq

\* What the server writes reaches the clients' queues well formed.
LEMMA DeliverType ==
    ASSUME ATypeOK, sent' \in [Session -> Seq(Packet)], Deliver
    PROVE  down' \in [Socket -> Seq(ReplyTypes)]
<1> SUFFICES ASSUME NEW k \in Socket PROVE down'[k] \in Seq(ReplyTypes)
  BY DEF Deliver
<1> DEFINE owners == {t \in Session : clients'[t].socket = k /\ conn[t] = k}
<1>1. down[k] \in Seq(ReplyTypes)
  BY DEF ATypeOK
<1>2. CASE owners = {}
  BY <1>1, <1>2 DEF Deliver
<1>3. CASE owners # {}
  <2> DEFINE t == CHOOSE t \in owners : TRUE
  <2>1. t \in Session
    BY <1>3
  <2> HIDE DEF t
  <2>2. Replies(sent'[t]) \in Seq(ReplyTypes)
    BY <2>1, RepliesType
  <2>3. down'[k] = down[k] \o Replies(sent'[t])
    BY <1>3 DEF Deliver, t
  <2> QED BY <1>1, <2>2, <2>3, ConcatProperties
<1> QED BY <1>2, <1>3

\* The requests of a client are requests, and join a queue of requests.
LEMMA SendType ==
    ASSUME ATypeOK, NEW s \in Session, conn[s] # NoSocket, NEW r \in RequestType, Send(s, r)
    PROVE  up' \in [Socket -> Seq(RequestType)]
<1>1. conn[s] \in Socket
  BY DEF ATypeOK
<1>2. Append(up[conn[s]], r) \in Seq(RequestType)
  BY <1>1, AppendProperties DEF ATypeOK
<1> QED BY <1>1, <1>2 DEF Send, ATypeOK

\* Every request that a client sends is one the server knows.
LEMMA RequestTypes ==
    /\ \A u \in User : LoginRequest(u) \in RequestType /\ LookupRequest(u) \in RequestType
    /\ \A u \in User \cup {NoUser} : MessageRequest(u) \in RequestType
    /\ \A n \in Name : RegisterRequest(n) \in RequestType
    /\ Request("LOGOUT_USER") \in RequestType
    /\ Request("CONNECT_CLIENT") \in RequestType
    /\ ProfileRequest \in RequestType
  BY DEF LoginRequest, LookupRequest, MessageRequest, RegisterRequest, ProfileRequest,
         Request, RequestType

-----------------------------------------------------------------------------
(* The slots of AccountManager, as functions of its state. *)

\* Busy with an action, logged in with a profile, on the page that goes with it.
Consistent(a) ==
    /\ a \in AccountUi
    /\ a.busy <=> a.pending # "None"
    /\ a.mode = "Account" <=> a.loggedIn \/ a.pending = "FetchProfile"
    /\ a.loggedIn => a.profile # NoUser /\ a.pending \in {"None", "Logout"}

SignedOff(a) == ~a.loggedIn /\ ~a.busy /\ a.profile = NoUser

\* An operation result leaves the fields consistent, whichever action it is
\* taken for.
LEMMA ResultConsistent ==
    ASSUME NEW a, Consistent(a), NEW ok \in BOOLEAN
    PROVE  Consistent(onOperationResultReceived(a, ok))
<1> USE DEF Consistent, AccountUi, onOperationResultReceived, Idle, LoginAccepted,
            LoginRefused, resetAuthorizationState
<1>1. CASE a.pending = "Register"
  BY <1>1
<1>2. CASE a.pending = "Login"
  BY <1>2
<1>3. CASE a.pending = "FetchProfile"
  BY <1>3
<1>4. CASE a.pending = "Logout"
  BY <1>4
<1>5. CASE a.pending = "None"
  BY <1>5
<1> QED BY <1>1, <1>2, <1>3, <1>4, <1>5

\* So does the profile of a user, asked for or not.
LEMMA ProfileConsistent ==
    ASSUME NEW a, Consistent(a), NEW u \in User
    PROVE  Consistent(onCurrentUserProfileReceived(a, u))
  BY NullAssumption DEF Consistent, AccountUi, onCurrentUserProfileReceived, Idle

\* A lost connection signs the user out and ends what was pending.
LEMMA LostConsistent ==
    ASSUME NEW a, Consistent(a)
    PROVE  Consistent(onConnectionLost(a)) /\ SignedOff(onConnectionLost(a))
  BY DEF Consistent, AccountUi, SignedOff, onConnectionLost, resetAuthorizationState, Idle

\* Any packet of the server leaves the fields consistent.
LEMMA PacketConsistent ==
    ASSUME NEW a, Consistent(a), NEW p \in ReplyTypes
    PROVE  Consistent(onPacketReceived(a, p))
<1>1. /\ p.type = "OPERATION_RESULT" => p.success \in BOOLEAN
      /\ p.type = "USER_PROFILE_DATA" => p.user \in User
  BY DEF ReplyTypes
<1> QED BY <1>1, ResultConsistent, ProfileConsistent DEF onPacketReceived

AccountInv ==
    /\ ATypeOK
    /\ \A s \in Session :
          Consistent(account_ui[s]) /\ (conn[s] = NoSocket => SignedOff(account_ui[s]))

\* What a step does to the client s: a consistent state, signed off without a
\* connection.
LEMMA ClientChanges ==
    ASSUME AccountInv, NEW s \in Session, NEW a, Consistent(a),
           NEW k \in Socket \cup {NoSocket}, k = NoSocket => SignedOff(a),
           conn' = [conn EXCEPT ![s] = k], account_ui' = [account_ui EXCEPT ![s] = a],
           up' \in [Socket -> Seq(RequestType)], down' \in [Socket -> Seq(ReplyTypes)]
    PROVE  AccountInv'
<1>1. \A t \in Session :
        /\ account_ui'[t] = IF t = s THEN a ELSE account_ui[t]
        /\ conn'[t] = IF t = s THEN k ELSE conn[t]
  BY DEF AccountInv, ATypeOK
<1>2. ATypeOK'
  BY DEF AccountInv, ATypeOK, Consistent
<1> QED BY <1>1, <1>2 DEF AccountInv

\* The steps of a client: the window's buttons, the handlers, the connection.
LEMMA ClientConsistent ==
    ASSUME AccountInv, NEW s \in Session, ClientStep(s)
    PROVE  AccountInv'
<1> DEFINE a == account_ui[s]
           k == conn[s]
<1>1. /\ ATypeOK /\ Consistent(a) /\ k \in Socket \cup {NoSocket}
      /\ k = NoSocket => SignedOff(a)
      /\ up \in [Socket -> Seq(RequestType)] /\ down \in [Socket -> Seq(ReplyTypes)]
      /\ conn = [conn EXCEPT ![s] = k] /\ account_ui = [account_ui EXCEPT ![s] = a]
  BY DEF AccountInv, ATypeOK
<1> HIDE DEF a, k
<1>2. ASSUME NEW b, Consistent(b), SignedOff(a) => SignedOff(b) \/ k # NoSocket,
             account_ui' = [account_ui EXCEPT ![s] = b], conn' = conn, down' = down,
             up' \in [Socket -> Seq(RequestType)]
      PROVE  AccountInv'
  BY <1>1, <1>2, ClientChanges
<1>3. ASSUME NEW u \in User, login(s, u) PROVE AccountInv'
  <2> DEFINE b == Pending([a EXCEPT !.profile = NoUser], "Login")
  <2>1. /\ k # NoSocket /\ ~a.busy /\ a.mode = "Login" /\ conn' = conn /\ down' = down
        /\ account_ui' = [account_ui EXCEPT ![s] = b]
        /\ Send(s, LoginRequest(u))
    BY <1>3 DEF login, Press, a, k
  <2>2. Consistent(b)
    BY <1>1, <2>1 DEF Consistent, AccountUi, Pending
  <2>3. up' \in [Socket -> Seq(RequestType)]
    BY <1>1, <2>1, SendType, RequestTypes DEF k
  <2> HIDE DEF b
  <2> QED BY <1>2, <2>1, <2>2, <2>3
<1>4. ASSUME NEW n \in Name, registerAccount(s, n) PROVE AccountInv'
  <2> DEFINE b == Pending([a EXCEPT !.profile = NoUser], "Register")
  <2>1. /\ k # NoSocket /\ ~a.busy /\ a.mode = "Register" /\ conn' = conn /\ down' = down
        /\ account_ui' = [account_ui EXCEPT ![s] = b]
        /\ Send(s, RegisterRequest(n))
    BY <1>4 DEF registerAccount, Press, a, k
  <2>2. Consistent(b)
    BY <1>1, <2>1 DEF Consistent, AccountUi, Pending
  <2>3. up' \in [Socket -> Seq(RequestType)]
    BY <1>1, <2>1, SendType, RequestTypes DEF k
  <2> HIDE DEF b
  <2> QED BY <1>2, <2>1, <2>2, <2>3
<1>5. CASE logout_(s)
  <2> DEFINE b == Pending(a, "Logout")
  <2>1. /\ k # NoSocket /\ ~a.busy /\ a.loggedIn /\ conn' = conn /\ down' = down
        /\ account_ui' = [account_ui EXCEPT ![s] = b]
        /\ Send(s, Request("LOGOUT_USER"))
    BY <1>5 DEF logout_, Press, a, k
  <2>2. Consistent(b)
    BY <1>1, <2>1 DEF Consistent, AccountUi, Pending
  <2>3. up' \in [Socket -> Seq(RequestType)]
    BY <1>1, <2>1, SendType, RequestTypes DEF k
  <2> HIDE DEF b
  <2> QED BY <1>2, <2>1, <2>2, <2>3
<1>6. CASE showLogin(s)
  <2> DEFINE b == [a EXCEPT !.mode = IF a.loggedIn THEN "Account" ELSE "Login"]
  <2>1. /\ ~a.busy /\ conn' = conn /\ down' = down /\ up' = up
        /\ account_ui' = [account_ui EXCEPT ![s] = b]
    BY <1>6 DEF showLogin, a
  <2>2. Consistent(b) /\ (SignedOff(a) => SignedOff(b))
    BY <1>1, <2>1 DEF Consistent, AccountUi, SignedOff
  <2> HIDE DEF b
  <2> QED BY <1>1, <1>2, <2>1, <2>2
<1>7. CASE showRegister(s)
  <2> DEFINE b == [a EXCEPT !.mode = "Register"]
  <2>1. /\ ~a.busy /\ ~a.loggedIn /\ conn' = conn /\ down' = down /\ up' = up
        /\ account_ui' = [account_ui EXCEPT ![s] = b]
    BY <1>7 DEF showRegister, a
  <2>2. Consistent(b) /\ (SignedOff(a) => SignedOff(b))
    BY <1>1, <2>1 DEF Consistent, AccountUi, SignedOff
  <2> HIDE DEF b
  <2> QED BY <1>1, <1>2, <2>1, <2>2
<1>8. ASSUME NEW u \in User, resolveUser(s, u) PROVE AccountInv'
  <2>1. /\ k # NoSocket /\ Send(s, LookupRequest(u))
        /\ UNCHANGED <<conn, down, account_ui>>
    BY <1>8 DEF resolveUser, canSendMessages, k
  <2>2. up' \in [Socket -> Seq(RequestType)]
    BY <1>1, <2>1, SendType, RequestTypes DEF k
  <2> QED BY <1>1, <1>2, <2>1, <2>2
<1>9. CASE sendMessage(s)
  <2>1. /\ k # NoSocket /\ Send(s, MessageRequest(a.profile))
        /\ UNCHANGED <<conn, down, account_ui>>
    BY <1>9 DEF sendMessage, canSendMessages, k, a
  <2>2. a.profile \in User \cup {NoUser}
    BY <1>1 DEF Consistent, AccountUi
  <2>3. up' \in [Socket -> Seq(RequestType)]
    BY <1>1, <2>1, <2>2, SendType, RequestTypes DEF k
  <2> QED BY <1>1, <1>2, <2>1, <2>3
<1>10. ASSUME NEW j \in Socket, connectTo(s, j) PROVE AccountInv'
  <2>1. /\ conn' = [conn EXCEPT ![s] = j] /\ account_ui' = account_ui
        /\ up' = [up EXCEPT ![j] = <<Request("CONNECT_CLIENT")>>]
        /\ down' = [down EXCEPT ![j] = <<>>]
    BY <1>10 DEF connectTo
  <2>2. up' \in [Socket -> Seq(RequestType)]
    <3>1. <<Request("CONNECT_CLIENT")>> \in Seq(RequestType)
      BY RequestTypes
    <3> QED BY <1>1, <2>1, <3>1
  <2>3. down' \in [Socket -> Seq(ReplyTypes)]
    BY <1>1, <2>1, EmptySeq
  <2>4. j # NoSocket
    BY NullAssumption
  <2> QED BY <1>1, <2>1, <2>2, <2>3, <2>4, ClientChanges
<1>11. CASE onDisconnected(s)
  <2>1. /\ conn' = [conn EXCEPT ![s] = NoSocket] /\ up' = up
        /\ down' = [down EXCEPT ![k] = <<>>]
        /\ account_ui' = [account_ui EXCEPT ![s] = onConnectionLost(a)]
    BY <1>11 DEF onDisconnected, a, k
  <2>2. down' \in [Socket -> Seq(ReplyTypes)]
    BY <1>1, <2>1, EmptySeq
  <2> QED BY <1>1, <2>1, <2>2, LostConsistent, ClientChanges
<1>12. CASE onReadyRead(s)
  <2> PICK p : p = Head(down[k])
    OBVIOUS
  <2>1. /\ k # NoSocket /\ down[k] # <<>> /\ conn' = conn
        /\ down' = [down EXCEPT ![k] = Tail(@)]
        /\ account_ui' = [account_ui EXCEPT ![s] = onPacketReceived(a, p)]
        /\ Send(s, ProfileRequest) \/ up' = up
    BY <1>12 DEF onReadyRead, a, k
  <2>2. k \in Socket /\ p \in ReplyTypes /\ Tail(down[k]) \in Seq(ReplyTypes)
    BY <1>1, <2>1, HeadTailProperties
  <2>3. down' \in [Socket -> Seq(ReplyTypes)]
    BY <1>1, <2>1, <2>2
  <2>4. up' \in [Socket -> Seq(RequestType)]
    BY <1>1, <2>1, SendType, RequestTypes DEF k
  <2>5. Consistent(onPacketReceived(a, p))
    BY <1>1, <2>2, PacketConsistent
  <2> QED BY <1>1, <2>1, <2>3, <2>4, <2>5, ClientChanges
<1> QED BY <1>3, <1>4, <1>5, <1>6, <1>7, <1>8, <1>9, <1>10, <1>11, <1>12 DEF ClientStep

\* The server's events touch the queues only.
LEMMA ServerConsistent ==
    ASSUME TypeOK, TypeOK', AccountInv,
           (\E k \in Socket : ServerStep(k)) \/ serverCrashes \/ serverStarts
    PROVE  AccountInv'
<1>1. ATypeOK
  BY DEF AccountInv
<1>2. ASSUME UNCHANGED <<conn, account_ui>>, up' \in [Socket -> Seq(RequestType)],
             down' \in [Socket -> Seq(ReplyTypes)]
      PROVE  AccountInv'
  BY <1>2 DEF AccountInv, ATypeOK
<1>3. ASSUME NEW k \in Socket, serverReads(k) PROVE AccountInv'
  <2>1. up' \in [Socket -> Seq(RequestType)]
    BY <1>1, <1>3, HeadRequest DEF serverReads, ATypeOK
  <2>2. down' \in [Socket -> Seq(ReplyTypes)]
    BY <1>1, <1>3, DeliverType DEF serverReads, TypeOK
  <2> QED BY <1>2, <1>3, <2>1, <2>2 DEF serverReads
<1>4. ASSUME NEW k \in Socket, serverDisconnects(k) PROVE AccountInv'
  BY <1>1, <1>2, <1>4, EmptySeq DEF serverDisconnects, ATypeOK
<1>5. CASE serverCrashes
  BY <1>1, <1>2, <1>5, EmptySeq DEF serverCrashes, ATypeOK
<1>6. CASE serverStarts
  BY <1>1, <1>2, <1>6 DEF serverStarts, client, ATypeOK
<1> QED BY <1>3, <1>4, <1>5, <1>6 DEF ServerStep

\* One step of the composition keeps the server's invariant and the clients'.
LEMMA AccountStep ==
    ASSUME SessionInv, AccountInv, [ANext]_avars
    PROVE  SessionInv' /\ AccountInv'
<1>1. TypeOK /\ ATypeOK
  BY DEF SessionInv, AccountInv
<1>2. SessionInv'
  <2>1. CASE [Next]_vars
    BY <2>1, SessionStep
  <2>2. CASE TypeOK' /\ UNCHANGED <<server, database>>
    BY <2>2 DEF SessionInv, NoDanglingSocket, AuthorizedIffUser, OneSessionPerUser,
       Connected, Authorized, Registered, server, database
  <2> QED BY <1>1, <2>1, <2>2, ServerSteps
<1>3. AccountInv'
  <2>1. CASE UNCHANGED avars
    BY <2>1 DEF avars, client, AccountInv, ATypeOK
  <2> QED BY <1>1, <1>2, <2>1, ClientConsistent, ServerConsistent DEF ANext, SessionInv
<1> QED BY <1>2, <1>3

\* The invariants of the two sides hold together.
LEMMA AccountInvariant == ASpec => [](SessionInv /\ AccountInv)
<1>1. AInit => SessionInv /\ AccountInv
  <2> SUFFICES ASSUME AInit PROVE SessionInv /\ AccountInv
    OBVIOUS
  <2>1. SessionInv
    BY SessionInit DEF AInit
  <2>2. ATypeOK
    BY EmptySeq DEF AInit, ATypeOK, SignedOut, AccountUi
  <2>3. Consistent(SignedOut) /\ SignedOff(SignedOut)
    BY DEF SignedOut, Consistent, SignedOff, AccountUi
  <2> QED BY <2>1, <2>2, <2>3 DEF AInit, AccountInv
<1> QED BY <1>1, AccountStep, PTL DEF ASpec

\* Every queue carries typed packets, and every AccountManager is typed.
THEOREM AccountTyped == ASpec => []ATypeOK
<1>1. AccountInv => ATypeOK
  BY DEF AccountInv
<1> QED BY <1>1, AccountInvariant, PTL

\* busy, pending, mode, logged in and the profile of AccountManager agree, although
\* any result completes whatever is pending (AccountManager.cpp:125).
THEOREM AccountFieldsAgree == ASpec => []AccountStateConsistent
<1>1. AccountInv => AccountStateConsistent
  BY DEF AccountInv, Consistent, SignedOff, AccountStateConsistent
<1> QED BY <1>1, AccountInvariant, PTL

\* Clients that reconnect under one session id, whose old connections the server
\* notices late, never get a user authorized twice.
THEOREM ClientsKeepOneSession == ASpec => [](OneSessionPerUser /\ NoDanglingSocket)
<1>1. SessionInv => OneSessionPerUser /\ NoDanglingSocket
  BY DEF SessionInv
<1> QED BY <1>1, AccountInvariant, PTL

\* As long as clients show nobody but the user the server has authorized, no two
\* of them show the same user: the server's exclusive login reaches the windows.
THEOREM ExclusiveLoginShows == ASpec /\ []LoggedInIsAuthorized => []NoSharedAccount
<1>1. SessionInv /\ LoggedInIsAuthorized => NoSharedAccount
  BY DEF SessionInv, OneSessionPerUser, LoggedInIsAuthorized, NoSharedAccount
<1> QED BY <1>1, AccountInvariant, PTL
=============================================================================
