--------------------------- MODULE AccountSession ---------------------------
(***************************************************************************)
(* The account side of the clients (client/src/Client.cpp,                 *)
(* AccountManager.cpp, RequestManager.cpp) composed with Server over TCP:  *)
(* every client keeps one session id for its life, connects, disconnects   *)
(* and reconnects, and drives register, login, profile and logout requests *)
(* through one "pending action" that any OPERATION_RESULT completes.       *)
(*                                                                         *)
(* A socket carries two FIFO queues.  The client's handlers run on its GUI *)
(* thread and the server's on its own, one packet per step.  The two ends  *)
(* of a connection learn of its end independently.                         *)
(***************************************************************************)
EXTENDS Server, SequencesExt

CONSTANTS
    Lookups,          \* TRUE: the user resolver sends GET_USER_INFO meanwhile
    ChatInput,        \* TRUE: the chat box sends CHAT_MESSAGE meanwhile
    LateDisconnects,  \* TRUE: a client may be back before the server notices it left
    MaxInFlight       \* packets on a connection beyond which the user waits

ASSUME AccountAssumption ==
    Lookups \in BOOLEAN /\ ChatInput \in BOOLEAN /\ LateDisconnects \in BOOLEAN /\ MaxInFlight \in Nat

VARIABLES
    conn,         \* the socket each client is connected with
    up,           \* client to server, per socket
    down,         \* server to client, per socket
    account_ui    \* AccountManager of each client

client == <<conn, up, down, account_ui>>
avars == <<vars, client>>

-----------------------------------------------------------------------------
(* Requests and replies on the wire. *)

Request(type) == [type |-> type, user |-> NoUser, name |-> NoName]

LoginRequest(u) == [Request("LOGIN_USER") EXCEPT !.user = u]
RegisterRequest(n) == [Request("REGISTER_USER") EXCEPT !.name = n]
ProfileRequest_ReplyType == Request("USER_PROFILE_DATA")
ProfileRequest == Request("GET_USER_PROFILE")
LookupRequest(u) == [Request("GET_USER_INFO") EXCEPT !.user = u]
MessageRequest(u) == [Request("CHAT_MESSAGE") EXCEPT !.user = u]

RequestType ==
    [type : {"CONNECT_CLIENT", "LOGOUT_USER", "GET_USER_PROFILE"}, user : {NoUser}, name : {NoName}]
        \cup [type : {"LOGIN_USER", "GET_USER_INFO"}, user : User, name : {NoName}]
        \cup [type : {"REGISTER_USER"}, user : {NoUser}, name : Name]
        \cup [type : {"CHAT_MESSAGE"}, user : User \cup {NoUser}, name : {NoName}]

ReplyTypes ==
    [type : {"OPERATION_RESULT"}, success : BOOLEAN, user : {NoUser}]
        \cup [type : {"USER_PROFILE_DATA"}, success : {FALSE}, user : User]
        \cup [type : {"PUBLIC_USER_INFO_DATA", "CHAT_LIST_DATA", "CHAT_INFO_DATA", "CHAT_MESSAGE"},
              success : {FALSE}, user : {NoUser}]

\* What AccountManager looks at in a packet.
Seen(p) == [type |-> p.type,
            success |-> p.type = "OPERATION_RESULT" /\ p.success,
            user |-> IF p.type = "USER_PROFILE_DATA" THEN p.user ELSE NoUser]

Replies(packets) == [i \in DOMAIN packets |-> Seen(packets[i])]

-----------------------------------------------------------------------------
(* AccountManager: its state and its slots, as functions of its state. *)

SignedOut == [mode |-> "Login", loggedIn |-> FALSE, busy |-> FALSE, pending |-> "None",
              profile |-> NoUser]

AccountUi == [mode : {"Login", "Register", "Account"}, loggedIn : BOOLEAN, busy : BOOLEAN,
              pending : {"None", "Register", "Login", "FetchProfile", "Logout"},
              profile : User \cup {NoUser}]

Pending(a, action) == [a EXCEPT !.pending = action, !.busy = TRUE]
Idle(a) == [a EXCEPT !.pending = "None", !.busy = FALSE]

resetAuthorizationState(a) ==
    [a EXCEPT !.profile = NoUser, !.loggedIn = FALSE, !.mode = "Login"]

onConnectionLost_KeepsPending(a) == resetAuthorizationState([a EXCEPT !.busy = FALSE])
onConnectionLost(a) == resetAuthorizationState(Idle(a))

LoginAccepted_Eager(a) == [a EXCEPT !.pending = "FetchProfile", !.mode = "Account", !.loggedIn = TRUE]
LoginAccepted(a) == [a EXCEPT !.pending = "FetchProfile", !.mode = "Account"]

LoginRefused_StaysBusy(a) == a
LoginRefused(a) == Idle(a)

onOperationResultReceived(a, success) ==
    CASE a.pending = "Register" /\ success     -> [Idle(a) EXCEPT !.mode = "Login"]
      [] a.pending = "Register" /\ ~success    -> Idle(a)
      [] a.pending = "Login" /\ success        -> LoginAccepted(a)
      [] a.pending = "Login" /\ ~success       -> LoginRefused(a)
      [] a.pending = "FetchProfile" /\ ~success -> resetAuthorizationState(Idle(a))
      [] a.pending = "Logout" /\ success       -> resetAuthorizationState(Idle(a))
      [] a.pending = "Logout" /\ ~success      -> Idle(a)
      [] OTHER                                 -> a

onCurrentUserProfileReceived(a, u) ==
    IF a.pending = "FetchProfile"
    THEN [Idle(a) EXCEPT !.profile = u, !.loggedIn = TRUE, !.mode = "Account"]
    ELSE [a EXCEPT !.profile = IF a.loggedIn THEN u ELSE @]

\* The other packets are for the chat and user handlers.
onPacketReceived(a, p) ==
    CASE p.type = "OPERATION_RESULT"  -> onOperationResultReceived(a, p.success)
      [] p.type = "USER_PROFILE_DATA" -> onCurrentUserProfileReceived(a, p.user)
      [] OTHER                        -> a

canSendMessages(s) == conn[s] # NoSocket /\ account_ui[s].loggedIn

-----------------------------------------------------------------------------
(* The client's events. *)

InFlight(s) == Len(up[conn[s]]) + Len(down[conn[s]])

\* sendBytes: written on the current connection.
Send(s, request) == up' = [up EXCEPT ![conn[s]] = Append(@, request)]

\* A button of the account window: enabled, and the manager not busy.
Press(s) ==
    /\ conn[s] # NoSocket
    /\ ~account_ui[s].busy
    /\ InFlight(s) < MaxInFlight
    /\ UNCHANGED <<vars, conn, down>>

login(s, u) ==
    /\ Press(s)
    /\ account_ui[s].mode = "Login"
    /\ account_ui' = [account_ui EXCEPT ![s] = Pending([@ EXCEPT !.profile = NoUser], "Login")]
    /\ Send(s, LoginRequest(u))

registerAccount(s, n) ==
    /\ Press(s)
    /\ account_ui[s].mode = "Register"
    /\ account_ui' = [account_ui EXCEPT ![s] = Pending([@ EXCEPT !.profile = NoUser], "Register")]
    /\ Send(s, RegisterRequest(n))

logout_(s) ==
    /\ Press(s)
    /\ account_ui[s].loggedIn
    /\ account_ui' = [account_ui EXCEPT ![s] = Pending(@, "Logout")]
    /\ Send(s, Request("LOGOUT_USER"))

showLogin(s) ==
    /\ ~account_ui[s].busy
    /\ account_ui' = [account_ui EXCEPT ![s].mode =
                   IF account_ui[s].loggedIn THEN "Account" ELSE "Login"]
    /\ UNCHANGED <<vars, conn, up, down>>

showRegister(s) ==
    /\ ~account_ui[s].busy
    /\ ~account_ui[s].loggedIn
    /\ account_ui' = [account_ui EXCEPT ![s].mode = "Register"]
    /\ UNCHANGED <<vars, conn, up, down>>

\* UserResolver asks for a user while the account manager does something else.
resolveUser(s, u) ==
    /\ Lookups
    /\ canSendMessages(s)
    /\ InFlight(s) < MaxInFlight
    /\ Send(s, LookupRequest(u))
    /\ UNCHANGED <<vars, conn, down, account_ui>>

\* The chat box sends under the current user, also while a logout is pending.
sendMessage(s) ==
    /\ ChatInput
    /\ canSendMessages(s)
    /\ InFlight(s) < MaxInFlight
    /\ Send(s, MessageRequest(account_ui[s].profile))
    /\ UNCHANGED <<vars, conn, down, account_ui>>

\* connectTo, the TCP handshake, the server's accept and onConnected, which
\* sends the handshake packet before anything else.
connectTo(s, k) ==
    /\ conn[s] = NoSocket
    /\ \A t \in Session : conn[t] # k
    /\ LateDisconnects \/ \A j \in Socket : peer[j] # s
    /\ onNewConnection(k, s)
    /\ conn' = [conn EXCEPT ![s] = k]
    /\ up' = [up EXCEPT ![k] = <<Request("CONNECT_CLIENT")>>]
    /\ down' = [down EXCEPT ![k] = <<>>]
    /\ UNCHANGED account_ui

\* The user disconnects, or the client notices that the connection is gone.
\* What it sent may still arrive, what was sent to it does not.
onDisconnected(s) ==
    /\ conn[s] # NoSocket
    /\ conn' = [conn EXCEPT ![s] = NoSocket]
    /\ down' = [down EXCEPT ![conn[s]] = <<>>]
    /\ account_ui' = [account_ui EXCEPT ![s] = onConnectionLost(@)]
    /\ UNCHANGED <<vars, up>>

onReadyRead(s) ==
    LET k == conn[s]
        p == Head(down[k])
        a == account_ui[s]
    IN
    /\ k # NoSocket
    /\ down[k] # <<>>
    /\ down' = [down EXCEPT ![k] = Tail(@)]
    /\ account_ui' = [account_ui EXCEPT ![s] = onPacketReceived(@, p)]
    /\ IF p.type = "OPERATION_RESULT" /\ a.pending = "Login" /\ p.success
       THEN Send(s, ProfileRequest)
       ELSE UNCHANGED up
    /\ UNCHANGED <<vars, conn>>

-----------------------------------------------------------------------------
(* The server's events. *)

\* What the handler wrote reaches the clients that still hold the connection.
Deliver ==
    down' = [k \in Socket |->
        LET owners == {t \in Session : clients'[t].socket = k /\ conn[t] = k} IN
        IF owners = {} THEN down[k]
        ELSE down[k] \o Replies(sent'[CHOOSE t \in owners : TRUE])]

\* handleChatMessage as the sender sees it, for a chat it is a member of: what
\* the other members are sent is no concern of their AccountManager.
answerMessage(k, claimed) ==
    LET s == peer[k] IN
    /\ s # NoSession
    /\ \/ ~Connected(s) /\ Drop
       \/ Connected(s) /\ ~clients[s].isAuthorized /\ Refuse(s, "Not authorized")
       \/ Authorized(s) /\ claimed # clients[s].userId /\ Refuse(s, "Invalid sender user id")
       \/ Authorized(s) /\ claimed = clients[s].userId /\ Drop

serverReads(k) ==
    LET r == Head(up[k]) IN
    /\ up[k] # <<>>
    /\ \/ r.type = "CONNECT_CLIENT" /\ handleConnectClient(k)
       \/ r.type = "REGISTER_USER" /\ handleRegisterUser(k, r.name)
       \/ r.type = "LOGIN_USER" /\ handleLoginUser(k, r.user)
       \/ r.type = "LOGOUT_USER" /\ handleLogoutUser(k)
       \/ r.type = "GET_USER_PROFILE" /\ handleGetUserProfile(k)
       \/ r.type = "GET_USER_INFO" /\ handleGetUserInfo(k, r.user)
       \/ r.type = "CHAT_MESSAGE" /\ answerMessage(k, r.user)
    /\ up' = [up EXCEPT ![k] = Tail(@)]
    /\ Deliver
    /\ UNCHANGED <<conn, account_ui>>

\* The server may notice the end of a connection late, or before the client.
\* Unread bytes are lost with it.
serverDisconnects(k) ==
    /\ onClientDisconnected(k)
    /\ up' = [up EXCEPT ![k] = <<>>]
    /\ UNCHANGED <<conn, down, account_ui>>

\* The server process ends, and with it every connection; it is run again.
serverCrashes ==
    /\ crash
    /\ up' = [k \in Socket |-> <<>>]
    /\ UNCHANGED <<conn, down, account_ui>>

serverStarts == start /\ UNCHANGED client

-----------------------------------------------------------------------------

AInit ==
    /\ Init
    /\ conn = [s \in Session |-> NoSocket]
    /\ up = [k \in Socket |-> <<>>]
    /\ down = [k \in Socket |-> <<>>]
    /\ account_ui = [s \in Session |-> SignedOut]

ClientStep(s) ==
    \/ \E u \in User : login(s, u) \/ resolveUser(s, u)
    \/ \E n \in Name : registerAccount(s, n)
    \/ logout_(s)
    \/ sendMessage(s)
    \/ showLogin(s)
    \/ showRegister(s)
    \/ \E k \in Socket : connectTo(s, k)
    \/ onDisconnected(s)
    \/ onReadyRead(s)

ServerStep(k) == serverReads(k) \/ serverDisconnects(k)

ANext ==
    \/ \E s \in Session : ClientStep(s)
    \/ \E k \in Socket : ServerStep(k)
    \/ serverCrashes
    \/ serverStarts

ASpec == AInit /\ [][ANext]_avars

ConnectionLost(s) == conn[s] # NoSocket /\ peer[conn[s]] = NoSession

\* Both event loops keep running: packets are read, and a client whose
\* connection is gone at the server is told.  Nothing is assumed of the users,
\* nor of when the server notices a dead peer.
Fairness ==
    /\ \A k \in Socket : WF_avars(serverReads(k))
    /\ \A s \in Session : WF_avars(onReadyRead(s))
    /\ \A s \in Session : WF_avars(ConnectionLost(s) /\ onDisconnected(s))

FairASpec == ASpec /\ Fairness

-----------------------------------------------------------------------------
(* Correctness. *)

\* Every variable has its type.
ATypeOK ==
    /\ conn \in [Session -> Socket \cup {NoSocket}]
    /\ up \in [Socket -> Seq(RequestType)]
    /\ down \in [Socket -> Seq(ReplyTypes)]
    /\ account_ui \in [Session -> AccountUi]

\* The four fields of AccountManager agree whatever results arrive when: busy
\* exactly while an action is pending; the account page only for a user who is
\* logged in or whose profile is being fetched; nobody logged in or busy on a
\* lost connection; a logged-in user has a profile.
AccountStateConsistent ==
    \A s \in Session : LET a == account_ui[s] IN
        /\ a.busy <=> a.pending # "None"
        /\ a.mode = "Account" <=> a.loggedIn \/ a.pending = "FetchProfile"
        /\ a.loggedIn => a.profile # NoUser /\ a.pending \in {"None", "Logout"}
        /\ conn[s] = NoSocket => ~a.loggedIn /\ ~a.busy /\ a.profile = NoUser

\* The connection the client uses is the one its session is registered with.
Live(s) == conn[s] # NoSocket /\ clients[s].socket = conn[s]

\* A client shows a user as logged in only while the server has that user
\* authorized on its session, but for the time a logout is under way or the end
\* of the connection has not reached it.
LoggedInIsAuthorized ==
    \A s \in Session : LET a == account_ui[s] IN
        a.loggedIn /\ Live(s) /\ a.pending # "Logout"
            => Authorized(s) /\ clients[s].userId = a.profile

\* Two clients that are both connected never show the same user as logged in.
NoSharedAccount ==
    \A s, t \in Session :
        /\ s # t /\ Live(s) /\ Live(t)
        /\ account_ui[s].loggedIn /\ account_ui[s].pending # "Logout"
        /\ account_ui[t].loggedIn /\ account_ui[t].pending # "Logout"
        => account_ui[s].profile # account_ui[t].profile

\* "Returns whether an asynchronous operation is in progress" (AccountManager.h
\* :203): a busy client is waiting for something that is under way.
BusyMeansInProgress ==
    \A s \in Session : account_ui[s].busy =>
        up[conn[s]] # <<>> \/ down[conn[s]] # <<>> \/ ConnectionLost(s)

\* Every action of the account window ends: with a result or with the
\* connection.
ActionsEnd == \A s \in Session : account_ui[s].busy ~> ~account_ui[s].busy

\* "Clears the current session and resets the UI to login mode"
\* (AccountManager.h:136): once the server has logged the session out, nothing
\* is pending and no packet is under way, the client is not logged in.
LogoutClearsSession ==
    \A s \in Session :
        /\ Live(s) /\ ~Authorized(s) /\ ~account_ui[s].busy
        /\ up[conn[s]] = <<>> /\ down[conn[s]] = <<>>
        => ~account_ui[s].loggedIn
=============================================================================
