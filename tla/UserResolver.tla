---------------------------- MODULE UserResolver ----------------------------
(***************************************************************************)
(* The client's cache of public user data (client/src/UserResolver.cpp):   *)
(* looked up by id or by name, filled by the answers of the server, and    *)
(* told by every failed result to forget what it waits for.  Names change  *)
(* on the server while answers and cache entries keep the old ones.        *)
(*                                                                         *)
(* The server is reduced to its directory of users: it answers requests in *)
(* order, and answers other requests of this client now and then.          *)
(* ChatCreation composes the resolver with the window that waits for it    *)
(* and delivers its packets.                                               *)
(***************************************************************************)
EXTENDS Naturals, Sequences, SequencesExt

CONSTANTS
    User, Name, NoUser, NoName,
    MaxInFlight  \* requests and replies beyond which nobody asks for more

ASSUME ResolverAssumption ==
    IsFiniteSet(User) /\ NoUser \notin User /\ NoName \notin Name /\ MaxInFlight \in Nat

VARIABLES
    connected,   \* Client::m_connected
    resolver,    \* UserResolver: two caches and two sets of pending requests
    directory,   \* the names of the users at the server
    requests,    \* client to server, in order
    replies      \* server to client, in order

resolverVars == <<connected, resolver, directory, requests, replies>>
wire == <<requests, replies>>

-----------------------------------------------------------------------------
(* Values. *)

Resolver == [cache : [User -> Name \cup {NoName}],        \* id to the name in its data
             usernameCache : [Name -> User \cup {NoUser}],
             pendingRequests : SUBSET User,
             pendingUsernameRequests : SUBSET Name]

EmptyResolver == [cache |-> [u \in User |-> NoName],
                  usernameCache |-> [n \in Name |-> NoUser],
                  pendingRequests |-> {},
                  pendingUsernameRequests |-> {}]

AskId(u) == [type |-> "GET_USER_INFO", id |-> u, name |-> NoName]
AskName(n) == [type |-> "GET_USER_INFO", id |-> NoUser, name |-> n]

Accepted == [type |-> "OPERATION_RESULT", success |-> TRUE]
Refused == [type |-> "OPERATION_RESULT", success |-> FALSE]
UserInfo(u, n) == [type |-> "PUBLIC_USER_INFO_DATA", id |-> u, name |-> n]

-----------------------------------------------------------------------------
(* UserResolver's methods and slots, as functions of its state. *)

\* resolveUser returns the data at once.
HasUser(r, u) == r.cache[u] # NoName
HasName(r, n) == r.usernameCache[n] # NoUser

\* resolveUser sends a request.
AsksForUser(r, u) == ~HasUser(r, u) /\ u \notin r.pendingRequests /\ connected
AsksForName(r, n) == ~HasName(r, n) /\ n \notin r.pendingUsernameRequests /\ connected

WithPendingUser(r, u) == [r EXCEPT !.pendingRequests = @ \cup {u}]
WithPendingName(r, n) == [r EXCEPT !.pendingUsernameRequests = @ \cup {n}]

NothingPending_NamesKept(r) == [r EXCEPT !.pendingRequests = {}]
NothingPending(r) == [r EXCEPT !.pendingRequests = {}, !.pendingUsernameRequests = {}]

onPublicUserInfoReceived_NoName(r, u, n) ==
    [r EXCEPT !.cache[u] = n, !.usernameCache[n] = n, !.pendingRequests = @ \ {u},
              !.pendingUsernameRequests = @ \ {n}]
onPublicUserInfoReceived_NameOnly(r, u, n) ==
    [r EXCEPT !.pendingUsernameRequests = @ \ {n}, !.usernameCache[n] = u]
onPublicUserInfoReceived(r, u, n) ==
    IF u = NoUser THEN r
    ELSE [cache |-> [r.cache EXCEPT ![u] = n],
          usernameCache |-> [r.usernameCache EXCEPT ![n] = u],
          pendingRequests |-> r.pendingRequests \ {u},
          pendingUsernameRequests |-> r.pendingUsernameRequests \ {n}]

-----------------------------------------------------------------------------
(* Calls of the other parts of the client. *)

InFlight == Len(requests) + Len(replies)

resolveUserId(u) ==
    /\ AsksForUser(resolver, u)
    /\ InFlight < MaxInFlight
    /\ resolver' = WithPendingUser(resolver, u)
    /\ requests' = Append(requests, AskId(u))
    /\ UNCHANGED <<connected, directory, replies>>

resolveUsername(n) ==
    /\ AsksForName(resolver, n)
    /\ InFlight < MaxInFlight
    /\ resolver' = WithPendingName(resolver, n)
    /\ requests' = Append(requests, AskName(n))
    /\ UNCHANGED <<connected, directory, replies>>

-----------------------------------------------------------------------------
(* The connection and the server. *)

\* Both directions start empty on a new connection.
onConnectionStatusChanged ==
    /\ connected' = ~connected
    /\ resolver' = IF connected THEN NothingPending(resolver) ELSE resolver
    /\ requests' = <<>>
    /\ replies' = <<>>
    /\ UNCHANGED directory

\* The directory's answer: the user's data with the name it has now.
Answer(r) ==
    LET found == {u \in User : directory[u] # NoName /\ (u = r.id \/ directory[u] = r.name)}
    IN IF found = {} THEN Refused
       ELSE LET u == CHOOSE v \in found : TRUE IN UserInfo(u, directory[u])

\* A client that is not authorized, or whose query fails, is refused.
handleGetUserInfo ==
    /\ requests # <<>>
    /\ Head(requests).type = "GET_USER_INFO"
    /\ \E answer \in {Answer(Head(requests)), Refused} : replies' = Append(replies, answer)
    /\ requests' = Tail(requests)
    /\ UNCHANGED <<connected, resolver, directory>>

\* Some other request of this client is answered by a result.
otherRequestEnds ==
    /\ connected
    /\ InFlight < MaxInFlight
    /\ \E result \in {Accepted, Refused} : replies' = Append(replies, result)
    /\ UNCHANGED <<connected, resolver, directory, requests>>

\* A user registers or takes another free name.
rename(u, n) ==
    /\ \A v \in User : directory[v] # n
    /\ directory' = [directory EXCEPT ![u] = n]
    /\ UNCHANGED <<connected, resolver, wire>>

-----------------------------------------------------------------------------

ResolverInit ==
    /\ connected = FALSE
    /\ resolver = EmptyResolver
    /\ directory = [u \in User |-> NoName]
    /\ requests = <<>>
    /\ replies = <<>>

-----------------------------------------------------------------------------
(* Correctness. *)

\* No pending mark outlives its request: resolveUser, which asks for nothing
\* while the mark is there, would never ask again.
PendingIsUnderWay ==
    /\ \A n \in resolver.pendingUsernameRequests :
         \/ AskName(n) \in Range(requests)
         \/ ({Refused} \cup {UserInfo(u, n) : u \in User}) \cap Range(replies) # {}
    /\ \A u \in resolver.pendingRequests :
         \/ AskId(u) \in Range(requests)
         \/ ({Refused} \cup {UserInfo(u, n) : n \in Name}) \cap Range(replies) # {}

\* Every look-up that is pending stops being so.
LookupsEnd ==
    /\ \A n \in Name : n \in resolver.pendingUsernameRequests ~> n \notin resolver.pendingUsernameRequests
    /\ \A u \in User : u \in resolver.pendingRequests ~> u \notin resolver.pendingRequests
=============================================================================
