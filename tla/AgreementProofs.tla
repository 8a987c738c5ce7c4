--------------------------- MODULE AgreementProofs ---------------------------
(***************************************************************************)
(* Proof that a client shows as logged in only whom the server has         *)
(* authorized, for any number of clients, sockets and users, while the     *)
(* account window alone makes requests.  Results carry no request id, so   *)
(* the argument is about what may be under way in each phase of an action: *)
(* never more than two packets, of kinds that whatever they are taken for  *)
(* leaves client and server in agreement.                                  *)
(*                                                                         *)
(* And proof that a client that is busy waits for something under way,     *)
(* whatever else it sends, where the server notices in time that it left.  *)
(***************************************************************************)
EXTENDS AccountProofs

-----------------------------------------------------------------------------
(* What is under way between a client and the server: the replies that are  *)
(* waiting, then the requests that will be answered.                        *)

Item(d, u, i) == IF i <= Len(d) THEN d[i] ELSE u[i - Len(d)]

\* Requests that become a result, and the profile on its way.
ResultKinds == {"LOGIN_USER", "REGISTER_USER", "OPERATION_RESULT"}
ProfileKinds == {"GET_USER_PROFILE", "USER_PROFILE_DATA", "OPERATION_RESULT"}

\* n packets under way to a client in state a, x and y being the first two.
Shape(a, n, x, y) ==
    /\ n <= 2
    /\ a.pending \in {"None", "Logout"} => n <= 1
    /\ a.loggedIn /\ a.pending = "None" => n = 0
    /\ a.pending \in {"Login", "Register"} /\ n = 2 => y.type \in ResultKinds
    /\ a.pending = "FetchProfile" /\ n = 2 => x.type \in ResultKinds /\ y.type \in ProfileKinds
    /\ a.pending = "FetchProfile" /\ n = 1 => x.type \in ProfileKinds
    /\ a.pending = "Logout" /\ n = 1 =>
          x.type = "LOGOUT_USER" \/ (x.type = "OPERATION_RESULT" /\ x.success)

Fits(a, d, u) == Shape(a, Len(d) + Len(u), Item(d, u, 1), Item(d, u, 2))

\* The connection c of the server has the user u logged in.
HasUser(c, u) == c.isAuthorized /\ c.userId = u

\* What the client shows, or is about to show, is what the server has.
Agrees(a, d, u, c) ==
    /\ (a.loggedIn /\ a.pending = "None") \/ (a.pending = "Logout" /\ u # <<>>)
          => HasUser(c, a.profile)
    /\ a.pending = "FetchProfile" =>
          \A i \in 1..Len(d) : d[i].type = "USER_PROFILE_DATA" => HasUser(c, d[i].user)

\* Only results and profiles come in.
Plain(d) == \A i \in 1..Len(d) : d[i].type \in {"OPERATION_RESULT", "USER_PROFILE_DATA"}

\* Only the requests of the account window go out, the handshake first.
Orderly(u) ==
    \A i \in 1..Len(u) :
        /\ u[i].type \notin {"GET_USER_INFO", "CHAT_MESSAGE"}
        /\ u[i].type = "CONNECT_CLIENT" => i = 1

Lacks(u, type) == \A i \in 1..Len(u) : u[i].type # type

-----------------------------------------------------------------------------
(* Queues. *)

\* A request joins the end.
LEMMA ItemSent ==
    ASSUME NEW d \in Seq(ReplyTypes), NEW u \in Seq(RequestType), NEW r \in RequestType
    PROVE  /\ Len(Append(u, r)) = Len(u) + 1
           /\ \A i \in 1..(Len(d) + Len(u)) : Item(d, Append(u, r), i) = Item(d, u, i)
           /\ Item(d, Append(u, r), Len(d) + Len(u) + 1) = r
<1>1. /\ Len(Append(u, r)) = Len(u) + 1 /\ Len(d) \in Nat /\ Len(u) \in Nat
      /\ \A i \in 1..Len(u) : Append(u, r)[i] = u[i]
      /\ Append(u, r)[Len(u) + 1] = r
  BY AppendProperties, LenProperties
<1> QED BY <1>1 DEF Item

\* The client takes the first reply.
LEMMA ItemTaken ==
    ASSUME NEW d \in Seq(ReplyTypes), NEW u \in Seq(RequestType), d # <<>>
    PROVE  /\ Len(d) >= 1 /\ Len(Tail(d)) = Len(d) - 1 /\ Item(d, u, 1) = Head(d)
           /\ \A i \in Nat \ {0} : Item(Tail(d), u, i) = Item(d, u, i + 1)
<1>1. /\ Len(d) \in Nat \ {0} /\ Len(Tail(d)) = Len(d) - 1 /\ Head(d) = d[1]
      /\ \A i \in 1..Len(Tail(d)) : Tail(d)[i] = d[i + 1]
  BY HeadTailProperties, LenProperties, EmptySeq
<1>2. ASSUME NEW i \in Nat \ {0} PROVE Item(Tail(d), u, i) = Item(d, u, i + 1)
  <2>1. CASE i <= Len(d) - 1
    BY <1>1, <2>1 DEF Item
  <2>2. CASE i > Len(d) - 1
    <3>1. i - (Len(d) - 1) = i + 1 - Len(d)
      BY <1>1
    <3> QED BY <1>1, <2>2, <3>1 DEF Item
  <2> QED BY <1>1, <2>1, <2>2
<1> QED BY <1>1, <1>2 DEF Item

\* The server turns the first request into the last reply.
LEMMA ItemAnswered ==
    ASSUME NEW d \in Seq(ReplyTypes), NEW u \in Seq(RequestType), u # <<>>, NEW q \in ReplyTypes
    PROVE  /\ Len(u) >= 1 /\ Len(d \o <<q>>) + Len(Tail(u)) = Len(d) + Len(u)
           /\ Item(d, u, Len(d) + 1) = Head(u)
           /\ Item(d \o <<q>>, Tail(u), Len(d) + 1) = q
           /\ \A i \in 1..(Len(d) + Len(u)) : i # Len(d) + 1 =>
                 Item(d \o <<q>>, Tail(u), i) = Item(d, u, i)
<1>1. /\ Len(u) \in Nat \ {0} /\ Len(Tail(u)) = Len(u) - 1 /\ Head(u) = u[1]
      /\ \A i \in 1..Len(Tail(u)) : Tail(u)[i] = u[i + 1]
  BY HeadTailProperties, LenProperties, EmptySeq
<1>2. /\ Len(d) \in Nat /\ Len(d \o <<q>>) = Len(d) + 1
      /\ \A i \in 1..Len(d) : (d \o <<q>>)[i] = d[i]
      /\ (d \o <<q>>)[Len(d) + 1] = q
  <2>1. <<q>> \in Seq(ReplyTypes) /\ Len(<<q>>) = 1 /\ <<q>>[1] = q
    OBVIOUS
  <2> QED BY <2>1, ConcatProperties, LenProperties
<1>3. ASSUME NEW i \in 1..(Len(d) + Len(u)), i # Len(d) + 1
      PROVE  Item(d \o <<q>>, Tail(u), i) = Item(d, u, i)
  <2>1. CASE i <= Len(d)
    BY <1>2, <2>1 DEF Item
  <2>2. CASE i > Len(d) + 1
    <3>1. i - Len(d) = (i - (Len(d) + 1)) + 1 /\ i - (Len(d) + 1) \in 1..Len(Tail(u))
      BY <1>1, <1>2, <2>2
    <3> QED BY <1>1, <1>2, <2>2, <3>1 DEF Item
  <2> QED BY <1>1, <1>2, <1>3, <2>1, <2>2
<1> QED BY <1>1, <1>2, <1>3 DEF Item

\* The server drops a request of a connection it does not know.
LEMMA ItemDropped ==
    ASSUME NEW u \in Seq(RequestType), u # <<>>
    PROVE  /\ Len(<<>>) = 0 /\ Len(u) >= 1 /\ Len(Tail(u)) = Len(u) - 1
           /\ Len(u) >= 2 => Item(<<>>, Tail(u), 1) = Item(<<>>, u, 2)
<1>1. /\ Len(u) \in Nat \ {0} /\ Len(Tail(u)) = Len(u) - 1 /\ Len(<<>>) = 0
      /\ \A i \in 1..Len(Tail(u)) : Tail(u)[i] = u[i + 1]
  BY HeadTailProperties, LenProperties, EmptySeq
<1>2. ASSUME Len(u) >= 2 PROVE Item(<<>>, Tail(u), 1) = Item(<<>>, u, 2)
  BY <1>1, <1>2 DEF Item
<1> QED BY <1>1, <1>2

-----------------------------------------------------------------------------
(* The shape of what is under way, event by event. *)

\* A button starts an action: what was under way now comes before its request.
LEMMA FitsPressed ==
    ASSUME NEW a, Consistent(a), ~a.busy, NEW d \in Seq(ReplyTypes), Plain(d),
           NEW u \in Seq(RequestType), NEW r \in RequestType, Fits(a, d, u), NEW b,
           \/ ~a.loggedIn /\ b.pending = "Login" /\ r.type = "LOGIN_USER"
           \/ ~a.loggedIn /\ b.pending = "Register" /\ r.type = "REGISTER_USER"
           \/ a.loggedIn /\ b.pending = "Logout" /\ r.type = "LOGOUT_USER"
    PROVE  Fits(b, d, Append(u, r))
<1>1. a.pending = "None"
  BY DEF Consistent
<1>2. Len(d) \in Nat /\ Len(u) \in Nat /\ Len(Append(u, r)) = Len(u) + 1
  BY ItemSent, LenProperties
<1>3. CASE Len(d) + Len(u) = 0
  <2>1. Item(d, Append(u, r), 1) = r
    BY <1>2, <1>3, ItemSent
  <2> QED BY <1>1, <1>2, <1>3, <2>1 DEF Fits, Shape, ResultKinds
<1>4. CASE Len(d) + Len(u) = 1
  <2>1. Item(d, Append(u, r), 2) = r
    BY <1>2, <1>4, ItemSent
  <2>2. ~a.loggedIn
    BY <1>1, <1>4 DEF Fits, Shape
  <2> QED BY <1>1, <1>2, <1>4, <2>1, <2>2 DEF Fits, Shape, ResultKinds
<1> QED BY <1>1, <1>2, <1>3, <1>4 DEF Fits, Shape

\* AccountManager's answer to a result that completes a login it waits for.
Followed(a, p) == p.type = "OPERATION_RESULT" /\ a.pending = "Login" /\ p.success

\* The first of the client's replies is a result or a profile.
LEMMA PlainHead ==
    ASSUME NEW d \in Seq(ReplyTypes), d # <<>>, Plain(d)
    PROVE  /\ Head(d).type \in {"OPERATION_RESULT", "USER_PROFILE_DATA"}
           /\ Head(d) \in ReplyTypes /\ Plain(Tail(d))
<1>1. /\ Len(d) \in Nat \ {0} /\ Len(Tail(d)) = Len(d) - 1 /\ Head(d) = d[1]
      /\ \A i \in 1..Len(Tail(d)) : Tail(d)[i] = d[i + 1]
  BY HeadTailProperties, LenProperties, EmptySeq
<1>2. Head(d) \in ReplyTypes
  BY HeadTailProperties
<1>3. ASSUME NEW i \in 1..Len(Tail(d))
      PROVE  Tail(d)[i].type \in {"OPERATION_RESULT", "USER_PROFILE_DATA"}
  BY <1>1, <1>3 DEF Plain
<1>4. d[1].type \in {"OPERATION_RESULT", "USER_PROFILE_DATA"}
  BY <1>1 DEF Plain
<1> QED BY <1>1, <1>2, <1>3, <1>4 DEF Plain

\* A reply taken from the front, whatever it is taken for, leaves the shape.
LEMMA FitsTaken ==
    ASSUME NEW a, Consistent(a), NEW d \in Seq(ReplyTypes), Plain(d), d # <<>>,
           NEW u \in Seq(RequestType), Fits(a, d, u)
    PROVE  Fits(onPacketReceived(a, Head(d)), Tail(d),
                IF Followed(a, Head(d)) THEN Append(u, ProfileRequest) ELSE u)
<1> DEFINE n == Len(d) + Len(u)
<1>p. PICK p : p = Head(d)
  OBVIOUS
<1>b. PICK b : b = onPacketReceived(a, p)
  OBVIOUS
<1>e. PICK e : e = Tail(d)
  OBVIOUS
<1>v. PICK v : v = IF Followed(a, p) THEN Append(u, ProfileRequest) ELSE u
  OBVIOUS
<1>1. /\ Len(d) \in Nat \ {0} /\ Len(u) \in Nat /\ Len(e) = Len(d) - 1
      /\ e \in Seq(ReplyTypes) /\ p = Item(d, u, 1) /\ p = d[1]
      /\ \A i \in Nat \ {0} : Item(e, u, i) = Item(d, u, i + 1)
  <2>1. e \in Seq(ReplyTypes) /\ p = d[1]
    BY <1>p, <1>e, HeadTailProperties
  <2>2. Len(d) \in Nat /\ Len(u) \in Nat
    BY LenProperties
  <2>3. /\ Len(d) >= 1 /\ Len(e) = Len(d) - 1 /\ Item(d, u, 1) = p
        /\ \A i \in Nat \ {0} : Item(e, u, i) = Item(d, u, i + 1)
    BY <1>p, <1>e, ItemTaken
  <2> QED BY <2>1, <2>2, <2>3
<1>2. p.type \in {"OPERATION_RESULT", "USER_PROFILE_DATA"}
  BY <1>p, PlainHead
<1>3. n \in {1, 2} /\ Item(e, u, 1) = Item(d, u, 2)
  <2>1. n <= 2
    BY DEF Fits, Shape
  <2>2. n \in {1, 2}
    <3>1. Len(d) \in Nat /\ Len(d) # 0 /\ Len(u) \in Nat
      BY <1>1
    <3> QED BY <2>1, <3>1
  <2>3. Item(e, u, 1) = Item(d, u, 1 + 1) /\ 1 + 1 = 2
    BY <1>1
  <2> QED BY <2>2, <2>3
<1>f. Shape(a, n, p, Item(d, u, 2))
  BY <1>1 DEF Fits
<1>4. ASSUME Followed(a, p) PROVE Fits(b, e, v)
  <2>1. b.pending = "FetchProfile"
    BY <1>4, <1>b DEF Followed, onPacketReceived, onOperationResultReceived, LoginAccepted, Consistent,
       AccountUi
  <2>2. v = Append(u, ProfileRequest) /\ ProfileRequest.type = "GET_USER_PROFILE"
        /\ ProfileRequest \in RequestType
    BY <1>4, <1>v, RequestTypes DEF ProfileRequest, Request
  <2>3. /\ Len(v) = Len(u) + 1
        /\ \A i \in 1..(Len(e) + Len(u)) : Item(e, v, i) = Item(e, u, i)
        /\ Item(e, v, Len(e) + Len(u) + 1) = ProfileRequest
    BY <1>1, <2>2, ItemSent
  <2>4. a.pending = "Login"
    BY <1>4 DEF Followed
  <2>5. CASE n = 1
    <3>1. Len(e) + Len(v) = 1 /\ Item(e, v, 1) = ProfileRequest
      BY <1>1, <2>3, <2>5
    <3> QED BY <2>1, <2>2, <3>1 DEF Fits, Shape, ProfileKinds
  <2>6. CASE n = 2
    <3>1. /\ Len(e) + Len(v) = 2 /\ Item(e, v, 2) = ProfileRequest
          /\ Item(e, v, 1) = Item(d, u, 2)
      BY <1>1, <1>3, <2>3, <2>6
    <3>2. Item(d, u, 2).type \in ResultKinds
      BY <2>4, <2>6 DEF Fits, Shape
    <3> QED BY <2>1, <2>2, <3>1, <3>2 DEF Fits, Shape, ProfileKinds
  <2>7. n = 1 \/ n = 2
    BY <1>3
  <2> QED BY <2>5, <2>6, <2>7
<1>5. ASSUME ~Followed(a, p) PROVE Fits(b, e, v)
  <2>1. v = u /\ Len(e) + Len(v) = n - 1
    <3>1. v = u
      BY <1>5, <1>v
    <3>2. PICK i, j : i = Len(d) /\ j = Len(u)
      OBVIOUS
    <3>3. i \in Nat /\ j \in Nat /\ Len(e) = i - 1 /\ n = i + j
      BY <1>1, <3>2
    <3> QED BY <3>1, <3>2, <3>3
  <2>2. \/ b.pending = a.pending /\ b.loggedIn = a.loggedIn
        \/ b.pending = "None" /\ ~b.loggedIn
        \/ b.pending = "None" /\ a.pending = "FetchProfile" /\ p.type = "USER_PROFILE_DATA"
        \/ b.pending = "None" /\ a.pending = "Logout" /\ ~(p.type = "OPERATION_RESULT" /\ p.success)
    <3>1. CASE p.type = "USER_PROFILE_DATA"
      BY <3>1, <1>b DEF onPacketReceived, onCurrentUserProfileReceived, Idle, Consistent, AccountUi
    <3>2. CASE p.type = "OPERATION_RESULT"
      <4> USE DEF onPacketReceived, onOperationResultReceived, Idle, LoginRefused,
              resetAuthorizationState, Consistent, AccountUi
      <4>1. CASE a.pending = "Register"
        BY <1>b, <3>2, <4>1
      <4>2. CASE a.pending = "Login"
        BY <1>5, <1>b, <3>2, <4>2 DEF Followed
      <4>3. CASE a.pending = "FetchProfile"
        BY <1>b, <3>2, <4>3
      <4>4. CASE a.pending = "Logout"
        BY <1>b, <3>2, <4>4
      <4>5. CASE a.pending = "None"
        BY <1>b, <3>2, <4>5
      <4> QED BY <4>1, <4>2, <4>3, <4>4, <4>5
    <3> QED BY <1>2, <3>1, <3>2
  <2>3. Shape(b, n - 1, Item(d, u, 2), Item(e, u, 2))
    <3>1. CASE b.pending = a.pending /\ b.loggedIn = a.loggedIn
      BY <1>3, <1>f, <3>1 DEF Shape
    <3>2. CASE b.pending = "None" /\ ~b.loggedIn
      BY <1>3, <3>2 DEF Shape
    <3>3. CASE b.pending = "None" /\ a.pending = "FetchProfile" /\ p.type = "USER_PROFILE_DATA"
      BY <1>3, <1>f, <3>3 DEF Shape, ResultKinds
    <3>4. CASE b.pending = "None" /\ a.pending = "Logout"
               /\ ~(p.type = "OPERATION_RESULT" /\ p.success)
      BY <1>2, <1>3, <1>f, <3>4 DEF Shape
    <3> QED BY <2>2, <3>1, <3>2, <3>3, <3>4
  <2> QED BY <1>3, <2>1, <2>3 DEF Fits
<1>6. Fits(b, e, v)
  BY <1>4, <1>5
<1> QED BY <1>6, <1>p, <1>b, <1>e, <1>v

\* q answers the request r: a result, or for a profile its data or a failure.
Answers(r, q) ==
    IF r.type = "GET_USER_PROFILE"
    THEN q.type = "USER_PROFILE_DATA" \/ (q.type = "OPERATION_RESULT" /\ ~q.success)
    ELSE q.type = "OPERATION_RESULT"

\* A request that is answered keeps its place.
LEMMA FitsAnswered ==
    ASSUME NEW a, NEW d \in Seq(ReplyTypes), NEW u \in Seq(RequestType), u # <<>>,
           NEW q \in ReplyTypes, Answers(Head(u), q), Fits(a, d, u),
           a.pending = "Logout" /\ Head(u).type = "LOGOUT_USER" =>
               q.type = "OPERATION_RESULT" /\ q.success
    PROVE  Fits(a, d \o <<q>>, Tail(u))
<1> DEFINE n == Len(d) + Len(u)
           e == d \o <<q>>
           w == Tail(u)
<1>1. /\ Len(d) \in Nat /\ Len(u) \in Nat /\ Len(u) >= 1 /\ Len(e) + Len(w) = n
      /\ Item(d, u, Len(d) + 1) = Head(u) /\ Item(e, w, Len(d) + 1) = q
      /\ \A i \in 1..n : i # Len(d) + 1 => Item(e, w, i) = Item(d, u, i)
  BY ItemAnswered, LenProperties
<1>2. Head(u) \in RequestType
  BY HeadTailProperties
<1>3. Head(u).type # "OPERATION_RESULT"
  BY <1>2 DEF RequestType
<1>4. n <= 2
  BY DEF Fits, Shape
<1>5. ASSUME NEW i \in 1..n
      PROVE  \/ Item(e, w, i) = Item(d, u, i)
             \/ i = Len(d) + 1 /\ Item(d, u, i) = Head(u) /\ Item(e, w, i) = q
  BY <1>1, <1>5
<1> HIDE DEF e, w
<1>6. ASSUME NEW i \in 1..n
      PROVE  /\ Item(d, u, i).type \in ResultKinds => Item(e, w, i).type \in ResultKinds
             /\ Item(d, u, i).type \in ProfileKinds => Item(e, w, i).type \in ProfileKinds
  BY <1>3, <1>5, <1>6 DEF Answers, ResultKinds, ProfileKinds
<1>7. CASE n = 1
  <2>1. Item(e, w, 1) = Item(d, u, 1) \/ (Item(d, u, 1) = Head(u) /\ Item(e, w, 1) = q)
    BY <1>5, <1>7
  <2>2. Item(d, u, 1).type \in ProfileKinds => Item(e, w, 1).type \in ProfileKinds
    BY <1>6, <1>7
  <2> QED BY <1>1, <1>3, <1>7, <2>1, <2>2 DEF Fits, Shape, e, w
<1>8. CASE n = 2
  <2>1. /\ Item(d, u, 1).type \in ResultKinds => Item(e, w, 1).type \in ResultKinds
        /\ Item(d, u, 2).type \in ResultKinds => Item(e, w, 2).type \in ResultKinds
        /\ Item(d, u, 2).type \in ProfileKinds => Item(e, w, 2).type \in ProfileKinds
    BY <1>6, <1>8
  <2> QED BY <1>1, <1>8, <2>1 DEF Fits, Shape, e, w
<1> QED BY <1>1, <1>4, <1>7, <1>8

\* A request may be lost where nothing waits in front of it.
LEMMA FitsDropped ==
    ASSUME NEW a, NEW u \in Seq(RequestType), u # <<>>, Fits(a, <<>>, u)
    PROVE  Fits(a, <<>>, Tail(u))
<1>1. /\ Len(u) \in Nat /\ Len(<<>>) = 0 /\ Len(u) >= 1 /\ Len(Tail(u)) = Len(u) - 1
      /\ Len(u) >= 2 => Item(<<>>, Tail(u), 1) = Item(<<>>, u, 2)
  BY ItemDropped, LenProperties
<1> QED BY <1>1 DEF Fits, Shape

\* The end of the connection cuts off what the server has not read.
LEMMA FitsCut ==
    ASSUME NEW a, NEW d \in Seq(ReplyTypes), Plain(d), NEW u \in Seq(RequestType), Fits(a, d, u)
    PROVE  Fits(a, d, <<>>)
<1>1. Len(d) \in Nat /\ Len(u) \in Nat /\ Len(<<>>) = 0
  BY LenProperties, EmptySeq
<1>2. \A i \in 1..Len(d) : /\ Item(d, <<>>, i) = d[i] /\ Item(d, u, i) = d[i]
                           /\ d[i].type \in {"OPERATION_RESULT", "USER_PROFILE_DATA"}
  BY <1>1 DEF Item, Plain
<1>3. CASE Len(d) = 0
  BY <1>1, <1>3 DEF Fits, Shape
<1>4. CASE Len(d) = 1
  <2>1. /\ Item(d, <<>>, 1) = Item(d, u, 1)
        /\ Item(d, u, 1).type \in {"OPERATION_RESULT", "USER_PROFILE_DATA"}
    BY <1>2, <1>4
  <2>2. a.pending = "Logout" => Len(u) = 0
    BY <1>1, <1>4 DEF Fits, Shape
  <2>3. a.loggedIn /\ a.pending = "None" => FALSE
    BY <1>1, <1>4 DEF Fits, Shape
  <2> QED BY <1>1, <1>4, <2>1, <2>2, <2>3 DEF Fits, Shape, ProfileKinds
<1>5. CASE Len(d) = 2
  <2>1. Item(d, <<>>, 1) = Item(d, u, 1) /\ Item(d, <<>>, 2) = Item(d, u, 2) /\ Len(u) = 0
    BY <1>1, <1>2, <1>5 DEF Fits, Shape
  <2> QED BY <1>1, <1>5, <2>1 DEF Fits, Shape
<1> QED BY <1>1, <1>3, <1>4, <1>5 DEF Fits, Shape

\* A new connection begins with the handshake.
LEMMA FitsBegun ==
    ASSUME NEW a, Consistent(a), SignedOff(a)
    PROVE  Fits(a, <<>>, <<Request("CONNECT_CLIENT")>>)
<1>1. a.pending = "None" /\ ~a.loggedIn
  BY DEF Consistent, SignedOff
<1>2. Len(<<>>) = 0 /\ Len(<<Request("CONNECT_CLIENT")>>) = 1
  OBVIOUS
<1> QED BY <1>1, <1>2 DEF Fits, Shape

-----------------------------------------------------------------------------
(* What is shown, event by event. *)

\* A button shows nobody new; a logout is pressed by a user who is logged in.
LEMMA AgreesPressed ==
    ASSUME NEW a, Consistent(a), ~a.busy, NEW d, NEW u, NEW v, NEW c, Agrees(a, d, u, c), NEW b,
           \/ ~a.loggedIn /\ ~b.loggedIn /\ b.pending \in {"Login", "Register"}
           \/ a.loggedIn /\ b.pending = "Logout" /\ b.profile = a.profile
    PROVE  Agrees(b, d, v, c)
<1>1. a.pending = "None"
  BY DEF Consistent
<1> QED BY <1>1 DEF Agrees

\* A profile is taken for the answer to a login only if it is the server's user;
\* what else comes in shows nobody.
LEMMA AgreesTaken ==
    ASSUME NEW a, Consistent(a), NEW d \in Seq(ReplyTypes), Plain(d), d # <<>>,
           NEW u \in Seq(RequestType), NEW v, Fits(a, d, u), NEW c, Agrees(a, d, u, c)
    PROVE  Agrees(onPacketReceived(a, Head(d)), Tail(d), v, c)
<1> DEFINE n == Len(d) + Len(u)
<1>p. PICK p : p = Head(d)
  OBVIOUS
<1>b. PICK b : b = onPacketReceived(a, p)
  OBVIOUS
<1>e. PICK e : e = Tail(d)
  OBVIOUS
<1>1. /\ Len(d) \in Nat /\ Len(d) # 0 /\ Len(u) \in Nat /\ Len(e) = Len(d) - 1 /\ p = d[1]
      /\ \A i \in 1..Len(e) : e[i] = d[i + 1]
  BY <1>p, <1>e, HeadTailProperties, LenProperties, EmptySeq
<1>2. p.type \in {"OPERATION_RESULT", "USER_PROFILE_DATA"}
  BY <1>p, PlainHead
<1>3. n \in {1, 2}
  <2>1. n <= 2
    BY DEF Fits, Shape
  <2> QED BY <1>1, <2>1
<1>f. Shape(a, n, p, Item(d, u, 2))
  <2>1. Item(d, u, 1) = p
    BY <1>p, ItemTaken
  <2> QED BY <2>1 DEF Fits
<1>4. ~(a.loggedIn /\ a.pending = "None")
  BY <1>3, <1>f DEF Shape
<1>5. a.pending = "Logout" => p.type = "OPERATION_RESULT" /\ p.success
  BY <1>2, <1>3, <1>f DEF Shape, RequestType
<1>6. a.loggedIn => a.pending = "Logout"
  BY <1>4 DEF Consistent
<1>7. ASSUME a.pending = "FetchProfile", p.type = "USER_PROFILE_DATA"
      PROVE  HasUser(c, p.user)
  BY <1>1, <1>7 DEF Agrees
<1>8. ~(b.pending = "Logout")
  <2>1. a.pending = "Logout" => b.pending = "None"
    BY <1>5, <1>b DEF onPacketReceived, onOperationResultReceived, Idle, resetAuthorizationState,
       Consistent, AccountUi
  <2>2. a.pending # "Logout" => b.pending # "Logout"
    BY <1>2, <1>b DEF onPacketReceived, onOperationResultReceived, onCurrentUserProfileReceived,
       Idle, LoginAccepted, LoginRefused, resetAuthorizationState, Consistent, AccountUi
  <2> QED BY <2>1, <2>2
<1>9. b.loggedIn => a.pending = "FetchProfile" /\ p.type = "USER_PROFILE_DATA" /\ b.profile = p.user
  <2>1. CASE p.type = "USER_PROFILE_DATA"
    BY <1>5, <1>6, <1>b, <2>1 DEF onPacketReceived, onCurrentUserProfileReceived, Idle,
       Consistent, AccountUi
  <2>2. CASE p.type = "OPERATION_RESULT"
    <3>1. CASE a.pending = "Logout"
      BY <1>5, <1>b, <2>2, <3>1 DEF onPacketReceived, onOperationResultReceived, Idle,
         resetAuthorizationState, Consistent, AccountUi
    <3>2. CASE a.pending # "Logout"
      BY <1>6, <1>b, <2>2, <3>2 DEF onPacketReceived, onOperationResultReceived, Idle,
         LoginAccepted, LoginRefused, resetAuthorizationState, Consistent, AccountUi
    <3> QED BY <3>1, <3>2
  <2> QED BY <1>2, <2>1, <2>2
<1>10. b.pending = "FetchProfile" => a.pending = "FetchProfile" \/ a.pending = "Login"
  BY <1>2, <1>b DEF onPacketReceived, onOperationResultReceived, onCurrentUserProfileReceived,
     Idle, LoginAccepted, LoginRefused, resetAuthorizationState, Consistent, AccountUi
<1>11. ASSUME b.pending = "FetchProfile", NEW i \in 1..Len(e), e[i].type = "USER_PROFILE_DATA"
       PROVE  HasUser(c, e[i].user)
  <2>1. i + 1 \in 1..Len(d) /\ e[i] = d[i + 1]
    BY <1>1, <1>11
  <2>2. CASE a.pending = "FetchProfile"
    <3> PICK j : j = i + 1
      OBVIOUS
    <3>1. j \in 1..Len(d) /\ e[i] = d[j]
      BY <2>1
    <3> QED BY <1>11, <2>2, <3>1 DEF Agrees
  <2>3. CASE a.pending = "Login"
    <3>1. i = 1 /\ n = 2 /\ Len(d) = 2
      BY <1>1, <1>3, <2>1
    <3>2. Item(d, u, 2) = d[2] /\ e[1] = d[2]
      BY <1>1, <3>1 DEF Item
    <3> QED BY <1>f, <1>11, <2>3, <3>1, <3>2 DEF Shape, ResultKinds
  <2> QED BY <1>10, <1>11, <2>2, <2>3
<1>12. b.loggedIn => HasUser(c, b.profile)
  BY <1>7, <1>9
<1>13. Agrees(b, e, v, c)
  BY <1>8, <1>11, <1>12 DEF Agrees
<1> QED BY <1>13, <1>p, <1>b, <1>e

\* Of two packets, the one before the last is the first.
LEMMA LastOfTwo ==
    \A m, n \in Nat : \A i \in 1..m : m + n <= 2 /\ n # 0 => i = 1 /\ m = 1 /\ n = 1
  OBVIOUS

\* An answer leaves the connection of the server as the client shows it: by the
\* time the profile is on its way nothing else is.
LEMMA AgreesAnswered ==
    ASSUME NEW a, NEW d \in Seq(ReplyTypes), NEW u \in Seq(RequestType), u # <<>>,
           NEW q \in ReplyTypes, Fits(a, d, u), NEW c,
           q.type = "USER_PROFILE_DATA" => HasUser(c, q.user)
    PROVE  Agrees(a, d \o <<q>>, Tail(u), c)
<1>e. PICK e : e = d \o <<q>>
  OBVIOUS
<1>1. /\ Len(u) \in Nat /\ Len(u) # 0 /\ Len(Tail(u)) = Len(u) - 1
      /\ Tail(u) # <<>> => Len(u) # 1
  <2>1. /\ Len(u) \in Nat /\ Len(u) # 0 /\ Len(Tail(u)) = Len(u) - 1
        /\ Tail(u) \in Seq(RequestType)
    BY HeadTailProperties, LenProperties, EmptySeq
  <2>2. Len(Tail(u)) = 0 => Tail(u) = <<>>
    BY <2>1, EmptySeq
  <2> QED BY <2>1, <2>2
<1>2. /\ Len(d) \in Nat /\ Len(e) = Len(d) + 1
      /\ \A i \in 1..Len(d) : e[i] = d[i]
      /\ e[Len(d) + 1] = q
  <2>1. <<q>> \in Seq(ReplyTypes) /\ Len(<<q>>) = 1 /\ <<q>>[1] = q
    OBVIOUS
  <2> QED BY <1>e, <2>1, ConcatProperties, LenProperties
<1>3. ~(a.loggedIn /\ a.pending = "None")
  BY <1>1, <1>2 DEF Fits, Shape
<1>4. ~(a.pending = "Logout" /\ Tail(u) # <<>>)
  <2>1. a.pending = "Logout" => Len(d) + Len(u) <= 1
    BY DEF Fits, Shape
  <2> QED BY <1>1, <1>2, <2>1
<1>5. ASSUME a.pending = "FetchProfile", NEW i \in 1..Len(e), e[i].type = "USER_PROFILE_DATA"
      PROVE  HasUser(c, e[i].user)
  <2>1. CASE i \in 1..Len(d)
    <3>1. Len(d) + Len(u) <= 2
      BY DEF Fits, Shape
    <3>2. i = 1 /\ Len(d) = 1 /\ Len(u) = 1
      <4>1. Len(d) \in Nat /\ Len(u) \in Nat /\ Len(u) # 0
        BY <1>1, <1>2
      <4>2. Len(d) + Len(u) <= 2 /\ i \in 1..Len(d)
        BY <2>1, <3>1
      <4> QED BY <4>1, <4>2, LastOfTwo
    <3>3. Item(d, u, 1) = d[1] /\ e[1] = d[1]
      BY <1>2, <3>2 DEF Item
    <3>4. Item(d, u, 1).type \in ResultKinds
      BY <1>5, <3>2 DEF Fits, Shape
    <3> QED BY <1>5, <3>2, <3>3, <3>4 DEF ResultKinds
  <2>2. CASE i = Len(d) + 1
    BY <1>2, <1>5, <2>2
  <2> QED BY <1>2, <2>1, <2>2
<1>6. Agrees(a, e, Tail(u), c)
  BY <1>3, <1>4, <1>5 DEF Agrees
<1> QED BY <1>6, <1>e

-----------------------------------------------------------------------------
(* The invariant. *)

\* A socket is held by one client, and is that client's at the server too.
SocketsOwned ==
    /\ \A s, t \in Session : conn[s] = conn[t] /\ conn[s] # NoSocket => s = t
    /\ \A s \in Session, k \in Socket : conn[s] = k => peer[k] \in {s, NoSession}

\* Before the handshake of a connection is read, there are no replies and no
\* request that was set off by one; after it there is no other handshake.
LineOK(k) ==
    /\ Orderly(up[k])
    /\ Plain(down[k])
    /\ \A s \in Session : peer[k] = s =>
          /\ clients[s].socket = k => Lacks(up[k], "CONNECT_CLIENT")
          /\ clients[s].socket # k => down[k] = <<>> /\ Lacks(up[k], "GET_USER_PROFILE")

\* What the client s is waiting for, and what it shows, on the connection k.
WindowOK(s, k) == conn[s] = k =>
    /\ Fits(account_ui[s], down[k], up[k])
    /\ clients[s].socket = k => Agrees(account_ui[s], down[k], up[k], clients[s])

AgreementInv ==
    /\ SocketsOwned
    /\ \A k \in Socket : LineOK(k)
    /\ \A s \in Session, k \in Socket : WindowOK(s, k)

-----------------------------------------------------------------------------
(* What the server does with a request. *)

\* A request on a connection that is not the session's is dropped.
Ignored(k, s) == clients' = clients /\ sent'[s] = <<>> /\ clients[s].socket # k

\* Any other is answered with one packet on the connection it came from.
AnsweredBy(k, s, q) ==
    /\ clients'[s].socket = k
    /\ Replies(sent'[s]) = <<q>>
    /\ Answers(Head(up[k]), q)
    /\ q.type = "USER_PROFILE_DATA" => HasUser(clients'[s], q.user)
    /\ Head(up[k]).type = "CONNECT_CLIENT" => clients[s].socket = NoSocket
    /\ Head(up[k]).type # "CONNECT_CLIENT" => clients[s].socket = k
    /\ Head(up[k]).type = "LOGOUT_USER" /\ clients[s].isAuthorized =>
          q.type = "OPERATION_RESULT" /\ q.success

Outcome(k, s) ==
    /\ peer' = peer
    /\ \A t \in Session \ {s} : clients'[t] = clients[t] /\ sent'[t] = <<>>
    /\ Ignored(k, s) \/ \E q \in ReplyTypes : AnsweredBy(k, s, q)

\* A reply reaches AccountManager as it looks at it, and nobody else.
LEMMA ReplyAlone ==
    ASSUME NEW s \in Session, NEW p \in Packet, Reply(s, <<p>>)
    PROVE  /\ Replies(sent'[s]) = <<Seen(p)>>
           /\ \A t \in Session \ {s} : sent'[t] = <<>>
<1>1. sent'[s] = <<p>> /\ \A t \in Session \ {s} : sent'[t] = <<>>
  BY DEF Reply, Nothing
<1>2. Replies(<<p>>) = <<Seen(p)>>
  <2>1. DOMAIN <<p>> = 1..1 /\ <<p>>[1] = p
    OBVIOUS
  <2>2. Replies(<<p>>) = [i \in 1..1 |-> Seen(p)]
    BY <2>1 DEF Replies
  <2> QED BY <2>2
<1> QED BY <1>1, <1>2

\* A dropped packet leaves everything.
LEMMA DropOutcome ==
    ASSUME NEW s \in Session, NEW k \in Socket, clients[s].socket # k, Drop
    PROVE  Outcome(k, s)
  BY DEF Drop, Nothing, Outcome, Ignored, server

\* Operation results answer any request but a logout that must succeed.
LEMMA ResultOutcome ==
    ASSUME NEW s \in Session, NEW k \in Socket, NEW ok \in BOOLEAN, NEW text \in Text,
           Reply(s, <<Result(ok, text)>>), peer' = peer, clients'[s].socket = k,
           \A t \in Session \ {s} : clients'[t] = clients[t],
           IF Head(up[k]).type = "CONNECT_CLIENT" THEN clients[s].socket = NoSocket
                                                  ELSE clients[s].socket = k,
           ok \/ Head(up[k]).type # "LOGOUT_USER" \/ ~clients[s].isAuthorized,
           ok => Head(up[k]).type # "GET_USER_PROFILE"
    PROVE  Outcome(k, s)
<1> DEFINE q == Seen(Result(ok, text))
<1>1. Result(ok, text) \in Packet
  BY DEF Result, Packet
<1>2. Replies(sent'[s]) = <<q>> /\ \A t \in Session \ {s} : sent'[t] = <<>>
  BY <1>1, ReplyAlone
<1>3. q.type = "OPERATION_RESULT" /\ q.success = ok /\ q \in ReplyTypes
  BY DEF Seen, Result, ReplyTypes
<1> HIDE DEF q
<1>4. AnsweredBy(k, s, q)
  BY <1>2, <1>3 DEF AnsweredBy, Answers
<1> QED BY <1>2, <1>3, <1>4 DEF Outcome

\* The next request is one of the account window's, and comes after the handshake
\* if it was set off by a reply, before it if it is the handshake.
InTurn(k) ==
    LET type == Head(up[k]).type IN
    /\ type \notin {"GET_USER_INFO", "CHAT_MESSAGE"}
    /\ \A s \in Session : peer[k] = s =>
          /\ clients[s].socket = k => type # "CONNECT_CLIENT"
          /\ clients[s].socket # k => type # "GET_USER_PROFILE"

\* So it is on an orderly connection.
LEMMA OrderlyHead ==
    ASSUME ATypeOK, NEW k \in Socket, LineOK(k), up[k] # <<>>
    PROVE  InTurn(k)
<1>1. up[k] \in Seq(RequestType)
  BY DEF ATypeOK
<1>2. 1 \in 1..Len(up[k]) /\ up[k][1] = Head(up[k])
  BY <1>1, HeadTailProperties, LenProperties, EmptySeq
<1> QED BY <1>2 DEF LineOK, Orderly, Lacks, InTurn

\* Every request of the account window is dropped or answered, by its handler.
LEMMA ReadOutcome ==
    ASSUME TypeOK, ATypeOK, NEW k \in Socket, serverReads(k), InTurn(k)
    PROVE  peer[k] \in Session /\ Outcome(k, peer[k])
<1>s. PICK s : s = peer[k]
  OBVIOUS
<1>r. PICK r : r = Head(up[k])
  OBVIOUS
<1>1. /\ up[k] # <<>>
      /\ \/ r.type = "CONNECT_CLIENT" /\ handleConnectClient(k)
         \/ r.type = "REGISTER_USER" /\ handleRegisterUser(k, r.name)
         \/ r.type = "LOGIN_USER" /\ handleLoginUser(k, r.user)
         \/ r.type = "LOGOUT_USER" /\ handleLogoutUser(k)
         \/ r.type = "GET_USER_PROFILE" /\ handleGetUserProfile(k)
         \/ r.type = "GET_USER_INFO" /\ handleGetUserInfo(k, r.user)
         \/ r.type = "CHAT_MESSAGE" /\ answerMessage(k, r.user)
  BY <1>r DEF serverReads
<1>3. r.type \notin {"GET_USER_INFO", "CHAT_MESSAGE"}
  BY <1>r DEF InTurn
<1>4. s \in Session
  <2>1. peer[k] \in Session \cup {NoSession} /\ peer[k] # NoSession
    BY <1>1, <1>3 DEF TypeOK, handleConnectClient, handleRegisterUser, handleLoginUser,
       handleLogoutUser, handleGetUserProfile
  <2> QED BY <1>s, <2>1
<1>5. /\ clients[s].socket = k => r.type # "CONNECT_CLIENT"
      /\ clients[s].socket # k => r.type # "GET_USER_PROFILE"
  BY <1>4, <1>r, <1>s DEF InTurn
<1>6. clients \in [Session -> Connection] /\ k # NoSocket
  BY NullAssumption DEF TypeOK
<1>7. ASSUME NEW why \in Text, Refuse(s, why), clients[s].socket = k, r.type # "CONNECT_CLIENT",
             r.type # "LOGOUT_USER" \/ ~clients[s].isAuthorized
      PROVE  Outcome(k, s)
  BY <1>4, <1>7, <1>r, ResultOutcome DEF Refuse, server
<1>8. ASSUME NEW text \in Text, Reply(s, <<Result(TRUE, text)>>), peer' = peer,
             clients[s].socket = k, r.type \notin {"CONNECT_CLIENT", "GET_USER_PROFILE"},
             clients' = clients \/ \E c : c.socket = k /\ clients' = [clients EXCEPT ![s] = c]
      PROVE  Outcome(k, s)
  BY <1>4, <1>6, <1>8, <1>r, ResultOutcome
<1>9. DropForeign(k) => Outcome(k, s)
  BY <1>4, <1>s, DropOutcome DEF DropForeign, matchesSocket
<1>t. /\ "Connected" \in Text /\ "Registration successful" \in Text
      /\ "Login successful" \in Text /\ "Logout successful" \in Text
      /\ "Not authorized" \in Text /\ "Invalid register payload" \in Text
      /\ "Username already exists" \in Text /\ "Registration failed" \in Text
      /\ "Invalid login payload" \in Text /\ "Invalid login or password" \in Text
      /\ "User is already logged in from another device" \in Text
      /\ "User not found" \in Text
  BY DEF Text
<1>10. ASSUME r.type = "CONNECT_CLIENT" /\ handleConnectClient(k)
       PROVE  Outcome(k, s)
  <2>1. CASE Drop
    BY <1>4, <1>5, <1>10, <2>1, DropOutcome
  <2>2. CASE ~Drop
    <3>1. /\ clients[s].socket = NoSocket
          /\ clients' = [clients EXCEPT ![s] = [NoConnection EXCEPT !.socket = k]]
          /\ Reply(s, <<Result(TRUE, "Connected")>>) /\ peer' = peer
      BY <1>10, <1>s, <2>2 DEF handleConnectClient, Connected
    <3>2. clients'[s].socket = k /\ \A t \in Session \ {s} : clients'[t] = clients[t]
      BY <1>4, <1>6, <3>1 DEF NoConnection
    <3> QED BY <1>4, <1>10, <1>r, <1>t, <3>1, <3>2, ResultOutcome
  <2> QED BY <2>1, <2>2
<1>11. ASSUME r.type = "REGISTER_USER" /\ handleRegisterUser(k, r.name)
       PROVE  Outcome(k, s)
  <2>1. CASE clients[s].socket = k
    <3>1. \/ \E why \in Text : Refuse(s, why)
          \/ Reply(s, <<Result(TRUE, "Registration successful")>>) /\ UNCHANGED server
      BY <1>6, <1>11, <1>s, <1>t, <2>1 DEF handleRegisterUser, DropForeign, matchesSocket
    <3> QED BY <1>7, <1>8, <1>11, <1>t, <2>1, <3>1 DEF server
  <2>2. CASE clients[s].socket # k
    BY <1>9, <1>11, <1>s, <2>2 DEF handleRegisterUser, matchesSocket
  <2> QED BY <2>1, <2>2
<1>12. ASSUME r.type = "LOGIN_USER" /\ handleLoginUser(k, r.user)
       PROVE  Outcome(k, s)
  <2>1. CASE clients[s].socket = k
    <3>1. \/ \E why \in Text : Refuse(s, why)
          \/ /\ Reply(s, <<Result(TRUE, "Login successful")>>) /\ peer' = peer
             /\ clients' = [clients EXCEPT ![s] = authorize(@, r.user)]
      BY <1>6, <1>12, <1>s, <1>t, <2>1 DEF handleLoginUser, DropForeign, matchesSocket
    <3>2. authorize(clients[s], r.user).socket = k
      BY <1>4, <1>6, <2>1 DEF authorize, Connection
    <3> QED BY <1>7, <1>8, <1>12, <1>t, <2>1, <3>1, <3>2
  <2>2. CASE clients[s].socket # k
    BY <1>9, <1>12, <1>s, <2>2 DEF handleLoginUser, matchesSocket
  <2> QED BY <2>1, <2>2
<1>13. ASSUME r.type = "LOGOUT_USER" /\ handleLogoutUser(k)
       PROVE  Outcome(k, s)
  <2>1. CASE clients[s].socket = k
    <3>1. \/ ~clients[s].isAuthorized /\ Refuse(s, "Not authorized")
          \/ /\ Reply(s, <<Result(TRUE, "Logout successful")>>) /\ peer' = peer
             /\ clients' = [clients EXCEPT ![s] = logout(@)]
      BY <1>6, <1>13, <1>s, <2>1 DEF handleLogoutUser, DropForeign, matchesSocket
    <3>2. logout(clients[s]).socket = k
      BY <1>4, <1>6, <2>1 DEF logout, Connection
    <3> QED BY <1>7, <1>8, <1>13, <1>t, <2>1, <3>1, <3>2
  <2>2. CASE clients[s].socket # k
    BY <1>9, <1>13, <1>s, <2>2 DEF handleLogoutUser, matchesSocket
  <2> QED BY <2>1, <2>2
<1>14. ASSUME r.type = "GET_USER_PROFILE" /\ handleGetUserProfile(k)
       PROVE  Outcome(k, s)
  <2>1. clients[s].socket = k
    BY <1>5, <1>14
  <2>2. CASE \E why \in Text : Refuse(s, why)
    BY <1>7, <1>14, <2>1, <2>2
  <2>3. CASE ~\E why \in Text : Refuse(s, why)
    <3> DEFINE u == clients[s].userId
               q == Seen(UserProfileData(u))
    <3>1. Authorized(s) /\ Reply(s, <<UserProfileData(u)>>) /\ UNCHANGED server
      BY <1>6, <1>14, <1>s, <1>t, <2>1, <2>3 DEF handleGetUserProfile, RefuseUnauthorized, Served,
         Connected
    <3>2. clients[s] \in Connection /\ u \in User /\ clients[s].isAuthorized
      BY <1>4, <1>6, <3>1 DEF Authorized, Connection
    <3>3. UserProfileData(u) \in Packet
      BY <3>2 DEF Packet, UserProfileData
    <3>4. Replies(sent'[s]) = <<q>> /\ \A t \in Session \ {s} : sent'[t] = <<>>
      BY <1>4, <3>1, <3>3, ReplyAlone
    <3>5. q.type = "USER_PROFILE_DATA" /\ q.user = u /\ q \in ReplyTypes
      BY <3>2 DEF Seen, UserProfileData, ReplyTypes
    <3> HIDE DEF q
    <3>6. AnsweredBy(k, s, q)
      BY <1>14, <1>r, <2>1, <3>1, <3>2, <3>4, <3>5 DEF AnsweredBy, Answers, HasUser, server
    <3> QED BY <3>1, <3>4, <3>5, <3>6 DEF Outcome, server
  <2> QED BY <2>2, <2>3
<1>15. Outcome(k, s)
  BY <1>1, <1>3, <1>10, <1>11, <1>12, <1>13, <1>14
<1> QED BY <1>4, <1>15, <1>s

\* A session without output adds nothing to a queue.
LEMMA NoReplies ==
    ASSUME NEW d \in Seq(ReplyTypes)
    PROVE  d \o Replies(<<>>) = d
<1>1. Replies(<<>>) = <<>>
  BY DEF Replies
<1>2. d \o <<>> = d
  BY ConcatEmptySeq
<1> QED BY <1>1, <1>2

\* The answer goes to the client of the session, if it still holds the connection.
LEMMA Delivered ==
    ASSUME ATypeOK, SocketsOwned, NEW s \in Session, NEW k \in Socket, Outcome(k, s), Deliver
    PROVE  \/ Ignored(k, s) /\ \A j \in Socket : down'[j] = down[j]
           \/ \E q \in ReplyTypes :
                 /\ AnsweredBy(k, s, q)
                 /\ \A j \in Socket \ {k} : down'[j] = down[j]
                 /\ down'[k] = IF conn[s] = k THEN down[k] \o <<q>> ELSE down[k]
<1> DEFINE owners(j) == {t \in Session : clients'[t].socket = j /\ conn[t] = j}
<1>1. \A j \in Socket : j # NoSocket /\ down[j] \in Seq(ReplyTypes)
  BY NullAssumption DEF ATypeOK
<1>2. ASSUME NEW j \in Socket
      PROVE  \/ owners(j) = {} /\ down'[j] = down[j]
             \/ \E t \in owners(j) : down'[j] = down[j] \o Replies(sent'[t])
  BY <1>2 DEF Deliver
<1>3. ASSUME NEW j \in Socket, \A t \in owners(j) : sent'[t] = <<>>
      PROVE  down'[j] = down[j]
  <2>1. CASE owners(j) = {}
    BY <1>2, <2>1
  <2>2. CASE owners(j) # {}
    <3>1. PICK t \in owners(j) : down'[j] = down[j] \o Replies(sent'[t])
      BY <1>2, <2>2
    <3>2. sent'[t] = <<>>
      BY <1>3, <3>1
    <3>3. down[j] \o Replies(<<>>) = down[j]
      BY <1>1, NoReplies
    <3> QED BY <3>1, <3>2, <3>3
  <2> QED BY <2>1, <2>2
<1>4. \A t \in Session \ {s} : sent'[t] = <<>>
  BY DEF Outcome
<1>5. CASE Ignored(k, s)
  <2>1. \A t \in Session : sent'[t] = <<>>
    BY <1>4, <1>5 DEF Ignored
  <2>2. ASSUME NEW j \in Socket PROVE down'[j] = down[j]
    <3>1. \A t \in owners(j) : sent'[t] = <<>>
      BY <2>1
    <3> HIDE DEF owners
    <3> QED BY <1>3, <3>1
  <2> QED BY <1>5, <2>2
<1>6. ASSUME NEW q \in ReplyTypes, AnsweredBy(k, s, q)
      PROVE  /\ \A j \in Socket \ {k} : down'[j] = down[j]
             /\ down'[k] = IF conn[s] = k THEN down[k] \o <<q>> ELSE down[k]
  <2>1. clients'[s].socket = k /\ Replies(sent'[s]) = <<q>>
    BY <1>6 DEF AnsweredBy
  <2>2. ASSUME NEW j \in Socket, j # k \/ conn[s] # k PROVE down'[j] = down[j]
    <3>1. s \notin owners(j)
      BY <2>1, <2>2
    <3>2. \A t \in owners(j) : sent'[t] = <<>>
      BY <1>4, <3>1
    <3> HIDE DEF owners
    <3> QED BY <1>3, <3>2
  <2>3. ASSUME conn[s] = k PROVE down'[k] = down[k] \o <<q>>
    <3>1. s \in owners(k)
      BY <2>1, <2>3
    <3>2. \A t \in owners(k) : t = s
      BY <1>1, <2>3 DEF SocketsOwned
    <3>3. PICK t \in owners(k) : down'[k] = down[k] \o Replies(sent'[t])
      BY <1>2, <3>1
    <3>4. t = s
      BY <3>2, <3>3
    <3> QED BY <2>1, <3>3, <3>4
  <2> QED BY <2>2, <2>3
<1> QED BY <1>5, <1>6 DEF Outcome

-----------------------------------------------------------------------------
(* The steps. *)

\* The rest of an orderly queue, and what is on it.
LEMMA OrderlyTail ==
    ASSUME NEW u \in Seq(RequestType), u # <<>>, Orderly(u)
    PROVE  /\ Orderly(Tail(u)) /\ Lacks(Tail(u), "CONNECT_CLIENT")
           /\ \A type : Lacks(u, type) => Lacks(Tail(u), type)
           /\ \A type : Lacks(u, type) => Head(u).type # type
<1>1. /\ Len(u) \in Nat /\ Len(u) # 0 /\ Len(Tail(u)) = Len(u) - 1 /\ Head(u) = u[1]
      /\ \A i \in 1..Len(Tail(u)) : Tail(u)[i] = u[i + 1]
  BY HeadTailProperties, LenProperties, EmptySeq
<1>2. 1 \in 1..Len(u) /\ \A i \in 1..Len(Tail(u)) : i + 1 \in 1..Len(u) /\ i + 1 # 1
  BY <1>1
<1> QED BY <1>1, <1>2 DEF Orderly, Lacks

\* A request of the account window that joins an orderly queue.
LEMMA OrderlySent ==
    ASSUME NEW u \in Seq(RequestType), Orderly(u), NEW r \in RequestType,
           r.type \in {"LOGIN_USER", "REGISTER_USER", "LOGOUT_USER", "GET_USER_PROFILE"}
    PROVE  /\ Orderly(Append(u, r))
           /\ \A type : Lacks(u, type) /\ r.type # type => Lacks(Append(u, r), type)
<1>1. /\ Len(Append(u, r)) = Len(u) + 1 /\ Len(u) \in Nat
      /\ \A i \in 1..Len(u) : Append(u, r)[i] = u[i]
      /\ Append(u, r)[Len(u) + 1] = r
  BY AppendProperties, LenProperties
<1>2. \A i \in 1..Len(Append(u, r)) : i \in 1..Len(u) \/ i = Len(u) + 1
  BY <1>1
<1> QED BY <1>1, <1>2 DEF Orderly, Lacks

\* An answer that joins the replies.
LEMMA PlainAnswered ==
    ASSUME NEW d \in Seq(ReplyTypes), Plain(d), NEW q \in ReplyTypes, NEW r, Answers(r, q)
    PROVE  Plain(d \o <<q>>)
<1>1. /\ Len(d) \in Nat /\ Len(d \o <<q>>) = Len(d) + 1
      /\ \A i \in 1..Len(d) : (d \o <<q>>)[i] = d[i]
      /\ (d \o <<q>>)[Len(d) + 1] = q
  <2>1. <<q>> \in Seq(ReplyTypes) /\ Len(<<q>>) = 1 /\ <<q>>[1] = q
    OBVIOUS
  <2> QED BY <2>1, ConcatProperties, LenProperties
<1>2. \A i \in 1..Len(d \o <<q>>) : i \in 1..Len(d) \/ i = Len(d) + 1
  BY <1>1
<1> QED BY <1>1, <1>2 DEF Plain, Answers

\* Nothing is under way where nothing was ever written.
LEMMA EmptyQueues ==
    /\ Plain(<<>>) /\ Orderly(<<>>) /\ \A type : Lacks(<<>>, type)
    /\ Orderly(<<Request("CONNECT_CLIENT")>>)
    /\ Lacks(<<Request("CONNECT_CLIENT")>>, "GET_USER_PROFILE")
<1>1. Len(<<>>) = 0
  OBVIOUS
<1>2. /\ Len(<<Request("CONNECT_CLIENT")>>) = 1
      /\ <<Request("CONNECT_CLIENT")>>[1].type = "CONNECT_CLIENT"
  BY DEF Request
<1>3. \A i \in 1..1 : i = 1
  OBVIOUS
<1> QED BY <1>1, <1>2, <1>3 DEF Plain, Orderly, Lacks

\* An event of a connected client changes its queues and its state only.
LEMMA ClientKeeps ==
    ASSUME ATypeOK, AgreementInv, NEW s \in Session, NEW k \in Socket, conn[s] = k,
           NEW d, NEW u, NEW a, UNCHANGED <<peer, clients, conn>>,
           up' = [up EXCEPT ![k] = u], down' = [down EXCEPT ![k] = d],
           account_ui' = [account_ui EXCEPT ![s] = a],
           Orderly(u), Plain(d), down[k] = <<>> => d = <<>>,
           \A type \in {"CONNECT_CLIENT", "GET_USER_PROFILE"} :
               Lacks(up[k], type) => Lacks(u, type) \/ (type = "GET_USER_PROFILE" /\ down[k] # <<>>),
           Fits(a, d, u), clients[s].socket = k => Agrees(a, d, u, clients[s])
    PROVE  AgreementInv'
<1>1. SocketsOwned'
  BY DEF AgreementInv, SocketsOwned
<1>2. /\ up'[k] = u /\ down'[k] = d /\ account_ui'[s] = a
      /\ \A j \in Socket \ {k} : up'[j] = up[j] /\ down'[j] = down[j]
      /\ \A t \in Session \ {s} : account_ui'[t] = account_ui[t]
  BY DEF ATypeOK
<1>3. ASSUME NEW j \in Socket PROVE LineOK(j)'
  <2>1. CASE j # k
    BY <1>2, <2>1 DEF AgreementInv, LineOK
  <2>2. CASE j = k
    <3>1. LineOK(k)
      BY DEF AgreementInv
    <3>2. /\ Lacks(up[k], "CONNECT_CLIENT") => Lacks(u, "CONNECT_CLIENT")
          /\ Lacks(up[k], "GET_USER_PROFILE") /\ down[k] = <<>> => Lacks(u, "GET_USER_PROFILE")
      OBVIOUS
    <3>3. Orderly(up'[j]) /\ Plain(down'[j])
      BY <1>2, <2>2
    <3>4. ASSUME NEW t \in Session, peer[k] = t
          PROVE  /\ clients[t].socket = k => Lacks(u, "CONNECT_CLIENT")
                 /\ clients[t].socket # k => d = <<>> /\ Lacks(u, "GET_USER_PROFILE")
      BY <3>1, <3>2, <3>4 DEF LineOK
    <3>5. \A t \in Session : peer'[j] = t =>
            /\ clients'[t].socket = j => Lacks(up'[j], "CONNECT_CLIENT")
            /\ clients'[t].socket # j => down'[j] = <<>> /\ Lacks(up'[j], "GET_USER_PROFILE")
      BY <1>2, <2>2, <3>4
    <3> QED BY <3>3, <3>5 DEF LineOK
  <2> QED BY <2>1, <2>2
<1>4. ASSUME NEW t \in Session, NEW j \in Socket PROVE WindowOK(t, j)'
  <2>1. WindowOK(t, j)
    BY DEF AgreementInv
  <2>2. CASE t = s /\ j = k
    BY <1>2, <2>2 DEF WindowOK
  <2>3. CASE t = s /\ j # k
    BY <2>3 DEF WindowOK
  <2>4. CASE t # s /\ j # k
    BY <1>2, <2>1, <2>4 DEF WindowOK
  <2>5. CASE t # s /\ j = k
    <3>1. conn[t] # k
      BY <2>5, NullAssumption DEF AgreementInv, SocketsOwned
    <3> QED BY <2>5, <3>1 DEF WindowOK
  <2> QED BY <2>2, <2>3, <2>4, <2>5
<1> QED BY <1>1, <1>3, <1>4 DEF AgreementInv

\* A button of the account window, with the request it sends.
LEMMA PressKeeps ==
    ASSUME AccountInv, AgreementInv, NEW s \in Session, NEW k \in Socket, conn[s] = k,
           ~account_ui[s].busy, UNCHANGED <<vars, conn, down>>, NEW b, NEW r \in RequestType,
           up' = [up EXCEPT ![k] = Append(@, r)],
           account_ui' = [account_ui EXCEPT ![s] = b],
           \/ /\ ~account_ui[s].loggedIn /\ ~b.loggedIn
              /\ \/ b.pending = "Login" /\ r.type = "LOGIN_USER"
                 \/ b.pending = "Register" /\ r.type = "REGISTER_USER"
           \/ /\ account_ui[s].loggedIn /\ b.profile = account_ui[s].profile
              /\ b.pending = "Logout" /\ r.type = "LOGOUT_USER"
    PROVE  AgreementInv'
<1> DEFINE a == account_ui[s]
           d == down[k]
           u == up[k]
<1>1. /\ ATypeOK /\ Consistent(a) /\ d \in Seq(ReplyTypes) /\ u \in Seq(RequestType)
      /\ LineOK(k) /\ WindowOK(s, k)
  BY DEF AccountInv, ATypeOK, AgreementInv
<1>2. Orderly(u) /\ Plain(d)
  BY <1>1 DEF LineOK
<1>3. Fits(a, d, u) /\ (clients[s].socket = k => Agrees(a, d, u, clients[s]))
  BY <1>1 DEF WindowOK
<1>4. /\ up' = [up EXCEPT ![k] = Append(u, r)] /\ down' = [down EXCEPT ![k] = d]
      /\ UNCHANGED <<peer, clients, conn>>
  BY <1>1 DEF ATypeOK, vars
<1>5. b.pending \in {"Login", "Register", "Logout"}
      /\ r.type \in {"LOGIN_USER", "REGISTER_USER", "LOGOUT_USER"}
  OBVIOUS
<1> HIDE DEF a, d, u
<1>6. /\ Orderly(Append(u, r))
      /\ \A type : Lacks(u, type) /\ r.type # type => Lacks(Append(u, r), type)
  BY <1>1, <1>2, <1>5, OrderlySent
<1>7. Fits(b, d, Append(u, r))
  BY <1>1, <1>2, <1>3, FitsPressed DEF a
<1>8. clients[s].socket = k => Agrees(b, d, Append(u, r), clients[s])
  BY <1>1, <1>3, AgreesPressed DEF a
<1>9. \A type \in {"CONNECT_CLIENT", "GET_USER_PROFILE"} :
        Lacks(up[k], type) => Lacks(Append(u, r), type)
                              \/ (type = "GET_USER_PROFILE" /\ down[k] # <<>>)
  BY <1>5, <1>6 DEF u
<1>10. down[k] = <<>> => d = <<>>
  BY DEF d
<1> QED BY <1>1, <1>2, <1>4, <1>6, <1>7, <1>8, <1>9, <1>10, ClientKeeps

\* The client reads a packet, and follows a login up with the profile.
LEMMA ReadKeeps ==
    ASSUME AccountInv, AgreementInv, NEW s \in Session, onReadyRead(s)
    PROVE  AgreementInv'
<1>k. PICK k : k = conn[s]
  OBVIOUS
<1>0. k \in Socket
  BY <1>k DEF onReadyRead, AccountInv, ATypeOK
<1> DEFINE a == account_ui[s]
           d == down[k]
           u == up[k]
           v == IF Followed(a, Head(d)) THEN Append(u, ProfileRequest) ELSE u
           b == onPacketReceived(a, Head(d))
<1>1. /\ ATypeOK /\ Consistent(a) /\ d \in Seq(ReplyTypes) /\ u \in Seq(RequestType)
      /\ LineOK(k) /\ WindowOK(s, k)
  BY <1>0 DEF AccountInv, ATypeOK, AgreementInv
<1>2. Orderly(u) /\ Plain(d)
  BY <1>1 DEF LineOK
<1>3. Fits(a, d, u) /\ (clients[s].socket = k => Agrees(a, d, u, clients[s]))
  BY <1>1, <1>k DEF WindowOK
<1>4. /\ d # <<>> /\ UNCHANGED <<peer, clients, conn>>
      /\ down' = [down EXCEPT ![k] = Tail(d)] /\ account_ui' = [account_ui EXCEPT ![s] = b]
  BY <1>k DEF onReadyRead, vars
<1>5. up' = [up EXCEPT ![k] = v]
  <2>1. CASE Followed(a, Head(d))
    BY <1>k, <2>1 DEF onReadyRead, Followed, Send
  <2>2. CASE ~Followed(a, Head(d))
    <3>1. up' = up
      BY <1>k, <2>2 DEF onReadyRead, Followed
    <3> QED BY <1>1, <2>2, <3>1 DEF ATypeOK
  <2> QED BY <2>1, <2>2
<1> HIDE DEF a, d, u
<1>6. ProfileRequest \in RequestType /\ ProfileRequest.type = "GET_USER_PROFILE"
  BY RequestTypes DEF ProfileRequest, Request
<1>7. Plain(Tail(d))
  BY <1>1, <1>2, <1>4, PlainHead
<1>8. Orderly(v) /\ \A type : Lacks(u, type) /\ type # "GET_USER_PROFILE" => Lacks(v, type)
  BY <1>1, <1>2, <1>6, OrderlySent
<1>9. Fits(b, Tail(d), v)
  BY <1>1, <1>2, <1>3, <1>4, FitsTaken
<1>10. clients[s].socket = k => Agrees(b, Tail(d), v, clients[s])
  BY <1>1, <1>2, <1>3, <1>4, AgreesTaken
<1> HIDE DEF v, b
<1>11. \A type \in {"CONNECT_CLIENT", "GET_USER_PROFILE"} : Lacks(up[k], type) =>
          Lacks(v, type) \/ (type = "GET_USER_PROFILE" /\ down[k] # <<>>)
  BY <1>4, <1>8 DEF u, d
<1>12. down[k] = <<>> => Tail(d) = <<>>
  BY <1>4 DEF d
<1> QED BY <1>0, <1>1, <1>k, <1>4, <1>5, <1>7, <1>8, <1>9, <1>10, <1>11, <1>12, ClientKeeps

\* The two pages of the window that show nobody.
LEMMA PageKeeps ==
    ASSUME AccountInv, AgreementInv, NEW s \in Session, showLogin(s) \/ showRegister(s)
    PROVE  AgreementInv'
<1>1. UNCHANGED <<peer, clients, conn, up, down>>
  BY DEF showLogin, showRegister, vars
<1>2. PICK m : account_ui' = [account_ui EXCEPT ![s].mode = m]
  BY DEF showLogin, showRegister
<1>3. \A t \in Session : /\ account_ui'[t].pending = account_ui[t].pending
                         /\ account_ui'[t].loggedIn = account_ui[t].loggedIn
                         /\ account_ui'[t].profile = account_ui[t].profile
  BY <1>2 DEF AccountInv, ATypeOK, AccountUi
<1>4. ASSUME NEW t \in Session, NEW k \in Socket PROVE WindowOK(t, k)'
  <2>1. WindowOK(t, k)
    BY DEF AgreementInv
  <2>2. Fits(account_ui[t], down[k], up[k]) => Fits(account_ui'[t], down[k], up[k])
    BY <1>3 DEF Fits, Shape
  <2>3. Agrees(account_ui[t], down[k], up[k], clients[t])
          => Agrees(account_ui'[t], down[k], up[k], clients[t])
    BY <1>3 DEF Agrees
  <2> QED BY <1>1, <2>1, <2>2, <2>3 DEF WindowOK
<1> QED BY <1>1, <1>4 DEF AgreementInv, SocketsOwned, LineOK

\* A client connects on a fresh socket, on which its session is not registered.
LEMMA ConnectKeeps ==
    ASSUME SessionInv, AccountInv, AgreementInv, NEW s \in Session, NEW k \in Socket,
           connectTo(s, k)
    PROVE  AgreementInv'
<1>1. /\ ATypeOK /\ TypeOK /\ k # NoSocket /\ Consistent(account_ui[s])
      /\ SignedOff(account_ui[s])
  BY NullAssumption DEF AccountInv, SessionInv, connectTo
<1>2. /\ conn[s] = NoSocket /\ peer[k] = NoSession /\ \A t \in Session : conn[t] # k
      /\ UNCHANGED <<clients, account_ui>>
  BY DEF connectTo, onNewConnection
<1>3. /\ conn'[s] = k /\ \A t \in Session \ {s} : conn'[t] = conn[t]
      /\ peer'[k] = s /\ \A j \in Socket \ {k} : peer'[j] = peer[j]
      /\ up'[k] = <<Request("CONNECT_CLIENT")>> /\ down'[k] = <<>>
      /\ \A j \in Socket \ {k} : up'[j] = up[j] /\ down'[j] = down[j]
  BY <1>1 DEF connectTo, onNewConnection, ATypeOK, TypeOK
<1>4. \A t \in Session : clients[t].socket # k
  BY <1>1, <1>2, NullAssumption DEF SessionInv, NoDanglingSocket, Connected
<1>5. SocketsOwned'
  BY <1>1, <1>2, <1>3 DEF AgreementInv, SocketsOwned
<1>6. ASSUME NEW j \in Socket PROVE LineOK(j)'
  <2>1. CASE j # k
    BY <1>2, <1>3, <2>1 DEF AgreementInv, LineOK
  <2>2. CASE j = k
    BY <1>2, <1>3, <1>4, <2>2, EmptyQueues DEF LineOK
  <2> QED BY <2>1, <2>2
<1>7. ASSUME NEW t \in Session, NEW j \in Socket PROVE WindowOK(t, j)'
  <2>1. CASE j # k
    <3>1. t # s => conn'[t] = conn[t]
      BY <1>3
    <3>2. WindowOK(t, j)
      BY DEF AgreementInv
    <3> QED BY <1>2, <1>3, <2>1, <3>1, <3>2 DEF WindowOK
  <2>2. CASE j = k
    <3>1. conn'[t] = k => t = s
      BY <1>2, <1>3
    <3>2. Fits(account_ui[s], <<>>, <<Request("CONNECT_CLIENT")>>)
      BY <1>1, FitsBegun
    <3> QED BY <1>2, <1>3, <1>4, <2>2, <3>1, <3>2 DEF WindowOK
  <2> QED BY <2>1, <2>2
<1> QED BY <1>5, <1>6, <1>7 DEF AgreementInv

\* A client that is cut off reads no more.
LEMMA DisconnectKeeps ==
    ASSUME AccountInv, AgreementInv, NEW s \in Session, onDisconnected(s)
    PROVE  AgreementInv'
<1>k. PICK k : k = conn[s]
  OBVIOUS
<1>1. /\ ATypeOK /\ k \in Socket /\ UNCHANGED <<peer, clients, up>>
  BY <1>k DEF AccountInv, ATypeOK, onDisconnected, vars
<1>2. /\ conn'[s] = NoSocket /\ \A t \in Session \ {s} : conn'[t] = conn[t]
      /\ down'[k] = <<>> /\ \A j \in Socket \ {k} : down'[j] = down[j]
      /\ \A t \in Session \ {s} : account_ui'[t] = account_ui[t]
  BY <1>1, <1>k DEF onDisconnected, ATypeOK
<1>3. SocketsOwned'
  BY <1>1, <1>2, NullAssumption DEF AgreementInv, SocketsOwned
<1>4. ASSUME NEW j \in Socket PROVE LineOK(j)'
  <2>1. CASE j # k
    BY <1>1, <1>2, <2>1 DEF AgreementInv, LineOK
  <2>2. CASE j = k
    BY <1>1, <1>2, <2>2, EmptyQueues DEF AgreementInv, LineOK
  <2> QED BY <2>1, <2>2
<1>5. ASSUME NEW t \in Session, NEW j \in Socket PROVE WindowOK(t, j)'
  <2>1. CASE t = s
    BY <1>2, <2>1, NullAssumption DEF WindowOK
  <2>2. CASE t # s /\ j = k
    <3>1. conn'[t] # k
      BY <1>1, <1>2, <1>k, <2>2, NullAssumption DEF AgreementInv, SocketsOwned
    <3> QED BY <2>2, <3>1 DEF WindowOK
  <2>3. CASE t # s /\ j # k
    <3>1. WindowOK(t, j)
      BY DEF AgreementInv
    <3> QED BY <1>1, <1>2, <2>3, <3>1 DEF WindowOK
  <2> QED BY <2>1, <2>2, <2>3
<1> QED BY <1>3, <1>4, <1>5 DEF AgreementInv

\* The server reads a request: the queues of other connections, and what other
\* clients show, stay as they are.
LEMMA ServeKeeps ==
    ASSUME SessionInv, AccountInv, AgreementInv, NEW k \in Socket, serverReads(k)
    PROVE  AgreementInv'
<1>s. PICK s : s = peer[k]
  OBVIOUS
<1> DEFINE d == down[k]
           u == up[k]
<1>1. /\ ATypeOK /\ TypeOK /\ LineOK(k) /\ SocketsOwned
      /\ d \in Seq(ReplyTypes) /\ u \in Seq(RequestType) /\ u # <<>>
  BY DEF SessionInv, AccountInv, AgreementInv, ATypeOK, serverReads
<1>2. s \in Session /\ Outcome(k, s)
  BY <1>1, <1>s, OrderlyHead, ReadOutcome
<1>3. /\ UNCHANGED <<conn, account_ui>> /\ up'[k] = Tail(u)
      /\ \A j \in Socket \ {k} : up'[j] = up[j]
      /\ peer' = peer /\ \A t \in Session \ {s} : clients'[t] = clients[t]
  BY <1>1, <1>2 DEF serverReads, ATypeOK, Outcome
<1>4. \/ Ignored(k, s) /\ \A j \in Socket : down'[j] = down[j]
      \/ \E q \in ReplyTypes :
            /\ AnsweredBy(k, s, q)
            /\ \A j \in Socket \ {k} : down'[j] = down[j]
            /\ down'[k] = IF conn[s] = k THEN d \o <<q>> ELSE d
  BY <1>1, <1>2, Delivered DEF serverReads
<1>5. Orderly(u) /\ Plain(d)
  BY <1>1 DEF LineOK
<1>6. \A j \in Socket \ {k} :
        /\ down'[j] = down[j]
        /\ clients'[s].socket = j <=> clients[s].socket = j
        /\ clients'[s].socket = j => clients'[s] = clients[s]
  BY <1>4, NullAssumption DEF AnsweredBy, Ignored
<1>7. SocketsOwned'
  BY <1>1, <1>3 DEF SocketsOwned
<1>8. ASSUME NEW j \in Socket, j # k PROVE LineOK(j)'
  <2>1. \A t \in Session : clients'[t].socket = j <=> clients[t].socket = j
    BY <1>3, <1>6, <1>8
  <2>2. LineOK(j)
    BY DEF AgreementInv
  <2> QED BY <1>3, <1>6, <1>8, <2>1, <2>2 DEF LineOK
<1>9. ASSUME NEW t \in Session, NEW j \in Socket, j # k PROVE WindowOK(t, j)'
  <2>1. clients'[t].socket = j => clients'[t] = clients[t]
    BY <1>3, <1>6, <1>9
  <2>2. WindowOK(t, j)
    BY DEF AgreementInv
  <2> QED BY <1>3, <1>6, <1>9, <2>1, <2>2 DEF WindowOK
<1>10. ASSUME NEW t \in Session, conn[t] = k PROVE t = s
  BY <1>1, <1>2, <1>10, <1>s, NullAssumption DEF SocketsOwned
<1> HIDE DEF d, u
<1>11. /\ Orderly(Tail(u)) /\ Lacks(Tail(u), "CONNECT_CLIENT")
       /\ Lacks(u, "GET_USER_PROFILE") => Lacks(Tail(u), "GET_USER_PROFILE")
  BY <1>1, <1>5, OrderlyTail
<1>12. CASE Ignored(k, s) /\ \A j \in Socket : down'[j] = down[j]
  <2>1. clients[s].socket # k /\ clients' = clients /\ down'[k] = d
    BY <1>12 DEF Ignored, d
  <2>2. d = <<>> /\ Lacks(u, "GET_USER_PROFILE")
    BY <1>1, <1>2, <1>s, <2>1 DEF LineOK, d, u
  <2>3. LineOK(k)'
    <3>1. Orderly(up'[k]) /\ Plain(down'[k])
      BY <1>3, <1>5, <1>11, <2>1
    <3>2. \A t \in Session : peer'[k] = t => t = s
      BY <1>3, <1>s
    <3>3. /\ clients'[s].socket # k /\ down'[k] = <<>>
          /\ Lacks(up'[k], "GET_USER_PROFILE")
      BY <1>3, <1>11, <2>1, <2>2
    <3> QED BY <3>1, <3>2, <3>3 DEF LineOK
  <2>4. ASSUME NEW t \in Session PROVE WindowOK(t, k)'
    <3>1. ASSUME conn[s] = k PROVE Fits(account_ui[s], <<>>, Tail(u))
      <4>1. Fits(account_ui[s], <<>>, u)
        BY <1>2, <2>2, <3>1 DEF AgreementInv, WindowOK, d, u
      <4> QED BY <1>1, <4>1, FitsDropped
    <3>2. conn'[t] = k => t = s /\ conn[s] = k
      BY <1>3, <1>10
    <3>3. conn'[t] = k => Fits(account_ui'[t], down'[k], up'[k]) /\ clients'[t].socket # k
      BY <1>3, <2>1, <2>2, <3>1, <3>2
    <3> QED BY <3>3 DEF WindowOK
  <2> QED BY <1>7, <1>8, <1>9, <2>3, <2>4 DEF AgreementInv
<1>13. ASSUME NEW q \in ReplyTypes, AnsweredBy(k, s, q),
              down'[k] = IF conn[s] = k THEN d \o <<q>> ELSE d
       PROVE  AgreementInv'
  <2>1. clients'[s].socket = k /\ Answers(Head(u), q)
        /\ (q.type = "USER_PROFILE_DATA" => HasUser(clients'[s], q.user))
    BY <1>13 DEF AnsweredBy, u
  <2>2. LineOK(k)'
    <3>1. Orderly(up'[k]) /\ Plain(down'[k]) /\ Lacks(up'[k], "CONNECT_CLIENT")
      BY <1>1, <1>3, <1>5, <1>11, <1>13, <2>1, PlainAnswered
    <3>2. \A t \in Session : peer'[k] = t => t = s
      BY <1>3, <1>s
    <3> QED BY <2>1, <3>1, <3>2 DEF LineOK
  <2>3. ASSUME conn[s] = k
        PROVE  /\ Fits(account_ui[s], d \o <<q>>, Tail(u))
               /\ Agrees(account_ui[s], d \o <<q>>, Tail(u), clients'[s])
    <3>1. /\ Fits(account_ui[s], d, u)
          /\ clients[s].socket = k => Agrees(account_ui[s], d, u, clients[s])
      BY <1>2, <2>3 DEF AgreementInv, WindowOK, d, u
    <3>2. ASSUME account_ui[s].pending = "Logout", Head(u).type = "LOGOUT_USER"
          PROVE  q.type = "OPERATION_RESULT" /\ q.success
      <4>1. clients[s].socket = k
        BY <1>13, <3>2 DEF AnsweredBy, u
      <4>2. clients[s].isAuthorized
        BY <1>1, <3>1, <3>2, <4>1 DEF Agrees, HasUser
      <4> QED BY <1>13, <3>2, <4>2 DEF AnsweredBy, u
    <3>3. Fits(account_ui[s], d \o <<q>>, Tail(u))
      BY <1>1, <2>1, <3>1, <3>2, FitsAnswered
    <3>4. PICK c : c = clients'[s]
      OBVIOUS
    <3>5. Agrees(account_ui[s], d \o <<q>>, Tail(u), c)
      BY <1>1, <2>1, <3>1, <3>4, AgreesAnswered
    <3> QED BY <3>3, <3>4, <3>5
  <2>4. ASSUME NEW t \in Session PROVE WindowOK(t, k)'
    <3>1. conn'[t] = k => t = s /\ conn[s] = k
      BY <1>3, <1>10
    <3>2. conn'[t] = k => /\ Fits(account_ui'[t], down'[k], up'[k])
                          /\ Agrees(account_ui'[t], down'[k], up'[k], clients'[t])
      BY <1>3, <1>13, <2>3, <3>1
    <3> QED BY <3>2 DEF WindowOK
  <2> QED BY <1>7, <1>8, <1>9, <2>2, <2>4 DEF AgreementInv
<1> QED BY <1>4, <1>12, <1>13 DEF d

\* These sockets are gone at the server, with what it had not read and whoever
\* they were for; the others are untouched.
Cuts(cut) ==
    /\ \A k \in cut : /\ up'[k] = <<>> /\ peer'[k] = NoSession
                      /\ \A t \in Session : clients'[t].socket # k
    /\ \A k \in Socket \ cut :
          /\ up'[k] = up[k] /\ peer'[k] = peer[k]
          /\ \A t \in Session : /\ clients'[t].socket = k <=> clients[t].socket = k
                                /\ clients'[t].socket = k => clients'[t] = clients[t]

\* So it is when the server notices the end of a connection, or ends itself.
LEMMA CutEffect ==
    ASSUME SessionInv, AccountInv,
           (\E k \in Socket : serverDisconnects(k)) \/ serverCrashes
    PROVE  /\ UNCHANGED <<conn, down, account_ui>>
           /\ \E cut \in SUBSET Socket : Cuts(cut)
<1>1. /\ ATypeOK /\ TypeOK /\ UNCHANGED <<conn, down, account_ui>>
      /\ \A k \in Socket : k # NoSocket
  BY NullAssumption DEF SessionInv, AccountInv, serverDisconnects, serverCrashes
<1> SUFFICES \E cut \in SUBSET Socket : Cuts(cut)
  BY <1>1
<1> USE DEF Cuts
<1>2. CASE serverCrashes
  <2>1. /\ \A k \in Socket : up'[k] = <<>> /\ peer'[k] = NoSession
        /\ \A t \in Session : clients'[t].socket = NoSocket
    BY <1>2 DEF serverCrashes, crash, ProcessLost, NoConnection
  <2>2. \A k \in Socket : \A t \in Session : clients'[t].socket # k
    BY <1>1, <2>1
  <2> WITNESS Socket \in SUBSET Socket
  <2> QED BY <2>1, <2>2
<1>3. ASSUME NEW k \in Socket, serverDisconnects(k)
      PROVE  /\ up'[k] = <<>> /\ peer'[k] = NoSession
             /\ \A t \in Session : clients'[t].socket # k
             /\ \A j \in Socket \ {k} :
                   /\ up'[j] = up[j] /\ peer'[j] = peer[j]
                   /\ \A t \in Session :
                         /\ clients'[t].socket = j <=> clients[t].socket = j
                         /\ clients'[t].socket = j => clients'[t] = clients[t]
  <2>1. /\ up'[k] = <<>> /\ peer'[k] = NoSession
        /\ \A j \in Socket \ {k} : up'[j] = up[j] /\ peer'[j] = peer[j]
    BY <1>1, <1>3 DEF serverDisconnects, onClientDisconnected, ATypeOK, TypeOK
  <2>2. EraseConnection(k)
    BY <1>3 DEF serverDisconnects, onClientDisconnected
  <2>3. CASE UNCHANGED clients /\ \A t \in Session : clients[t].socket # k
    BY <2>1, <2>3
  <2>4. CASE \E s \in Session : /\ clients[s].socket = k
                                /\ clients' = [clients EXCEPT ![s] = NoConnection]
    <3>1. PICK s \in Session : /\ clients[s].socket = k
                               /\ clients' = [clients EXCEPT ![s] = NoConnection]
      BY <2>4
    <3>2. /\ clients'[s].socket = NoSocket
          /\ \A t \in Session \ {s} : clients'[t] = clients[t]
      BY <1>1, <3>1 DEF TypeOK, NoConnection
    <3>3. \A t \in Session : clients[t].socket = k => t = s
      BY <1>1, <3>1 DEF SessionInv, NoDanglingSocket, Connected
    <3> QED BY <1>1, <2>1, <3>1, <3>2, <3>3
  <2> QED BY <2>2, <2>3, <2>4 DEF EraseConnection, matchesSocket
<1>4. CASE \E k \in Socket : serverDisconnects(k)
  <2>1. PICK k \in Socket : serverDisconnects(k)
    BY <1>4
  <2> WITNESS {k} \in SUBSET Socket
  <2> QED BY <1>3, <2>1
<1> QED BY <1>2, <1>4

\* The server notices the end of a connection, or ends itself: what it had not
\* read is lost, and it has nobody logged in there.
LEMMA CutKeeps ==
    ASSUME SessionInv, AccountInv, AgreementInv,
           (\E k \in Socket : serverDisconnects(k)) \/ serverCrashes
    PROVE  AgreementInv'
<1>1. /\ ATypeOK /\ TypeOK /\ UNCHANGED <<conn, down, account_ui>>
      /\ \A k \in Socket : k # NoSocket
  BY NullAssumption DEF SessionInv, AccountInv, serverDisconnects, serverCrashes
<1> PICK cut \in SUBSET Socket : Cuts(cut)
  BY CutEffect
<1>2. /\ \A k \in cut : /\ up'[k] = <<>> /\ peer'[k] = NoSession
                        /\ \A t \in Session : clients'[t].socket # k
      /\ \A k \in Socket \ cut :
            /\ up'[k] = up[k] /\ peer'[k] = peer[k]
            /\ \A t \in Session : /\ clients'[t].socket = k <=> clients[t].socket = k
                                  /\ clients'[t].socket = k => clients'[t] = clients[t]
  BY DEF Cuts
<1>3. SocketsOwned'
  BY <1>1, <1>2 DEF AgreementInv, SocketsOwned
<1>4. ASSUME NEW k \in Socket PROVE LineOK(k)'
  <2>1. LineOK(k)
    BY DEF AgreementInv
  <2>2. CASE k \in cut
    <3>1. \A s \in Session : peer'[k] # s
      BY <1>2, <2>2, NullAssumption
    <3> QED BY <1>1, <1>2, <2>1, <2>2, <3>1, EmptyQueues DEF LineOK
  <2>3. CASE k \notin cut
    BY <1>1, <1>2, <2>1, <2>3 DEF LineOK
  <2> QED BY <2>2, <2>3
<1>5. ASSUME NEW t \in Session, NEW k \in Socket PROVE WindowOK(t, k)'
  <2>1. WindowOK(t, k) /\ Plain(down[k])
    BY DEF AgreementInv, LineOK
  <2>2. CASE k \in cut
    <3>1. ASSUME conn[t] = k PROVE Fits(account_ui[t], down[k], <<>>)
      <4>1. Fits(account_ui[t], down[k], up[k])
        BY <2>1, <3>1 DEF WindowOK
      <4>2. down[k] \in Seq(ReplyTypes) /\ up[k] \in Seq(RequestType)
        BY <1>1 DEF ATypeOK
      <4> QED BY <2>1, <4>1, <4>2, FitsCut
    <3> QED BY <1>1, <1>2, <2>2, <3>1 DEF WindowOK
  <2>3. CASE k \notin cut
    BY <1>1, <1>2, <2>1, <2>3 DEF WindowOK
  <2> QED BY <2>2, <2>3
<1> QED BY <1>3, <1>4, <1>5 DEF AgreementInv

-----------------------------------------------------------------------------
(* The theorems. *)

\* A button is pressed on the connection that the client holds.
LEMMA ButtonKeeps ==
    ASSUME AccountInv, AgreementInv, NEW s \in Session,
           (\E u \in User : login(s, u)) \/ (\E n \in Name : registerAccount(s, n)) \/ logout_(s)
    PROVE  AgreementInv'
<1> PICK k : k = conn[s]
  OBVIOUS
<1>1. Press(s)
  BY DEF login, registerAccount, logout_
<1>2. /\ k \in Socket /\ k = conn[s] /\ ~account_ui[s].busy /\ UNCHANGED <<vars, conn, down>>
      /\ Consistent(account_ui[s]) /\ account_ui[s] \in AccountUi
  BY <1>1 DEF Press, AccountInv, ATypeOK
<1>3. ASSUME NEW u \in User, login(s, u) PROVE AgreementInv'
  <2>1. PICK r : r = LoginRequest(u)
    OBVIOUS
  <2>2. PICK b : b = Pending([account_ui[s] EXCEPT !.profile = NoUser], "Login")
    OBVIOUS
  <2>3. r \in RequestType /\ r.type = "LOGIN_USER"
    BY <2>1, RequestTypes DEF LoginRequest, Request
  <2>4. ~account_ui[s].loggedIn /\ ~b.loggedIn /\ b.pending = "Login"
    BY <1>2, <1>3, <2>2 DEF login, Consistent, AccountUi, Pending
  <2>5. /\ up' = [up EXCEPT ![k] = Append(@, r)]
        /\ account_ui' = [account_ui EXCEPT ![s] = b]
    BY <1>2, <1>3, <2>1, <2>2 DEF login, Send
  <2> QED BY <1>2, <2>3, <2>4, <2>5, PressKeeps
<1>4. ASSUME NEW n \in Name, registerAccount(s, n) PROVE AgreementInv'
  <2>1. PICK r : r = RegisterRequest(n)
    OBVIOUS
  <2>2. PICK b : b = Pending([account_ui[s] EXCEPT !.profile = NoUser], "Register")
    OBVIOUS
  <2>3. r \in RequestType /\ r.type = "REGISTER_USER"
    BY <2>1, RequestTypes DEF RegisterRequest, Request
  <2>4. ~account_ui[s].loggedIn /\ ~b.loggedIn /\ b.pending = "Register"
    BY <1>2, <1>4, <2>2 DEF registerAccount, Consistent, AccountUi, Pending
  <2>5. /\ up' = [up EXCEPT ![k] = Append(@, r)]
        /\ account_ui' = [account_ui EXCEPT ![s] = b]
    BY <1>2, <1>4, <2>1, <2>2 DEF registerAccount, Send
  <2> QED BY <1>2, <2>3, <2>4, <2>5, PressKeeps
<1>5. ASSUME logout_(s) PROVE AgreementInv'
  <2>1. PICK r : r = Request("LOGOUT_USER")
    OBVIOUS
  <2>2. PICK b : b = Pending(account_ui[s], "Logout")
    OBVIOUS
  <2>3. r \in RequestType /\ r.type = "LOGOUT_USER"
    BY <2>1, RequestTypes DEF Request
  <2>4. /\ account_ui[s].loggedIn /\ b.profile = account_ui[s].profile
        /\ b.pending = "Logout"
    BY <1>2, <1>5, <2>2 DEF logout_, AccountUi, Pending
  <2>5. /\ up' = [up EXCEPT ![k] = Append(@, r)]
        /\ account_ui' = [account_ui EXCEPT ![s] = b]
    BY <1>2, <1>5, <2>1, <2>2 DEF logout_, Send
  <2> QED BY <1>2, <2>3, <2>4, <2>5, PressKeeps
<1> QED BY <1>3, <1>4, <1>5

\* What the invariant speaks of, a restart of the server leaves alone.
LEMMA RestKeeps ==
    ASSUME AgreementInv, UNCHANGED <<peer, clients, client>>
    PROVE  AgreementInv'
  BY DEF client, AgreementInv, SocketsOwned, LineOK, WindowOK

\* One step of the composition keeps the agreement of windows and server.
LEMMA AgreementStep ==
    ASSUME ~Lookups, ~ChatInput, SessionInv, AccountInv, AgreementInv, [ANext]_avars
    PROVE  AgreementInv'
<1>1. ASSUME NEW s \in Session, ClientStep(s) PROVE AgreementInv'
  <2>1. CASE \/ \E u \in User : login(s, u)
             \/ \E n \in Name : registerAccount(s, n)
             \/ logout_(s)
    BY <2>1, ButtonKeeps
  <2>2. CASE showLogin(s) \/ showRegister(s)
    BY <2>2, PageKeeps
  <2>3. CASE \E k \in Socket : connectTo(s, k)
    BY <2>3, ConnectKeeps
  <2>4. CASE onDisconnected(s)
    BY <2>4, DisconnectKeeps
  <2>5. CASE onReadyRead(s)
    BY <2>5, ReadKeeps
  <2>6. ~sendMessage(s) /\ \A u \in User : ~resolveUser(s, u)
    BY DEF sendMessage, resolveUser
  <2> QED BY <1>1, <2>1, <2>2, <2>3, <2>4, <2>5, <2>6 DEF ClientStep
<1>2. ASSUME NEW k \in Socket, ServerStep(k) PROVE AgreementInv'
  BY <1>2, ServeKeeps, CutKeeps DEF ServerStep
<1>3. CASE serverCrashes
  BY <1>3, CutKeeps
<1>4. CASE serverStarts
  BY <1>4, RestKeeps DEF serverStarts, start
<1>5. CASE UNCHANGED avars
  BY <1>5, RestKeeps DEF avars, vars
<1> QED BY <1>1, <1>2, <1>3, <1>4, <1>5 DEF ANext

\* Nobody is connected at first, and nothing is under way.
LEMMA AgreementInit == AInit => AgreementInv
<1> SUFFICES ASSUME AInit PROVE AgreementInv
  OBVIOUS
<1>1. \A s \in Session, k \in Socket : conn[s] = NoSocket /\ conn[s] # k
  BY NullAssumption DEF AInit
<1>2. \A k \in Socket : up[k] = <<>> /\ down[k] = <<>>
  BY DEF AInit
<1>3. \A k \in Socket : LineOK(k)
  BY <1>2, EmptyQueues DEF LineOK
<1>4. SocketsOwned
  <2>1. \A s, t \in Session : conn[s] = NoSocket
    BY DEF AInit
  <2> QED BY <1>1, <2>1 DEF SocketsOwned
<1>5. \A s \in Session, k \in Socket : WindowOK(s, k)
  BY <1>1 DEF WindowOK
<1> QED BY <1>3, <1>4, <1>5 DEF AgreementInv

\* A client whose account window alone makes requests shows a user as logged in
\* only while the server has that user authorized on its session, although any
\* result completes whatever is pending (AccountManager.cpp:125), connections end
\* at any time, and the server notices it late.
THEOREM LoginsAgree == ~Lookups /\ ~ChatInput => (ASpec => []LoggedInIsAuthorized)
<1> SUFFICES ASSUME ~Lookups, ~ChatInput PROVE ASpec => []LoggedInIsAuthorized
  OBVIOUS
<1>1. SessionInv /\ AccountInv /\ AgreementInv => LoggedInIsAuthorized
  <2> SUFFICES ASSUME SessionInv, AccountInv, AgreementInv, NEW s \in Session,
                      account_ui[s].loggedIn, Live(s), account_ui[s].pending # "Logout"
               PROVE  Authorized(s) /\ clients[s].userId = account_ui[s].profile
    BY DEF LoggedInIsAuthorized
  <2>1. conn[s] \in Socket /\ clients[s].socket = conn[s]
    BY DEF Live, AccountInv, ATypeOK
  <2>2. account_ui[s].pending = "None" /\ account_ui[s].profile # NoUser
    BY DEF AccountInv, Consistent
  <2>3. WindowOK(s, conn[s])
    BY <2>1 DEF AgreementInv
  <2>4. HasUser(clients[s], account_ui[s].profile)
    BY <2>1, <2>2, <2>3 DEF WindowOK, Agrees
  <2> QED BY <2>2, <2>4 DEF HasUser, Authorized
<1>2. AgreementInv /\ (SessionInv /\ AccountInv) /\ [ANext]_avars => AgreementInv'
  BY AgreementStep
<1> QED BY <1>1, <1>2, AgreementInit, AccountInvariant, PTL DEF ASpec

\* Two such clients never show the same user as logged in: the server's exclusive
\* login reaches the windows.
THEOREM SharedByNobody == ~Lookups /\ ~ChatInput => (ASpec => []NoSharedAccount)
<1>1. SessionInv /\ LoggedInIsAuthorized => NoSharedAccount
  BY DEF SessionInv, OneSessionPerUser, LoggedInIsAuthorized, NoSharedAccount
<1> QED BY <1>1, LoginsAgree, AccountInvariant, PTL

\* Nor does such a client go on showing a user once the server has logged its
\* session out and nothing is under way.
THEOREM LogoutsAgree == ~Lookups /\ ~ChatInput => (ASpec => []LogoutClearsSession)
<1>1. AccountInv /\ LoggedInIsAuthorized => LogoutClearsSession
  BY DEF AccountInv, Consistent, LoggedInIsAuthorized, LogoutClearsSession
<1> QED BY <1>1, LoginsAgree, AccountInvariant, PTL

-----------------------------------------------------------------------------
(* A busy client.  Of the packets that its connection carries, one will end *)
(* what is pending, as long as the server holds the connection too: a      *)
(* request that is answered so, or the answer.  While the handshake is     *)
(* still to be read it is the first packet, so no request is dropped.      *)

\* The requests whose answers end an action, and the answers that do.
Asked(action) ==
    IF action = "FetchProfile" THEN {"GET_USER_PROFILE"}
    ELSE {"LOGIN_USER", "REGISTER_USER", "LOGOUT_USER"}

Ended(action, p) ==
    IF action = "FetchProfile"
    THEN p.type = "USER_PROFILE_DATA" \/ (p.type = "OPERATION_RESULT" /\ ~p.success)
    ELSE p.type = "OPERATION_RESULT"

AskedIn(action, u) == \E i \in 1..Len(u) : u[i].type \in Asked(action)
EndedIn(action, d) == \E i \in 1..Len(d) : Ended(action, d[i])

Awaited(action, d, u) == action # "None" => AskedIn(action, u) \/ EndedIn(action, d)

OneConnection == \A s \in Session, k \in Socket : peer[k] = s => conn[s] \in {k, NoSocket}

WaitOK(s, k) == conn[s] = k /\ peer[k] = s =>
    /\ clients[s].socket # k => up[k] # <<>> /\ Head(up[k]).type = "CONNECT_CLIENT"
    /\ Awaited(account_ui[s].pending, down[k], up[k])

WaitInv ==
    /\ SocketsOwned
    /\ OneConnection
    /\ \A s \in Session, k \in Socket : WaitOK(s, k)

\* A queue that grows at its end keeps what it has, and gains what it is given.
LEMMA AwaitedGrows ==
    ASSUME NEW action, NEW d \in Seq(ReplyTypes), NEW u \in Seq(RequestType),
           NEW r \in RequestType, NEW q \in ReplyTypes
    PROVE  /\ Awaited(action, d, u) => Awaited(action, d, Append(u, r))
           /\ r.type \in Asked(action) => Awaited(action, d, Append(u, r))
           /\ EndedIn(action, d) => EndedIn(action, d \o <<q>>)
           /\ Ended(action, q) => EndedIn(action, d \o <<q>>)
<1>1. PICK v, n : v = Append(u, r) /\ n = Len(u)
  OBVIOUS
<1>2. n \in Nat /\ Len(v) = n + 1 /\ v[n + 1] = r /\ \A i \in 1..n : v[i] = u[i]
  BY <1>1, AppendProperties, LenProperties
<1>3. n + 1 \in 1..Len(v) /\ \A i \in 1..n : i \in 1..Len(v)
  BY <1>2
<1>4. AskedIn(action, u) => AskedIn(action, v)
  BY <1>1, <1>2, <1>3 DEF AskedIn
<1>5. r.type \in Asked(action) => AskedIn(action, v)
  BY <1>2, <1>3 DEF AskedIn
<1>6. PICK e, m : e = d \o <<q>> /\ m = Len(d)
  OBVIOUS
<1>7. m \in Nat /\ Len(e) = m + 1 /\ e[m + 1] = q /\ \A i \in 1..m : e[i] = d[i]
  BY <1>6
<1>8. m + 1 \in 1..Len(e) /\ \A i \in 1..m : i \in 1..Len(e)
  BY <1>7
<1>9. EndedIn(action, d) => EndedIn(action, e)
  BY <1>6, <1>7, <1>8 DEF EndedIn
<1>10. Ended(action, q) => EndedIn(action, e)
  BY <1>7, <1>8 DEF EndedIn
<1> QED BY <1>1, <1>4, <1>5, <1>6, <1>9, <1>10 DEF Awaited

\* A queue that loses its head keeps the rest.
LEMMA AwaitedLeft ==
    ASSUME NEW action, NEW d \in Seq(ReplyTypes), NEW u \in Seq(RequestType)
    PROVE  /\ u # <<>> /\ Head(u).type \notin Asked(action) /\ AskedIn(action, u)
                => AskedIn(action, Tail(u))
           /\ d # <<>> /\ ~Ended(action, Head(d)) /\ EndedIn(action, d)
                => EndedIn(action, Tail(d))
<1>1. ASSUME u # <<>>, Head(u).type \notin Asked(action), AskedIn(action, u)
      PROVE  AskedIn(action, Tail(u))
  <2>1. PICK v, n : v = Tail(u) /\ n = Len(v)
    OBVIOUS
  <2>2. /\ n \in Nat /\ Len(u) = n + 1 /\ Head(u) = u[1] /\ \A i \in 1..n : v[i] = u[i + 1]
    <3>1. /\ Len(u) \in Nat \ {0} /\ Len(v) = Len(u) - 1 /\ Head(u) = u[1]
          /\ \A i \in 1..Len(v) : v[i] = u[i + 1]
      BY <1>1, <2>1, HeadTailProperties, LenProperties, EmptySeq
    <3> QED BY <2>1, <3>1
  <2>3. PICK i \in 1..n + 1 : u[i].type \in Asked(action)
    BY <1>1, <2>2 DEF AskedIn
  <2>4. i - 1 \in 1..n /\ (i - 1) + 1 = i
    <3>1. i # 1
      BY <1>1, <2>2, <2>3
    <3> QED BY <2>2, <2>3, <3>1
  <2>5. v[i - 1] = u[i]
    BY <2>2, <2>4
  <2> QED BY <2>1, <2>3, <2>4, <2>5 DEF AskedIn
<1>2. ASSUME d # <<>>, ~Ended(action, Head(d)), EndedIn(action, d)
      PROVE  EndedIn(action, Tail(d))
  <2>1. PICK e, n : e = Tail(d) /\ n = Len(e)
    OBVIOUS
  <2>2. /\ n \in Nat /\ Len(d) = n + 1 /\ Head(d) = d[1] /\ \A i \in 1..n : e[i] = d[i + 1]
    <3>1. /\ Len(d) \in Nat \ {0} /\ Len(e) = Len(d) - 1 /\ Head(d) = d[1]
          /\ \A i \in 1..Len(e) : e[i] = d[i + 1]
      BY <1>2, <2>1, HeadTailProperties, LenProperties, EmptySeq
    <3> QED BY <2>1, <3>1
  <2>3. PICK i \in 1..n + 1 : Ended(action, d[i])
    BY <1>2, <2>2 DEF EndedIn
  <2>4. i - 1 \in 1..n /\ (i - 1) + 1 = i
    <3>1. i # 1
      BY <1>2, <2>2, <2>3
    <3> QED BY <2>2, <2>3, <3>1
  <2>5. e[i - 1] = d[i]
    BY <2>2, <2>4
  <2> QED BY <2>1, <2>3, <2>4, <2>5 DEF EndedIn
<1> QED BY <1>1, <1>2

\* A packet that does not end the action leaves it pending; an accepted login
\* becomes the fetch of the profile, which is asked for in the same step.
LEMMA AwaitedTaken ==
    ASSUME NEW a, Consistent(a), NEW p \in ReplyTypes
    PROVE  LET b == onPacketReceived(a, p) IN
           \/ b.pending = "None"
           \/ b.pending = a.pending /\ ~Ended(a.pending, p)
           \/ b.pending = "FetchProfile" /\ Followed(a, p)
<1>1. a \in AccountUi /\ p.type = "OPERATION_RESULT" => p.success \in BOOLEAN
  BY DEF ReplyTypes
<1> USE DEF Consistent, AccountUi
<1>2. CASE p.type = "OPERATION_RESULT"
  <2>1. onPacketReceived(a, p) = onOperationResultReceived(a, p.success)
    BY <1>2 DEF onPacketReceived
  <2> USE DEF onOperationResultReceived, Idle, LoginAccepted, LoginRefused, resetAuthorizationState
  <2>2. CASE a.pending = "Register"
    BY <1>2, <2>1, <2>2
  <2>3. CASE a.pending = "Login"
    BY <1>2, <2>1, <2>3 DEF Followed
  <2>4. CASE a.pending = "FetchProfile"
    BY <1>2, <2>1, <2>4 DEF Ended
  <2>5. CASE a.pending = "Logout"
    BY <1>2, <2>1, <2>5
  <2>6. CASE a.pending = "None"
    BY <1>2, <2>1, <2>6
  <2> QED BY <2>2, <2>3, <2>4, <2>5, <2>6
<1>3. CASE p.type = "USER_PROFILE_DATA"
  <2>1. onPacketReceived(a, p) = onCurrentUserProfileReceived(a, p.user)
    BY <1>3 DEF onPacketReceived
  <2> QED BY <1>3, <2>1 DEF onCurrentUserProfileReceived, Idle, Ended
<1>4. CASE p.type \notin {"OPERATION_RESULT", "USER_PROFILE_DATA"}
  BY <1>4 DEF onPacketReceived, Ended
<1> QED BY <1>2, <1>3, <1>4

\* A request that joins a queue does not become the next one.
LEMMA HeadKept ==
    ASSUME NEW u \in Seq(RequestType), u # <<>>, NEW r \in RequestType
    PROVE  Append(u, r) # <<>> /\ Head(Append(u, r)) = Head(u)
<1>1. PICK v : v = Append(u, r)
  OBVIOUS
<1>2. /\ v \in Seq(RequestType) /\ Len(v) = Len(u) + 1 /\ Len(u) \in Nat \ {0}
      /\ \A i \in 1..Len(u) : v[i] = u[i]
  BY <1>1, AppendProperties, LenProperties, EmptySeq
<1>3. v # <<>>
  BY <1>2, EmptySeq
<1>4. Head(v) = v[1] /\ Head(u) = u[1] /\ v[1] = u[1]
  BY <1>2, <1>3, HeadTailProperties
<1> QED BY <1>1, <1>3, <1>4

\* A step of the client on its connection: what it sends joins the queue behind
\* what is there.
LEMMA ClientWaits ==
    ASSUME ATypeOK, WaitInv, NEW s \in Session, NEW k \in Socket, conn[s] = k,
           NEW d, NEW u, NEW a, UNCHANGED <<peer, clients, conn>>,
           up' = [up EXCEPT ![k] = u], down' = [down EXCEPT ![k] = d],
           account_ui' = [account_ui EXCEPT ![s] = a],
           up[k] # <<>> => u # <<>> /\ Head(u) = Head(up[k]),
           Awaited(account_ui[s].pending, down[k], up[k]) => Awaited(a.pending, d, u)
    PROVE  WaitInv'
<1>1. /\ up'[k] = u /\ down'[k] = d /\ account_ui'[s] = a
      /\ \A j \in Socket \ {k} : up'[j] = up[j] /\ down'[j] = down[j]
      /\ \A t \in Session \ {s} : account_ui'[t] = account_ui[t]
  BY DEF ATypeOK
<1>2. SocketsOwned' /\ OneConnection'
  BY DEF WaitInv, SocketsOwned, OneConnection
<1>3. ASSUME NEW t \in Session, NEW j \in Socket PROVE WaitOK(t, j)'
  <2>1. WaitOK(t, j)
    BY DEF WaitInv
  <2>2. CASE t = s /\ j = k
    BY <1>1, <2>1, <2>2 DEF WaitOK
  <2>3. CASE t = s /\ j # k
    BY <2>3 DEF WaitOK
  <2>4. CASE t # s /\ j # k
    BY <1>1, <2>1, <2>4 DEF WaitOK
  <2>5. CASE t # s /\ j = k
    <3>1. conn[t] # k
      BY <2>5, NullAssumption DEF WaitInv, SocketsOwned
    <3> QED BY <2>5, <3>1 DEF WaitOK
  <2> QED BY <2>2, <2>3, <2>4, <2>5
<1> QED BY <1>2, <1>3 DEF WaitInv

\* A request joins the queue, and is waited for if the client is now.
LEMMA SentWaits ==
    ASSUME AccountInv, WaitInv, NEW s \in Session, conn[s] # NoSocket,
           UNCHANGED <<peer, clients, conn, down>>, NEW r \in RequestType, Send(s, r), NEW a,
           account_ui' = [account_ui EXCEPT ![s] = a],
           a.pending = account_ui[s].pending \/ r.type \in Asked(a.pending)
    PROVE  WaitInv'
<1>k. PICK k : k = conn[s]
  OBVIOUS
<1>1. /\ ATypeOK /\ k \in Socket /\ up[k] \in Seq(RequestType) /\ down[k] \in Seq(ReplyTypes)
      /\ up' = [up EXCEPT ![k] = Append(up[k], r)] /\ down' = [down EXCEPT ![k] = down[k]]
  BY <1>k DEF AccountInv, ATypeOK, Send
<1>2. PICK u : u = Append(up[k], r)
  OBVIOUS
<1>3. up[k] # <<>> => u # <<>> /\ Head(u) = Head(up[k])
  BY <1>1, <1>2, HeadKept
<1>4. \E q : q \in ReplyTypes
  <2>1. [type |-> "OPERATION_RESULT", success |-> TRUE, user |-> NoUser] \in ReplyTypes
    BY DEF ReplyTypes
  <2> QED BY <2>1
<1>5. Awaited(account_ui[s].pending, down[k], up[k]) => Awaited(a.pending, down[k], u)
  BY <1>1, <1>2, <1>4, AwaitedGrows
<1> QED BY <1>1, <1>2, <1>3, <1>5, <1>k, ClientWaits

\* The client takes a reply, and asks for the profile when its login is accepted.
LEMMA ReadWaits ==
    ASSUME AccountInv, WaitInv, NEW s \in Session, onReadyRead(s)
    PROVE  WaitInv'
<1>k. PICK k : k = conn[s]
  OBVIOUS
<1>p. PICK p : p = Head(down[k])
  OBVIOUS
<1>a. PICK a : a = account_ui[s]
  OBVIOUS
<1>b. PICK b : b = onPacketReceived(a, p)
  OBVIOUS
<1>1. /\ ATypeOK /\ k \in Socket /\ up[k] \in Seq(RequestType) /\ down[k] \in Seq(ReplyTypes)
      /\ down[k] # <<>> /\ UNCHANGED <<peer, clients, conn>> /\ Consistent(a)
      /\ down' = [down EXCEPT ![k] = Tail(down[k])]
      /\ account_ui' = [account_ui EXCEPT ![s] = b]
      /\ IF Followed(a, p) THEN up' = [up EXCEPT ![k] = Append(up[k], ProfileRequest)] ELSE up' = up
  BY <1>k, <1>p, <1>a, <1>b DEF AccountInv, ATypeOK, onReadyRead, Send, vars, Followed
<1>2. p \in ReplyTypes /\ Tail(down[k]) \in Seq(ReplyTypes)
  BY <1>1, <1>p, HeadTailProperties
<1>3. \/ b.pending = "None"
      \/ b.pending = a.pending /\ ~Ended(a.pending, p)
      \/ b.pending = "FetchProfile" /\ Followed(a, p)
  BY <1>1, <1>2, <1>b, AwaitedTaken
<1>4. CASE Followed(a, p)
  <2>1. PICK u : u = Append(up[k], ProfileRequest)
    OBVIOUS
  <2>2. ProfileRequest \in RequestType /\ ProfileRequest.type \in Asked("FetchProfile")
    BY RequestTypes DEF ProfileRequest, Request, Asked
  <2>3. Awaited("FetchProfile", Tail(down[k]), u)
    BY <1>1, <1>2, <2>1, <2>2, AwaitedGrows
  <2>4. Awaited(b.pending, Tail(down[k]), u)
    <3>1. b.pending = "FetchProfile"
      <4>1. a \in AccountUi /\ a.pending = "Login" /\ p.type = "OPERATION_RESULT" /\ p.success
        BY <1>1, <1>4 DEF Consistent, Followed
      <4>2. b = LoginAccepted(a)
        BY <1>b, <4>1 DEF onPacketReceived, onOperationResultReceived
      <4> QED BY <4>1, <4>2 DEF LoginAccepted, AccountUi
    <3> QED BY <2>3, <3>1 DEF Awaited
  <2>5. up[k] # <<>> => u # <<>> /\ Head(u) = Head(up[k])
    BY <1>1, <2>1, <2>2, HeadKept
  <2>6. up' = [up EXCEPT ![k] = u]
    BY <1>1, <1>4, <2>1
  <2> QED BY <1>1, <1>k, <2>4, <2>5, <2>6, ClientWaits
<1>5. CASE ~Followed(a, p)
  <2>1. up' = [up EXCEPT ![k] = up[k]]
    BY <1>1, <1>5 DEF ATypeOK
  <2>2. Awaited(a.pending, down[k], up[k]) => Awaited(b.pending, Tail(down[k]), up[k])
    <3>1. ~Ended(a.pending, p) /\ EndedIn(a.pending, down[k]) => EndedIn(a.pending, Tail(down[k]))
      BY <1>1, <1>p, AwaitedLeft
    <3> QED BY <1>3, <1>5, <3>1 DEF Awaited
  <2> QED BY <1>1, <1>a, <1>k, <2>1, <2>2, ClientWaits
<1> QED BY <1>4, <1>5

\* A client that connects waits for nothing, and its handshake is read first; the
\* server has no other connection of it.
LEMMA ConnectWaits ==
    ASSUME SessionInv, AccountInv, WaitInv, ~LateDisconnects,
           NEW s \in Session, NEW k \in Socket, connectTo(s, k)
    PROVE  WaitInv'
<1>1. /\ TypeOK /\ ATypeOK /\ k # NoSocket
      /\ conn[s] = NoSocket /\ (\A t \in Session : conn[t] # k) /\ (\A j \in Socket : peer[j] # s)
      /\ peer[k] = NoSession /\ peer' = [peer EXCEPT ![k] = s] /\ clients' = clients
      /\ conn' = [conn EXCEPT ![s] = k] /\ account_ui' = account_ui
      /\ up' = [up EXCEPT ![k] = <<Request("CONNECT_CLIENT")>>]
      /\ down' = [down EXCEPT ![k] = <<>>]
  BY NullAssumption DEF SessionInv, AccountInv, connectTo, onNewConnection
<1>2. /\ conn'[s] = k /\ \A t \in Session \ {s} : conn'[t] = conn[t]
      /\ peer'[k] = s /\ \A j \in Socket \ {k} : peer'[j] = peer[j]
      /\ up'[k] = <<Request("CONNECT_CLIENT")>>
      /\ \A j \in Socket \ {k} : up'[j] = up[j] /\ down'[j] = down[j]
  BY <1>1 DEF TypeOK, ATypeOK
<1>3. SocketsOwned'
  BY <1>1, <1>2 DEF WaitInv, SocketsOwned
<1>4. OneConnection'
  <2>1. ASSUME NEW t \in Session, NEW j \in Socket, peer'[j] = t PROVE conn'[t] \in {j, NoSocket}
    <3>1. CASE j = k
      BY <1>2, <2>1, <3>1
    <3>2. CASE j # k
      BY <1>1, <1>2, <2>1, <3>2 DEF WaitInv, OneConnection
    <3> QED BY <3>1, <3>2
  <2> QED BY <2>1 DEF OneConnection
<1>5. account_ui'[s].pending = "None"
  BY <1>1 DEF AccountInv, Consistent, SignedOff
<1>6. up'[k] # <<>> /\ Head(up'[k]).type = "CONNECT_CLIENT"
  BY <1>2 DEF Request
<1>7. ASSUME NEW t \in Session, NEW j \in Socket PROVE WaitOK(t, j)'
  <2>1. CASE t = s /\ j = k
    BY <1>5, <1>6, <2>1 DEF WaitOK, Awaited
  <2>2. CASE t = s /\ j # k
    BY <1>2, <2>2 DEF WaitOK
  <2>3. CASE t # s /\ j = k
    BY <1>1, <1>2, <2>3 DEF WaitOK
  <2>4. CASE t # s /\ j # k
    <3>1. WaitOK(t, j)
      BY DEF WaitInv
    <3> QED BY <1>1, <1>2, <2>4, <3>1 DEF WaitOK
  <2> QED BY <2>1, <2>2, <2>3, <2>4
<1> QED BY <1>3, <1>4, <1>7 DEF WaitInv

\* A client that loses its connection waits for nothing.
LEMMA DisconnectWaits ==
    ASSUME ATypeOK, WaitInv, NEW s \in Session, onDisconnected(s)
    PROVE  WaitInv'
<1>k. PICK k : k = conn[s]
  OBVIOUS
<1>1. /\ k \in Socket /\ conn' = [conn EXCEPT ![s] = NoSocket] /\ UNCHANGED <<peer, clients, up>>
      /\ \A j \in Socket \ {k} : down'[j] = down[j]
      /\ \A t \in Session \ {s} : account_ui'[t] = account_ui[t]
  BY <1>k DEF onDisconnected, vars, ATypeOK
<1>2. conn'[s] = NoSocket /\ \A t \in Session \ {s} : conn'[t] = conn[t]
  BY <1>1 DEF ATypeOK
<1>3. SocketsOwned' /\ OneConnection'
  BY <1>1, <1>2, NullAssumption DEF WaitInv, SocketsOwned, OneConnection
<1>4. ASSUME NEW t \in Session, NEW j \in Socket PROVE WaitOK(t, j)'
  <2>1. CASE t = s
    BY <1>2, <2>1, NullAssumption DEF WaitOK
  <2>2. CASE t # s /\ conn[t] = j
    <3>1. j # k
      BY <1>1, <1>k, <2>2, NullAssumption DEF WaitInv, SocketsOwned
    <3>2. WaitOK(t, j)
      BY DEF WaitInv
    <3> QED BY <1>1, <1>2, <2>2, <3>1, <3>2 DEF WaitOK
  <2>3. CASE t # s /\ conn[t] # j
    BY <1>2, <2>3 DEF WaitOK
  <2> QED BY <2>1, <2>2, <2>3
<1> QED BY <1>3, <1>4 DEF WaitInv

\* Where the server ends a connection nobody waits any more but for its end.
LEMMA CutWaits ==
    ASSUME SessionInv, AccountInv, WaitInv,
           (\E k \in Socket : serverDisconnects(k)) \/ serverCrashes
    PROVE  WaitInv'
<1> PICK cut \in SUBSET Socket : Cuts(cut)
  BY CutEffect
<1>1. UNCHANGED <<conn, down, account_ui>>
  BY CutEffect
<1>2. \A k \in cut, t \in Session : peer'[k] # t
  BY NullAssumption DEF Cuts
<1>3. SocketsOwned' /\ OneConnection'
  BY <1>1, <1>2 DEF WaitInv, SocketsOwned, OneConnection, Cuts
<1>4. ASSUME NEW t \in Session, NEW j \in Socket PROVE WaitOK(t, j)'
  <2>1. WaitOK(t, j)
    BY DEF WaitInv
  <2>2. CASE j \in cut
    BY <1>2, <2>2 DEF WaitOK
  <2>3. CASE j \notin cut
    BY <1>1, <2>1, <2>3 DEF WaitOK, Cuts
  <2> QED BY <2>2, <2>3
<1> QED BY <1>3, <1>4 DEF WaitInv

\* The handlers register a socket for the handshake only, and never take one away.
LEMMA ReadSockets ==
    ASSUME TypeOK, NEW k \in Socket, serverReads(k)
    PROVE  /\ peer[k] \in Session /\ peer' = peer
           /\ \A t \in Session : clients'[t].socket # clients[t].socket =>
                                    t = peer[k] /\ clients'[t].socket = k
           /\ Head(up[k]).type = "CONNECT_CLIENT" /\ clients[peer[k]].socket = NoSocket
                => clients'[peer[k]].socket = k
<1>s. PICK s : s = peer[k]
  OBVIOUS
<1>r. PICK r : r = Head(up[k])
  OBVIOUS
<1>1. \/ r.type = "CONNECT_CLIENT" /\ handleConnectClient(k)
      \/ r.type = "REGISTER_USER" /\ handleRegisterUser(k, r.name)
      \/ r.type = "LOGIN_USER" /\ handleLoginUser(k, r.user)
      \/ r.type = "LOGOUT_USER" /\ handleLogoutUser(k)
      \/ r.type = "GET_USER_PROFILE" /\ handleGetUserProfile(k)
      \/ r.type = "GET_USER_INFO" /\ handleGetUserInfo(k, r.user)
      \/ r.type = "CHAT_MESSAGE" /\ answerMessage(k, r.user)
  BY <1>r DEF serverReads
<1>2. s \in Session /\ clients \in [Session -> Connection]
  <2>1. peer[k] \in Session \cup {NoSession} /\ peer[k] # NoSession
    BY <1>1 DEF TypeOK, handleConnectClient, handleRegisterUser, handleLoginUser,
       handleLogoutUser, handleGetUserProfile, handleGetUserInfo, answerMessage
  <2> QED BY <1>s, <2>1 DEF TypeOK
<1>3. /\ Drop => UNCHANGED <<peer, clients>>
      /\ \A why : Refuse(s, why) => UNCHANGED <<peer, clients>>
  BY DEF Drop, Refuse, server
<1>4. (DropForeign(k) \/ RefuseUnauthorized(k)) => UNCHANGED <<peer, clients>>
  BY <1>3, <1>s DEF DropForeign, RefuseUnauthorized
<1>5. CASE r.type = "CONNECT_CLIENT" /\ handleConnectClient(k)
  <2>1. CASE Connected(s) /\ Drop
    BY <1>2, <1>3, <1>r, <1>s, <2>1 DEF Connected
  <2>2. CASE ~Connected(s) /\ clients' = [clients EXCEPT ![s] = [NoConnection EXCEPT !.socket = k]]
             /\ UNCHANGED peer
    BY <1>2, <1>s, <2>2 DEF NoConnection
  <2> QED BY <1>5, <1>s, <2>1, <2>2 DEF handleConnectClient
<1>6. CASE r.type = "REGISTER_USER" /\ handleRegisterUser(k, r.name)
  <2>1. UNCHANGED <<peer, clients>>
    BY <1>3, <1>4, <1>6, <1>s DEF handleRegisterUser, server
  <2> QED BY <1>2, <1>6, <1>r, <1>s, <2>1
<1>7. CASE r.type = "LOGIN_USER" /\ handleLoginUser(k, r.user)
  <2>1. /\ peer' = peer
        /\ clients' = clients \/ clients' = [clients EXCEPT ![s] = authorize(@, r.user)]
    BY <1>3, <1>4, <1>7, <1>s DEF handleLoginUser, server
  <2>2. authorize(clients[s], r.user).socket = clients[s].socket
    BY <1>2 DEF authorize, Connection
  <2> QED BY <1>2, <1>7, <1>r, <1>s, <2>1, <2>2
<1>8. CASE r.type = "LOGOUT_USER" /\ handleLogoutUser(k)
  <2>1. /\ peer' = peer
        /\ clients' = clients \/ clients' = [clients EXCEPT ![s] = logout(@)]
    BY <1>3, <1>4, <1>8, <1>s DEF handleLogoutUser, server
  <2>2. logout(clients[s]).socket = clients[s].socket
    BY <1>2 DEF logout, Connection
  <2> QED BY <1>2, <1>8, <1>r, <1>s, <2>1, <2>2
<1>9. CASE r.type = "GET_USER_PROFILE" /\ handleGetUserProfile(k)
  <2>1. UNCHANGED <<peer, clients>>
    BY <1>3, <1>4, <1>9, <1>s DEF handleGetUserProfile, server
  <2> QED BY <1>2, <1>9, <1>r, <1>s, <2>1
<1>10. CASE r.type = "GET_USER_INFO" /\ handleGetUserInfo(k, r.user)
  <2>1. UNCHANGED <<peer, clients>>
    BY <1>3, <1>4, <1>10, <1>s DEF handleGetUserInfo, server
  <2> QED BY <1>2, <1>10, <1>r, <1>s, <2>1
<1>11. CASE r.type = "CHAT_MESSAGE" /\ answerMessage(k, r.user)
  <2>1. UNCHANGED <<peer, clients>>
    BY <1>3, <1>11, <1>s DEF answerMessage
  <2> QED BY <1>2, <1>11, <1>r, <1>s, <2>1
<1> QED BY <1>1, <1>5, <1>6, <1>7, <1>8, <1>9, <1>10, <1>11
\* What the server writes joins the end of a queue.
LEMMA RepliesJoin ==
    ASSUME TypeOK', ATypeOK, Deliver, NEW k \in Socket, NEW action, EndedIn(action, down[k])
    PROVE  EndedIn(action, down'[k])
<1>1. down[k] \in Seq(ReplyTypes)
  BY DEF ATypeOK
<1>2. \/ down'[k] = down[k]
      \/ \E t \in Session : down'[k] = down[k] \o Replies(sent'[t])
  BY DEF Deliver
<1>3. ASSUME NEW t \in Session, down'[k] = down[k] \o Replies(sent'[t])
      PROVE  EndedIn(action, down'[k])
  <2>1. sent'[t] \in Seq(Packet)
    BY DEF TypeOK
  <2>2. PICK e : e = Replies(sent'[t])
    OBVIOUS
  <2>3. e \in Seq(ReplyTypes)
    BY <2>1, <2>2, RepliesType
  <2>4. PICK d, f : d = down[k] /\ f = down'[k]
    OBVIOUS
  <2>5. /\ f = d \o e /\ Len(f) = Len(d) + Len(e) /\ Len(d) \in Nat /\ Len(e) \in Nat
        /\ \A i \in 1..Len(d) : f[i] = d[i]
    <3>1. d \in Seq(ReplyTypes) /\ f = d \o e
      BY <1>1, <1>3, <2>2, <2>4
    <3>2. Len(d \o e) = Len(d) + Len(e) /\ \A i \in 1..Len(d) : (d \o e)[i] = d[i]
      BY <2>3, <3>1
    <3> QED BY <2>3, <3>1, <3>2, LenProperties
  <2>6. \A i \in 1..Len(d) : i \in 1..Len(f)
    BY <2>5
  <2> QED BY <2>4, <2>5, <2>6 DEF EndedIn
<1> QED BY <1>2, <1>3

\* The server reads a request of a connection it has: it registers the socket
\* first, and what ends an action is answered by what ends it.
LEMMA HeldServed ==
    ASSUME SessionInv, SessionInv', AccountInv, WaitInv,
           NEW s \in Session, NEW k \in Socket, conn[s] = k, peer[k] = s, serverReads(k)
    PROVE  clients'[s].socket = k /\ Awaited(account_ui[s].pending, down'[k], Tail(up[k]))
<1>a. PICK a : a = account_ui[s].pending
  OBVIOUS
<1>1. /\ TypeOK /\ TypeOK' /\ ATypeOK /\ k # NoSocket /\ Deliver
      /\ up[k] \in Seq(RequestType) /\ up[k] # <<>> /\ down[k] \in Seq(ReplyTypes)
  BY NullAssumption DEF SessionInv, AccountInv, ATypeOK, serverReads
<1>2. /\ clients[s].socket # k => Head(up[k]).type = "CONNECT_CLIENT"
      /\ Awaited(a, down[k], up[k])
  BY <1>a DEF WaitInv, WaitOK
<1>3. clients[s].socket \in {k, NoSocket}
  BY <1>1 DEF SessionInv, NoDanglingSocket, Connected, WaitInv, OneConnection, TypeOK, Connection
<1>4. clients'[s].socket = k
  <2>1. /\ clients'[s].socket # clients[s].socket => clients'[s].socket = k
        /\ Head(up[k]).type = "CONNECT_CLIENT" /\ clients[s].socket = NoSocket
             => clients'[s].socket = k
    BY <1>1, ReadSockets
  <2> QED BY <1>2, <1>3, <2>1
<1>5. ASSUME a # "None", Head(up[k]).type \in Asked(a)
      PROVE  EndedIn(a, down'[k])
  <2>1. Head(up[k]).type \notin {"CONNECT_CLIENT", "GET_USER_INFO", "CHAT_MESSAGE"}
    BY <1>5 DEF Asked
  <2>2. clients[s].socket = k
    BY <1>2, <2>1
  <2>3. InTurn(k)
    BY <2>1, <2>2 DEF InTurn
  <2>4. Outcome(k, s)
    BY <1>1, <2>3, ReadOutcome
  <2>5. SocketsOwned
    BY DEF WaitInv
  <2>6. PICK q \in ReplyTypes :
          AnsweredBy(k, s, q) /\ down'[k] = IF conn[s] = k THEN down[k] \o <<q>> ELSE down[k]
    <3>1. ~Ignored(k, s)
      BY <2>2 DEF Ignored
    <3> QED BY <1>1, <2>4, <2>5, <3>1, Delivered
  <2>7. Ended(a, q)
    <3>1. Answers(Head(up[k]), q)
      BY <2>6 DEF AnsweredBy
    <3> QED BY <1>5, <3>1 DEF Answers, Asked, Ended
  <2>8. EndedIn(a, down[k] \o <<q>>)
    <3>1. up[k] # <<>> /\ Head(up[k]) \in RequestType
      BY <1>1, HeadTailProperties
    <3> QED BY <1>1, <2>7, <3>1, AwaitedGrows
  <2> QED BY <2>6, <2>8
<1>6. ASSUME a # "None", Head(up[k]).type \notin Asked(a), AskedIn(a, up[k])
      PROVE  AskedIn(a, Tail(up[k]))
  BY <1>1, <1>6, AwaitedLeft
<1>7. EndedIn(a, down[k]) => EndedIn(a, down'[k])
  BY <1>1, RepliesJoin
<1>8. Awaited(a, down'[k], Tail(up[k]))
  BY <1>2, <1>5, <1>6, <1>7 DEF Awaited
<1> QED BY <1>4, <1>8, <1>a

\* The server reads a request.
LEMMA ServeWaits ==
    ASSUME SessionInv, SessionInv', AccountInv, WaitInv, NEW k \in Socket, serverReads(k)
    PROVE  WaitInv'
<1>s. PICK s : s = peer[k]
  OBVIOUS
<1>1. /\ TypeOK /\ TypeOK' /\ ATypeOK /\ Deliver /\ UNCHANGED <<conn, account_ui>>
      /\ up'[k] = Tail(up[k]) /\ \A j \in Socket \ {k} : up'[j] = up[j]
  BY DEF SessionInv, AccountInv, ATypeOK, serverReads
<1>2. /\ s \in Session /\ peer' = peer
      /\ \A t \in Session : clients'[t].socket # clients[t].socket => t = s
  BY <1>1, <1>s, ReadSockets
<1>3. SocketsOwned' /\ OneConnection'
  BY <1>1, <1>2 DEF WaitInv, SocketsOwned, OneConnection
<1>4. ASSUME NEW t \in Session, NEW j \in Socket PROVE WaitOK(t, j)'
  <2> SUFFICES ASSUME conn[t] = j, peer[j] = t
               PROVE  /\ clients'[t].socket # j
                          => up'[j] # <<>> /\ Head(up'[j]).type = "CONNECT_CLIENT"
                      /\ Awaited(account_ui[t].pending, down'[j], up'[j])
    BY <1>1, <1>2 DEF WaitOK
  <2>1. CASE j = k
    BY <1>1, <1>s, <2>1, HeldServed
  <2>2. CASE j # k
    <3>1. WaitOK(t, j)
      BY DEF WaitInv
    <3>2. t # s
      BY <1>s, <1>2, <2>2, NullAssumption DEF WaitInv, OneConnection
    <3>3. clients'[t].socket = clients[t].socket /\ up'[j] = up[j]
      BY <1>1, <1>2, <2>2, <3>2
    <3>4. \A action : EndedIn(action, down[j]) => EndedIn(action, down'[j])
      BY <1>1, RepliesJoin
    <3>5. /\ clients[t].socket # j => up[j] # <<>> /\ Head(up[j]).type = "CONNECT_CLIENT"
          /\ Awaited(account_ui[t].pending, down[j], up[j])
      BY <3>1 DEF WaitOK
    <3>6. Awaited(account_ui[t].pending, down'[j], up[j])
      BY <3>4, <3>5 DEF Awaited
    <3> QED BY <3>3, <3>5, <3>6
  <2> QED BY <2>1, <2>2
<1> QED BY <1>3, <1>4 DEF WaitInv

\* A button: its request is waited for.
LEMMA ButtonWaits ==
    ASSUME AccountInv, WaitInv, NEW s \in Session,
           (\E u \in User : login(s, u)) \/ (\E n \in Name : registerAccount(s, n)) \/ logout_(s)
    PROVE  WaitInv'
<1>1. Press(s)
  BY DEF login, registerAccount, logout_
<1>2. /\ conn[s] # NoSocket /\ UNCHANGED <<peer, clients, conn, down>>
      /\ account_ui[s] \in AccountUi
  BY <1>1 DEF Press, vars, AccountInv, ATypeOK
<1>3. ASSUME NEW u \in User, login(s, u) PROVE WaitInv'
  <2>1. PICK r, b : /\ r = LoginRequest(u)
                    /\ b = Pending([account_ui[s] EXCEPT !.profile = NoUser], "Login")
    OBVIOUS
  <2>2. r \in RequestType /\ r.type \in Asked(b.pending)
    BY <1>2, <2>1, RequestTypes DEF LoginRequest, Request, Pending, AccountUi, Asked
  <2>3. Send(s, r) /\ account_ui' = [account_ui EXCEPT ![s] = b]
    BY <1>3, <2>1 DEF login
  <2> QED BY <1>2, <2>2, <2>3, SentWaits
<1>4. ASSUME NEW n \in Name, registerAccount(s, n) PROVE WaitInv'
  <2>1. PICK r, b : /\ r = RegisterRequest(n)
                    /\ b = Pending([account_ui[s] EXCEPT !.profile = NoUser], "Register")
    OBVIOUS
  <2>2. r \in RequestType /\ r.type \in Asked(b.pending)
    BY <1>2, <2>1, RequestTypes DEF RegisterRequest, Request, Pending, AccountUi, Asked
  <2>3. Send(s, r) /\ account_ui' = [account_ui EXCEPT ![s] = b]
    BY <1>4, <2>1 DEF registerAccount
  <2> QED BY <1>2, <2>2, <2>3, SentWaits
<1>5. ASSUME logout_(s) PROVE WaitInv'
  <2>1. PICK r, b : r = Request("LOGOUT_USER") /\ b = Pending(account_ui[s], "Logout")
    OBVIOUS
  <2>2. r \in RequestType /\ r.type \in Asked(b.pending)
    BY <1>2, <2>1, RequestTypes DEF Request, Pending, AccountUi, Asked
  <2>3. Send(s, r) /\ account_ui' = [account_ui EXCEPT ![s] = b]
    BY <1>5, <2>1 DEF logout_
  <2> QED BY <1>2, <2>2, <2>3, SentWaits
<1> QED BY <1>3, <1>4, <1>5

\* The chat box and the user resolver send while whatever is pending is pending.
LEMMA MeanwhileWaits ==
    ASSUME AccountInv, WaitInv, NEW s \in Session,
           sendMessage(s) \/ \E u \in User : resolveUser(s, u)
    PROVE  WaitInv'
<1>1. PICK a : a = account_ui[s]
  OBVIOUS
<1>2. /\ conn[s] # NoSocket /\ UNCHANGED <<peer, clients, conn, down>>
      /\ account_ui' = [account_ui EXCEPT ![s] = a] /\ a \in AccountUi
  BY <1>1 DEF sendMessage, resolveUser, canSendMessages, vars, AccountInv, ATypeOK
<1>3. \E r \in RequestType : Send(s, r)
  <2>1. MessageRequest(account_ui[s].profile) \in RequestType
    BY <1>1, <1>2, RequestTypes DEF AccountUi
  <2> QED BY <2>1, RequestTypes DEF sendMessage, resolveUser
<1> QED BY <1>1, <1>2, <1>3, SentWaits

\* Turning a page, and a restart of the server, change nothing that is waited for.
LEMMA RestWaits ==
    ASSUME WaitInv, UNCHANGED <<peer, clients, conn, up, down>>,
           \A t \in Session : account_ui'[t].pending = account_ui[t].pending
    PROVE  WaitInv'
<1>1. SocketsOwned' /\ OneConnection'
  BY DEF WaitInv, SocketsOwned, OneConnection
<1>2. ASSUME NEW t \in Session, NEW k \in Socket PROVE WaitOK(t, k)'
  <2>1. WaitOK(t, k)
    BY DEF WaitInv
  <2> QED BY <2>1 DEF WaitOK
<1> QED BY <1>1, <1>2 DEF WaitInv

\* One step of the composition leaves what is waited for under way.
LEMMA WaitStep ==
    ASSUME ~LateDisconnects, SessionInv, SessionInv', AccountInv, WaitInv, [ANext]_avars
    PROVE  WaitInv'
<1>1. ASSUME NEW s \in Session, ClientStep(s) PROVE WaitInv'
  <2>1. CASE \/ \E u \in User : login(s, u)
             \/ \E n \in Name : registerAccount(s, n)
             \/ logout_(s)
    BY <2>1, ButtonWaits
  <2>2. CASE sendMessage(s) \/ \E u \in User : resolveUser(s, u)
    BY <2>2, MeanwhileWaits
  <2>3. CASE showLogin(s) \/ showRegister(s)
    <3>1. UNCHANGED <<peer, clients, conn, up, down>>
      BY <2>3 DEF showLogin, showRegister, vars
    <3>2. \A t \in Session : account_ui'[t].pending = account_ui[t].pending
      <4>1. account_ui \in [Session -> AccountUi]
        BY DEF AccountInv, ATypeOK
      <4> QED BY <2>3, <4>1 DEF showLogin, showRegister, AccountUi
    <3> QED BY <3>1, <3>2, RestWaits
  <2>4. CASE \E k \in Socket : connectTo(s, k)
    BY <2>4, ConnectWaits
  <2>5. CASE onDisconnected(s)
    BY <2>5, DisconnectWaits DEF AccountInv
  <2>6. CASE onReadyRead(s)
    BY <2>6, ReadWaits
  <2> QED BY <1>1, <2>1, <2>2, <2>3, <2>4, <2>5, <2>6 DEF ClientStep
<1>2. ASSUME NEW k \in Socket, ServerStep(k) PROVE WaitInv'
  BY <1>2, ServeWaits, CutWaits DEF ServerStep
<1>3. CASE serverCrashes
  BY <1>3, CutWaits
<1>4. CASE serverStarts
  BY <1>4, RestWaits DEF serverStarts, start, client
<1>5. CASE UNCHANGED avars
  BY <1>5, RestWaits DEF avars, vars, client
<1> QED BY <1>1, <1>2, <1>3, <1>4, <1>5 DEF ANext

\* Nobody is connected at first.
LEMMA WaitInit == AInit => WaitInv
<1> SUFFICES ASSUME AInit PROVE WaitInv
  OBVIOUS
<1>1. \A s \in Session, k \in Socket : conn[s] = NoSocket /\ conn[s] # k
  BY NullAssumption DEF AInit
<1>2. SocketsOwned
  <2>1. \A s, t \in Session : conn[s] = NoSocket
    BY DEF AInit
  <2> QED BY <1>1, <2>1 DEF SocketsOwned
<1> QED BY <1>1, <1>2 DEF WaitInv, OneConnection, WaitOK

\* A client that shows it is busy waits for something that is under way, whatever
\* else it sends meanwhile and whenever connections end, if a client is not back
\* before the server has noticed that it left.
THEOREM BusyInProgress == ~LateDisconnects => (ASpec => []BusyMeansInProgress)
<1> SUFFICES ASSUME ~LateDisconnects PROVE ASpec => []BusyMeansInProgress
  OBVIOUS
<1>1. AccountInv /\ SessionInv /\ WaitInv => BusyMeansInProgress
  <2> SUFFICES ASSUME AccountInv, SessionInv, WaitInv, NEW s \in Session, account_ui[s].busy
               PROVE  up[conn[s]] # <<>> \/ down[conn[s]] # <<>> \/ ConnectionLost(s)
    BY DEF BusyMeansInProgress
  <2> PICK k : k = conn[s]
    OBVIOUS
  <2>1. account_ui[s].pending # "None" /\ k \in Socket
    BY DEF AccountInv, Consistent, SignedOff, ATypeOK
  <2>2. peer[k] \in {s, NoSession}
    BY <2>1, NullAssumption DEF SessionInv, TypeOK, WaitInv, SocketsOwned
  <2>3. ASSUME peer[k] = s PROVE up[k] # <<>> \/ down[k] # <<>>
    <3>1. WaitOK(s, k)
      BY <2>1 DEF WaitInv
    <3>2. \/ AskedIn(account_ui[s].pending, up[k])
          \/ EndedIn(account_ui[s].pending, down[k])
      BY <2>1, <2>3, <3>1 DEF WaitOK, Awaited
    <3>3. \A i \in 1..Len(<<>>) : FALSE
      OBVIOUS
    <3> QED BY <3>2, <3>3 DEF AskedIn, EndedIn
  <2>4. ASSUME peer[k] = NoSession PROVE ConnectionLost(s)
    BY <2>1, <2>4, NullAssumption DEF ConnectionLost
  <2> QED BY <2>2, <2>3, <2>4
<1>2. AInit => WaitInv
  BY WaitInit
<1>3. (SessionInv /\ AccountInv) /\ (SessionInv /\ AccountInv)' /\ WaitInv /\ [ANext]_avars
      => WaitInv'
  BY WaitStep
<1> QED BY <1>1, <1>2, <1>3, AccountInvariant, PTL DEF ASpec
=============================================================================
