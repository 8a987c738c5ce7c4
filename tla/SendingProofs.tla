--------------------------- MODULE SendingProofs ---------------------------
(***************************************************************************)
(* Proofs about MessageSending, for any number of chats, messages and      *)
(* users: what a sender thread works on exists, goes out under its author, *)
(* in order and once.                                                      *)
(***************************************************************************)
EXTENDS MessageSending, FiniteSetTheorems, SequenceTheorems, TLAPS

-----------------------------------------------------------------------------
(* Sequences. *)

\* An appended element joins the ones that are there.
LEMMA ContainsAppend ==
    ASSUME NEW S, NEW s \in Seq(S), NEW e \in S, NEW x
    PROVE  Contains(Append(s, e), x) <=> Contains(s, x) \/ x = e
<1>1. /\ Len(Append(s, e)) = Len(s) + 1
      /\ \A i \in 1..Len(s) : Append(s, e)[i] = s[i]
      /\ Append(s, e)[Len(s) + 1] = e
      /\ Len(s) \in Nat
  BY AppendProperties, LenProperties
<1>2. 1..(Len(s) + 1) = 1..Len(s) \cup {Len(s) + 1}
  BY <1>1
<1> QED BY <1>1, <1>2 DEF Contains

\* A sequence contains its head and what its tail contains.
LEMMA ContainsTail ==
    ASSUME NEW S, NEW s \in Seq(S), s # <<>>, NEW x
    PROVE  Contains(s, x) <=> x = Head(s) \/ Contains(Tail(s), x)
<1>1. /\ Len(Tail(s)) = Len(s) - 1
      /\ \A i \in 1..Len(Tail(s)) : Tail(s)[i] = s[i + 1]
      /\ Len(s) \in Nat \ {0}
      /\ Head(s) = s[1]
  BY HeadTailProperties, EmptySeq
<1>2. \A i \in 1..Len(s) : i = 1 \/ (i - 1 \in 1..Len(Tail(s)) /\ (i - 1) + 1 = i)
  BY <1>1
<1>3. \A i \in 1..Len(Tail(s)) : i + 1 \in 1..Len(s)
  BY <1>1
<1>4. 1 \in 1..Len(s)
  BY <1>1
<1>5. ASSUME Contains(s, x) PROVE x = Head(s) \/ Contains(Tail(s), x)
  BY <1>1, <1>2, <1>5 DEF Contains
<1>6. ASSUME x = Head(s) \/ Contains(Tail(s), x) PROVE Contains(s, x)
  BY <1>1, <1>3, <1>4, <1>6 DEF Contains
<1> QED BY <1>5, <1>6

\* A concatenation contains what its parts contain.
LEMMA ContainsConcat ==
    ASSUME NEW S, NEW s \in Seq(S), NEW t \in Seq(S), NEW x
    PROVE  Contains(s \o t, x) <=> Contains(s, x) \/ Contains(t, x)
<1>1. /\ Len(s \o t) = Len(s) + Len(t)
      /\ Len(s) \in Nat /\ Len(t) \in Nat
      /\ \A i \in 1..Len(s) : (s \o t)[i] = s[i]
      /\ \A i \in 1..Len(t) : (s \o t)[Len(s) + i] = t[i]
  BY SMT
<1>2. \A i \in 1..Len(s \o t) :
        i \in 1..Len(s) \/ (i - Len(s) \in 1..Len(t) /\ Len(s) + (i - Len(s)) = i)
  BY <1>1
<1>3. /\ \A i \in 1..Len(s) : i \in 1..Len(s \o t)
      /\ \A i \in 1..Len(t) : Len(s) + i \in 1..Len(s \o t)
  BY <1>1
<1>4. ASSUME Contains(s \o t, x) PROVE Contains(s, x) \/ Contains(t, x)
  BY <1>1, <1>2, <1>4 DEF Contains
<1>5. ASSUME Contains(s, x) \/ Contains(t, x) PROVE Contains(s \o t, x)
  BY <1>1, <1>3, <1>5 DEF Contains
<1> QED BY <1>4, <1>5

\* What a sequence contains is of the type of its elements.
LEMMA ContainsType ==
    ASSUME NEW S, NEW s \in Seq(S), NEW x, Contains(s, x)
    PROVE  x \in S
  BY ElementOfSeq DEF Contains

\* An ordering of chats, turned into deletions, deletes each of them and no other.
LEMMA Deletions ==
    ASSUME NEW cs \in SUBSET Chat, NEW order \in SetToSeqs(cs)
    PROVE  LET deletions == [i \in DOMAIN order |-> DeleteEvent(order[i])] IN
           /\ deletions \in Seq(Event)
           /\ \A e : Contains(deletions, e) <=> \E c \in cs : e = DeleteEvent(c)
<1> DEFINE n == Cardinality(cs)
           deletions == [i \in DOMAIN order |-> DeleteEvent(order[i])]
<1>1. IsFiniteSet(cs) /\ n \in Nat
  BY SendingAssumption, FS_Subset, FS_CardinalityType
<1>2. order \in [1..n -> cs] /\ \A i, j \in 1..n : i # j => order[i] # order[j]
  BY DEF SetToSeqs
<1>3. order \in Injection(1..n, cs)
  BY <1>2 DEF Injection, IsInjective
<1>4. Cardinality(1..n) = n
  BY <1>1, FS_Interval
<1>5. order \in Surjection(1..n, cs)
  BY <1>1, <1>3, <1>4, FS_Injection
<1>6. \A c \in cs : \E i \in 1..n : order[i] = c
  BY <1>5 DEF Surjection
<1>7. \A c \in cs : DeleteEvent(c) \in Event
  BY DEF DeleteEvent, Event
<1>8. deletions = [i \in 1..n |-> DeleteEvent(order[i])]
  BY <1>2
<1>9. \A i \in 1..n : DeleteEvent(order[i]) \in Event
  BY <1>2, <1>7
<1>10. deletions \in Seq(Event)
  BY <1>1, <1>8, <1>9, IsASeq
<1>11. Len(deletions) = n
  BY <1>1, <1>8
<1>12. \A e : Contains(deletions, e) <=> \E c \in cs : e = DeleteEvent(c)
  BY <1>2, <1>6, <1>8, <1>11 DEF Contains
<1> QED BY <1>10, <1>12

-----------------------------------------------------------------------------
(* Types. *)

\* Removing chats posts their deletions and dooms them, whatever the order.
LEMMA RemovalType ==
    ASSUME SendingTypeOK, NEW cs \in SUBSET Chat, removeChats(cs)
    PROVE  /\ chat' = [c \in Chat |-> IF c \in cs THEN "Doomed" ELSE chat[c]]
           /\ events' \in Seq(Event)
           /\ \A e : Contains(events', e) <=>
                Contains(events, e) \/ \E c \in cs : e = DeleteEvent(c)
<1>1. PICK order \in SetToSeqs(cs) :
        events' = events \o [i \in DOMAIN order |-> DeleteEvent(order[i])]
  BY DEF removeChats
<1> DEFINE deletions == [i \in DOMAIN order |-> DeleteEvent(order[i])]
<1>2. /\ deletions \in Seq(Event)
      /\ \A e : Contains(deletions, e) <=> \E c \in cs : e = DeleteEvent(c)
  BY Deletions
<1>3. events \in Seq(Event)
  BY DEF SendingTypeOK
<1> HIDE DEF deletions
<1>4. events' = events \o deletions
  BY <1>1 DEF deletions
<1>5. events' \in Seq(Event)
  BY <1>2, <1>3, <1>4, ConcatProperties
<1>6. \A e : Contains(events', e) <=> Contains(events, e) \/ Contains(deletions, e)
  BY <1>2, <1>3, <1>4, ContainsConcat
<1> QED BY <1>2, <1>5, <1>6 DEF removeChats

\* A sender thread that is not at work has no message in hand.
LEMMA ThreadShape ==
    ASSUME SendingTypeOK, NEW c \in Chat
    PROVE  /\ thread[c] \in Thread
           /\ thread[c].at = "Idle" => thread[c] = Idle
           /\ thread[c].at = "Finished" => thread[c] = Finished
           /\ thread[c].message # NoMessage <=> thread[c] \in Working
           /\ Idle.message = NoMessage /\ Finished.message = NoMessage
           /\ Idle.at = "Idle" /\ Finished.at = "Finished"
           /\ Idle \in Thread /\ Finished \in Thread
  BY SendingAssumption DEF SendingTypeOK, Thread, Working, Idle, Finished

\* Socket and user events keep the types.
LEMMA ExternalTypes == ASSUME SendingTypeOK, External PROVE SendingTypeOK'
<1>1. ASSUME onConnected PROVE SendingTypeOK'
  BY <1>1 DEF onConnected, output, SendingTypeOK
<1>2. ASSUME NEW cs \in SUBSET Chat, removeChats(cs), connected' \in BOOLEAN,
             user' \in User \cup {NoUser},
             UNCHANGED <<status, author, messages, inbox, thread, waiting, output>>
      PROVE  SendingTypeOK'
  <2>1. /\ events' \in Seq(Event)
        /\ chat' = [c \in Chat |-> IF c \in cs THEN "Doomed" ELSE chat[c]]
    BY <1>2, RemovalType
  <2> QED BY <1>2, <2>1 DEF SendingTypeOK, output
<1>3. LiveChats \in SUBSET Chat
  BY DEF LiveChats
<1>4. ASSUME onDisconnected PROVE SendingTypeOK'
  <2>1. (IF user = NoUser THEN {} ELSE LiveChats) \in SUBSET Chat
    BY <1>3
  <2>2. connected' \in BOOLEAN /\ user' \in User \cup {NoUser}
    BY <1>4 DEF onDisconnected
  <2> QED BY <1>2, <1>4, <2>1, <2>2 DEF onDisconnected
<1>5. ASSUME NEW u \in User, loggedIn(u) PROVE SendingTypeOK'
  BY <1>5 DEF loggedIn, output, SendingTypeOK
<1>6. ASSUME loggedOut PROVE SendingTypeOK'
  <2>1. connected' \in BOOLEAN /\ user' \in User \cup {NoUser}
    BY <1>6 DEF loggedOut, SendingTypeOK
  <2> QED BY <1>2, <1>3, <1>6, <2>1 DEF loggedOut
<1>7. ASSUME NEW c \in Chat, addChat(c) PROVE SendingTypeOK'
  BY <1>7 DEF addChat, session, output, SendingTypeOK
<1>8. ASSUME NEW c \in Chat, removeChat(c) PROVE SendingTypeOK'
  <2>1. {c} \in SUBSET Chat /\ connected' \in BOOLEAN /\ user' \in User \cup {NoUser}
    BY <1>8 DEF removeChat, session, SendingTypeOK
  <2> QED BY <1>2, <1>8, <2>1 DEF removeChat
<1>9. ASSUME NEW c \in Chat, NEW m \in Message, submitMessage(c, m) PROVE SendingTypeOK'
  <2>1. Append(inbox[c], m) \in Seq(Message)
    BY AppendProperties DEF SendingTypeOK
  <2>2. inbox' \in [Chat -> Seq(Message)]
    BY <1>9, <2>1 DEF submitMessage, SendingTypeOK
  <2>3. messages' \in [Chat -> Seq(Message)]
    BY <1>9, AppendProperties DEF submitMessage, SendingTypeOK
  <2> QED BY <1>9, <2>2, <2>3 DEF submitMessage, session, output, SendingTypeOK
<1> QED BY <1>1, <1>4, <1>5, <1>6, <1>7, <1>8, <1>9 DEF External

\* The event that the GUI thread takes, and the ones it leaves, are events.
LEMMA EventTypes ==
    ASSUME SendingTypeOK, events # <<>>
    PROVE  Head(events) \in Event /\ Tail(events) \in Seq(Event)
  BY HeadTailProperties DEF SendingTypeOK

\* Posted events keep the types; a deletion is of a chat.
LEMMA GuiTypes == ASSUME SendingTypeOK, Gui PROVE SendingTypeOK'
<1>1. ASSUME handleEvent PROVE SendingTypeOK'
  <2> DEFINE e == Head(events)
  <2>1. e \in Event /\ Tail(events) \in Seq(Event)
    BY <1>1, EventTypes DEF handleEvent, Take
  <2> HIDE DEF e
  <2>2. /\ writeBytes(e) \/ onMessageSent(e) \/ deleteChat(e)
        /\ events' = Tail(events)
        /\ UNCHANGED <<session, author, messages, thread>>
    BY <1>1 DEF handleEvent, Take, e
  <2>3. CASE writeBytes(e)
    <3>1. e.message \in Message /\ e.sender \in User \cup {NoUser}
      BY <2>1, <2>3 DEF Event, WriteEvent, SentEvent, DeleteEvent, writeBytes
    <3>2. written' \in Seq([message : Message, sender : User \cup {NoUser}])
      <4>1. [message |-> e.message, sender |-> e.sender]
              \in [message : Message, sender : User \cup {NoUser}]
        BY <3>1
      <4> DEFINE W == [message : Message, sender : User \cup {NoUser}]
      <4>2. written \in Seq(W)
        BY DEF SendingTypeOK
      <4>3. Append(written, [message |-> e.message, sender |-> e.sender]) \in Seq(W)
        BY <4>1, <4>2, AppendProperties
      <4> HIDE DEF W
      <4>4. written' \in Seq(W)
        BY <2>3, <4>2, <4>3 DEF writeBytes
      <4> QED BY <4>4 DEF W
    <3>3. lost' \subseteq Message
      BY <2>3, <3>1 DEF writeBytes, SendingTypeOK
    <3> QED BY <2>1, <2>2, <2>3, <3>2, <3>3 DEF writeBytes, session, SendingTypeOK
  <2>4. CASE onMessageSent(e)
    <3>1. status' \in [Message -> {"None", "Loading", "Sent"}]
      BY <2>4 DEF onMessageSent, SendingTypeOK
    <3> QED BY <2>1, <2>2, <2>4, <3>1 DEF onMessageSent, session, output, SendingTypeOK
  <2>5. CASE deleteChat(e)
    <3>1. chat' \in [Chat -> {"Absent", "Live", "Doomed", "Deleting", "Deleted"}]
      BY <2>5 DEF deleteChat, SendingTypeOK
    <3>2. waiting' \in Chat \cup {NoChat}
      BY <2>1, <2>5 DEF deleteChat, Event, WriteEvent, SentEvent, DeleteEvent
    <3> QED BY <2>1, <2>2, <2>5, <3>1, <3>2 DEF deleteChat, session, output, SendingTypeOK
  <2> QED BY <2>2, <2>3, <2>4, <2>5
<1>2. ASSUME NEW c \in Chat, waitReturns(c) PROVE SendingTypeOK'
  BY <1>2, EmptySeq DEF waitReturns, session, output, SendingTypeOK
<1> QED BY <1>1, <1>2 DEF Gui

\* What a thread takes from a queue of messages.
LEMMA TakeType ==
    ASSUME NEW queue \in Seq(Message), queue # <<>>
    PROVE  Take(queue).first \in Message /\ Take(queue).rest \in Seq(Message)
  BY HeadTailProperties DEF Take

\* What a sender posts: the write, then its own event.
LEMMA PostType ==
    ASSUME NEW m \in Message, NEW u \in User \cup {NoUser}, NEW c \in Chat
    PROVE  /\ PostMessage(m, u, c) \in Seq(Event)
           /\ Len(PostMessage(m, u, c)) = 2
           /\ PostMessage(m, u, c)[1] = WriteEvent(m, u)
           /\ PostMessage(m, u, c)[2] = SentEvent(m, c)
<1>1. WriteEvent(m, u) \in Event /\ SentEvent(m, c) \in Event
  BY DEF WriteEvent, SentEvent, Event
<1> QED BY <1>1 DEF PostMessage

\* The steps of a sender thread keep the types.
LEMMA SenderTypes == ASSUME SendingTypeOK, NEW c \in Chat, Sender(c) PROVE SendingTypeOK'
<1>1. ASSUME NEW t \in Thread, thread' = [thread EXCEPT ![c] = t]
      PROVE  thread' \in [Chat -> Thread]
  BY <1>1 DEF SendingTypeOK
<1>2. CASE processMessage(c)
  <2>1. /\ Take(inbox[c]).first \in Message
        /\ Take(inbox[c]).rest \in Seq(Message)
    BY <1>2, TakeType DEF processMessage, SendingTypeOK
  <2> DEFINE t == [Idle EXCEPT !.at = "Spinning", !.message = Take(inbox[c]).first]
  <2>2. t \in Thread
    BY <2>1 DEF Thread, Working, Idle
  <2> HIDE DEF t
  <2>3. thread' = [thread EXCEPT ![c] = t]
    BY <1>2 DEF processMessage, t
  <2>4. inbox' \in [Chat -> Seq(Message)]
    BY <1>2, <2>1 DEF processMessage, SendingTypeOK
  <2>5. thread' \in [Chat -> Thread]
    BY <1>1, <2>2, <2>3
  <2> QED BY <1>2, <2>4, <2>5 DEF processMessage, session, output, SendingTypeOK
<1>3. CASE seesConnection(c)
  <2>1. [thread[c] EXCEPT !.at = "Connected"] \in Thread
    BY <1>3, ThreadShape DEF seesConnection, Thread, Working, Idle, Finished
  <2>2. thread' = [thread EXCEPT ![c] = [thread[c] EXCEPT !.at = "Connected"]]
    BY <1>3 DEF seesConnection
  <2>3. thread' \in [Chat -> Thread]
    BY <1>1, <2>1, <2>2
  <2> QED BY <1>3, <2>3 DEF seesConnection, session, output, SendingTypeOK
<1>4. CASE readsUser(c)
  <2>1. [thread[c] EXCEPT !.at = "Posting", !.sender = user] \in Thread
    BY <1>4, ThreadShape DEF readsUser, Thread, Working, Idle, Finished, SendingTypeOK
  <2>2. thread' = [thread EXCEPT ![c] = [thread[c] EXCEPT !.at = "Posting", !.sender = user]]
    BY <1>4 DEF readsUser, SendingTypeOK
  <2>3. thread' \in [Chat -> Thread]
    BY <1>1, <2>1, <2>2
  <2> QED BY <1>4, <2>3 DEF readsUser, session, output, SendingTypeOK
<1>5. CASE posts(c)
  <2>1. thread[c].message \in Message /\ thread[c].sender \in User \cup {NoUser}
    BY <1>5, ThreadShape DEF posts, Thread, Working, Idle, Finished
  <2>2. events' \in Seq(Event)
    BY <1>5, <2>1, PostType, ConcatProperties DEF posts, SendingTypeOK
  <2>3. thread' \in [Chat -> Thread]
    BY <1>1, <1>5, ThreadShape DEF posts
  <2> QED BY <1>5, <2>2, <2>3 DEF posts, session, output, SendingTypeOK
<1>6. CASE finishes(c)
  <2>1. thread' \in [Chat -> Thread]
    BY <1>1, <1>6, ThreadShape DEF finishes
  <2> QED BY <1>6, <2>1 DEF finishes, session, output, SendingTypeOK
<1> QED BY <1>2, <1>3, <1>4, <1>5, <1>6 DEF Sender

\* The state is typed: every thread, queue and posted event is well formed.
THEOREM SendingTyped == Spec => []SendingTypeOK
<1>1. Init => SendingTypeOK
  <2> SUFFICES ASSUME Init PROVE SendingTypeOK
    OBVIOUS
  <2>1. thread \in [Chat -> Thread]
    BY DEF Init, Thread
  <2> QED BY <2>1, EmptySeq DEF Init, SendingTypeOK
<1>2. SendingTypeOK /\ [Next]_vars => SendingTypeOK'
  <2>1. ASSUME SendingTypeOK, UNCHANGED vars PROVE SendingTypeOK'
    BY <2>1 DEF vars, SendingTypeOK
  <2> QED BY <2>1, ExternalTypes, GuiTypes, SenderTypes DEF Next
<1> QED BY <1>1, <1>2, PTL DEF Spec

-----------------------------------------------------------------------------
(* The life of a chat: nothing is pending in one that is not there. *)

Resting == \A c \in Chat : chat[c] \in {"Absent", "Deleted"} =>
    thread[c].message = NoMessage /\ inbox[c] = <<>>

\* The GUI thread leaves the sender threads alone, and empties the queue of a
\* chat only when it has deleted it.
LEMMA GuiQueues ==
    ASSUME SendingTypeOK, Gui
    PROVE  /\ thread' = thread
           /\ \A c \in Chat : \/ inbox'[c] = inbox[c] /\ chat'[c] \in {chat[c], "Deleting"}
                              \/ /\ inbox'[c] = <<>> /\ chat'[c] = "Deleted"
                                 /\ thread[c].message = NoMessage
<1>1. CASE handleEvent
  <2> PICK e : writeBytes(e) \/ onMessageSent(e) \/ deleteChat(e)
    BY <1>1 DEF handleEvent, Take
  <2>1. inbox' = inbox /\ \A c \in Chat : chat'[c] \in {chat[c], "Deleting"}
    BY DEF writeBytes, onMessageSent, deleteChat, SendingTypeOK
  <2> QED BY <1>1, <2>1 DEF handleEvent, Take
<1>2. ASSUME NEW d \in Chat, waitReturns(d)
      PROVE  /\ thread' = thread
             /\ \A c \in Chat : \/ inbox'[c] = inbox[c] /\ chat'[c] = chat[c]
                                \/ /\ inbox'[c] = <<>> /\ chat'[c] = "Deleted"
                                   /\ thread[c].message = NoMessage
  BY <1>2, ThreadShape DEF waitReturns, SendingTypeOK
<1> QED BY <1>1, <1>2 DEF Gui

\* Socket and user events give work to chats of the list only.
LEMMA ExternalQueues ==
    ASSUME SendingTypeOK, External
    PROVE  /\ thread' = thread
           /\ \A c \in Chat :
                \/ inbox'[c] = inbox[c] /\ (chat'[c] \in {"Absent", "Deleted"} => chat'[c] = chat[c])
                \/ chat'[c] = "Live"
<1>1. ASSUME NEW cs \in SUBSET Chat, removeChats(cs)
      PROVE  \A c \in Chat : chat'[c] \in {"Absent", "Deleted"} => chat'[c] = chat[c]
  BY <1>1 DEF removeChats
<1>2. {} \in SUBSET Chat /\ LiveChats \in SUBSET Chat /\ \A c \in Chat : {c} \in SUBSET Chat
  BY DEF LiveChats
<1>3. CASE onConnected
  BY <1>3 DEF onConnected
<1>4. CASE onDisconnected
  <2>1. removeChats({}) \/ removeChats(LiveChats)
    BY <1>4 DEF onDisconnected
  <2> QED BY <1>1, <1>2, <1>4, <2>1 DEF onDisconnected
<1>5. ASSUME NEW u \in User, loggedIn(u)
      PROVE  thread' = thread /\ inbox' = inbox /\ chat' = chat
  BY <1>5 DEF loggedIn
<1>6. CASE loggedOut
  BY <1>1, <1>2, <1>6 DEF loggedOut
<1>7. ASSUME NEW d \in Chat, addChat(d)
      PROVE  /\ thread' = thread /\ inbox' = inbox
             /\ \A c \in Chat : chat'[c] \in {"Absent", "Deleted"} => chat'[c] = chat[c]
  BY <1>7 DEF addChat, SendingTypeOK
<1>8. ASSUME NEW d \in Chat, removeChat(d)
      PROVE  /\ thread' = thread /\ inbox' = inbox
             /\ \A c \in Chat : chat'[c] \in {"Absent", "Deleted"} => chat'[c] = chat[c]
  BY <1>1, <1>2, <1>8 DEF removeChat
<1>9. ASSUME NEW d \in Chat, NEW m \in Message, submitMessage(d, m)
      PROVE  /\ thread' = thread /\ chat' = chat
             /\ \A c \in Chat : inbox'[c] = inbox[c] \/ chat[c] = "Live"
  BY <1>9 DEF submitMessage, SendingTypeOK
<1> QED BY <1>3, <1>4, <1>5, <1>6, <1>7, <1>8, <1>9 DEF External

\* A sender thread works off its own queue.
LEMMA SenderQueues ==
    ASSUME SendingTypeOK, NEW c \in Chat, Sender(c)
    PROVE  /\ chat' = chat
           /\ \A d \in Chat \ {c} : thread'[d] = thread[d] /\ inbox'[d] = inbox[d]
           /\ inbox[c] = <<>> => inbox'[c] = <<>>
           /\ inbox[c] = <<>> /\ thread[c].message = NoMessage => thread'[c].message = NoMessage
<1>1. CASE processMessage(c)
  BY <1>1 DEF processMessage, SendingTypeOK
<1>2. CASE seesConnection(c)
  BY <1>2, ThreadShape DEF seesConnection, SendingTypeOK
<1>3. CASE readsUser(c)
  BY <1>3, ThreadShape DEF readsUser, SendingTypeOK
<1>4. CASE posts(c)
  BY <1>4, ThreadShape DEF posts, SendingTypeOK
<1>5. CASE finishes(c)
  BY <1>5, ThreadShape DEF finishes, SendingTypeOK
<1> QED BY <1>1, <1>2, <1>3, <1>4, <1>5 DEF Sender

\* A chat gets work while it is in the list, and is deleted when its thread has
\* finished.
LEMMA RestingStep == ASSUME SendingTypeOK, Resting, [Next]_vars PROVE Resting'
<1>1. CASE External
  BY <1>1, ExternalQueues DEF Resting
<1>2. CASE Gui
  BY <1>2, GuiQueues DEF Resting
<1>3. ASSUME NEW c \in Chat, Sender(c) PROVE Resting'
  BY <1>3, SenderQueues DEF Resting
<1>4. CASE UNCHANGED vars
  BY <1>4 DEF vars, Resting
<1> QED BY <1>1, <1>2, <1>3, <1>4 DEF Next

\* ~Chat waits for the thread: no sender thread ever works on a message of a
\* deleted chat (Chat.cpp, MessageSender.cpp).
THEOREM NothingFreedIsUsed == Spec => []NoUseAfterDelete
<1>1. Init => Resting
  BY DEF Init, Resting, Idle
<1>2. Resting => NoUseAfterDelete
  BY DEF Resting, NoUseAfterDelete
<1> QED BY <1>1, <1>2, SendingTyped, RestingStep, PTL DEF Spec

-----------------------------------------------------------------------------
(* Authors. *)

\* The message is in the queue or in the hand of the chat's thread.
InWork(c, m) == thread[c].message = m \/ Contains(inbox[c], m)

Writes == {e \in Event : e.type = "writeBytes"}

\* A message in work was submitted by the current user; after the user has gone,
\* only a chat that is about to go has messages in work.
AuthorsLoggedIn ==
    \A c \in Chat, m \in Message : InWork(c, m) =>
        /\ status[m] # "None"
        /\ user # NoUser => author[m] = user
        /\ user = NoUser => chat[c] \in {"Doomed", "Deleting"}

\* The user a thread has read is the author or none, from there to the socket.
SendersRead ==
    /\ \A c \in Chat : thread[c].at = "Posting" =>
          thread[c].sender \in {author[thread[c].message], NoUser}
    /\ \A e \in Writes : Contains(events, e) =>
          status[e.message] # "None" /\ e.sender \in {author[e.message], NoUser}
    /\ \A i \in DOMAIN written :
          /\ status[written[i].message] # "None"
          /\ written[i].sender \in {author[written[i].message], NoUser}

\* A chat out of the list has its deletion under way.
DeletionsUnderWay ==
    \A c \in Chat :
        /\ chat[c] = "Doomed" => Contains(events, DeleteEvent(c))
        /\ chat[c] = "Deleting" => waiting = c

AuthorInv == Resting /\ AuthorsLoggedIn /\ SendersRead /\ DeletionsUnderWay

\* A message that is in a queue or in a hand is a message.
LEMMA EventShape ==
    ASSUME NEW e \in Event
    PROVE  /\ e.type = "writeBytes" => e.message \in Message /\ e.sender \in User \cup {NoUser}
           /\ e.type = "deleteLater" => e.chat \in Chat /\ e = DeleteEvent(e.chat)
           /\ e.type = "onMessageSent" => e.message \in Message
           /\ \A c \in Chat : DeleteEvent(c).type = "deleteLater" /\ DeleteEvent(c).chat = c
           /\ \A m \in Message, u \in User \cup {NoUser} :
                /\ WriteEvent(m, u).type = "writeBytes"
                /\ WriteEvent(m, u).message = m /\ WriteEvent(m, u).sender = u
           /\ \A m \in Message, c \in Chat : SentEvent(m, c).type = "onMessageSent"
  BY DEF Event, WriteEvent, SentEvent, DeleteEvent

\* A step that leaves the messages, the threads and the socket alone and posts
\* deletions of the chats it removes, if it removes any.
LEMMA AuthorsRemove ==
    ASSUME SendingTypeOK, AuthorInv, Resting', NEW cs \in SUBSET Chat, removeChats(cs),
           user' = user \/ (user' = NoUser /\ cs = LiveChats),
           UNCHANGED <<status, author, inbox, thread, waiting, written>>
    PROVE  AuthorInv'
<1>1. /\ chat' = [c \in Chat |-> IF c \in cs THEN "Doomed" ELSE chat[c]]
      /\ events' \in Seq(Event)
      /\ \A e : Contains(events', e) <=>
           Contains(events, e) \/ \E c \in cs : e = DeleteEvent(c)
  BY RemovalType
<1>2. \A c \in Chat, m \in Message : InWork(c, m)' <=> InWork(c, m)
  BY DEF InWork
<1>3. \A c \in Chat, m \in Message :
        InWork(c, m) => chat[c] \in {"Live", "Doomed", "Deleting"}
  <2>1. \A x : ~Contains(<<>>, x)
    BY DEF Contains
  <2>2. \A m \in Message : m # NoMessage
    BY SendingAssumption
  <2>3. \A c \in Chat : chat[c] \in {"Absent", "Live", "Doomed", "Deleting", "Deleted"}
    BY DEF SendingTypeOK
  <2> QED BY <2>1, <2>2, <2>3 DEF AuthorInv, Resting, InWork
<1>4. AuthorsLoggedIn'
  BY <1>1, <1>2, <1>3 DEF AuthorInv, AuthorsLoggedIn, LiveChats
<1>5. \A e \in Writes : Contains(events', e) => Contains(events, e)
  BY <1>1, EventShape DEF Writes
<1>6. SendersRead'
  BY <1>5 DEF AuthorInv, SendersRead
<1>7. DeletionsUnderWay'
  BY <1>1 DEF AuthorInv, DeletionsUnderWay
<1> QED BY <1>4, <1>6, <1>7 DEF AuthorInv

\* Socket and user events: a user logs in only after the deletions that ended the
\* work of the last one.
LEMMA AuthorsExternal ==
    ASSUME SendingTypeOK, AuthorInv, Resting', External
    PROVE  AuthorInv'
<1>1. CASE onConnected
  BY <1>1 DEF onConnected, output, AuthorInv, AuthorsLoggedIn, SendersRead,
              DeletionsUnderWay, InWork
<1>2. {} \in SUBSET Chat /\ LiveChats \in SUBSET Chat /\ \A c \in Chat : {c} \in SUBSET Chat
  BY DEF LiveChats
<1>3. CASE onDisconnected
  <2>1. CASE user = NoUser
    BY <1>2, <1>3, <2>1, AuthorsRemove DEF onDisconnected, output
  <2>2. CASE user # NoUser
    BY <1>2, <1>3, <2>2, AuthorsRemove DEF onDisconnected, output
  <2> QED BY <2>1, <2>2
<1>4. ASSUME NEW u \in User, loggedIn(u) PROVE AuthorInv'
  <2>1. \A c \in Chat : chat[c] \notin {"Doomed", "Deleting"}
    BY <1>4, SendingAssumption, EmptySeq
       DEF loggedIn, GuiFree, AuthorInv, DeletionsUnderWay, Contains
  <2>2. \A c \in Chat, m \in Message : ~InWork(c, m)
    BY <1>4, <2>1 DEF loggedIn, AuthorInv, AuthorsLoggedIn
  <2>3. AuthorsLoggedIn'
    BY <1>4, <2>2 DEF loggedIn, AuthorsLoggedIn, InWork
  <2> QED BY <1>4, <2>3 DEF loggedIn, output, AuthorInv, SendersRead, DeletionsUnderWay
<1>5. CASE loggedOut
  BY <1>2, <1>5, AuthorsRemove DEF loggedOut, output
<1>6. ASSUME NEW d \in Chat, addChat(d) PROVE AuthorInv'
  <2>1. \A m \in Message : ~InWork(d, m)
    BY <1>6, SendingAssumption, EmptySeq
       DEF addChat, AuthorInv, Resting, InWork, Contains, SendingTypeOK
  <2>2. AuthorsLoggedIn'
    BY <1>6, <2>1 DEF addChat, session, AuthorInv, AuthorsLoggedIn, InWork, SendingTypeOK
  <2> QED BY <1>6, <2>2 DEF addChat, output, AuthorInv, SendersRead, DeletionsUnderWay, SendingTypeOK
<1>7. ASSUME NEW d \in Chat, removeChat(d) PROVE AuthorInv'
  BY <1>2, <1>7, AuthorsRemove DEF removeChat, session, output
<1>8. ASSUME NEW d \in Chat, NEW m \in Message, submitMessage(d, m) PROVE AuthorInv'
  <2>1. \A c \in Chat, n \in Message : InWork(c, n)' => InWork(c, n) \/ n = m
    <3>1. \A n : Contains(Append(inbox[d], m), n) <=> Contains(inbox[d], n) \/ n = m
      BY ContainsAppend DEF SendingTypeOK
    <3> QED BY <1>8, <3>1 DEF submitMessage, InWork, SendingTypeOK
  <2>2. /\ status[m] = "None" /\ user # NoUser /\ user' = user /\ chat' = chat
        /\ status' = [status EXCEPT ![m] = "Loading"]
        /\ author' = [author EXCEPT ![m] = user]
    BY <1>8 DEF submitMessage, canSendMessages, session
  <2>3. AuthorsLoggedIn'
    BY <2>1, <2>2 DEF AuthorInv, AuthorsLoggedIn, SendingTypeOK
  <2>4. \A c \in Chat : thread[c].at = "Posting" =>
           thread[c].message \in Message /\ InWork(c, thread[c].message)
    BY ThreadShape DEF Thread, Working, Idle, Finished, InWork
  <2>5. \A c \in Chat : thread[c].at = "Posting" => thread[c].message # m
    BY <2>2, <2>4 DEF AuthorInv, AuthorsLoggedIn
  <2>6. /\ \A e \in Writes : Contains(events, e) => e.message # m
        /\ \A i \in DOMAIN written : written[i].message # m
    BY <2>2 DEF AuthorInv, SendersRead
  <2>7. /\ \A e \in Writes : e.message \in Message
        /\ \A i \in DOMAIN written : written[i].message \in Message
    <3>1. \A e \in Writes : e.message \in Message
      BY EventShape DEF Writes
    <3> DEFINE W == [message : Message, sender : User \cup {NoUser}]
    <3>2. written \in Seq(W)
      BY DEF SendingTypeOK
    <3> HIDE DEF W
    <3>3. \A i \in DOMAIN written : written[i] \in W
      BY <3>2, ElementOfSeq, LenProperties
    <3>4. \A w \in W : w.message \in Message
      BY DEF W
    <3> QED BY <3>1, <3>3, <3>4
  <2>8. /\ UNCHANGED <<events, thread, written>>
        /\ \A n \in Message \ {m} : status'[n] = status[n] /\ author'[n] = author[n]
    BY <1>8, <2>2 DEF submitMessage, output, SendingTypeOK
  <2>9. SendersRead'
    BY <2>4, <2>5, <2>6, <2>7, <2>8 DEF AuthorInv, SendersRead
  <2> QED BY <1>8, <2>3, <2>9 DEF submitMessage, AuthorInv, DeletionsUnderWay
<1> QED BY <1>1, <1>3, <1>4, <1>5, <1>6, <1>7, <1>8 DEF External

\* The steps of the GUI thread: what it writes has its author, and the chat it
\* deletes is the one it waits for.
LEMMA AuthorsGui ==
    ASSUME SendingTypeOK, AuthorInv, Resting', Gui
    PROVE  AuthorInv'
<1>1. CASE handleEvent
  <2> DEFINE e == Head(events)
  <2>1. /\ e \in Event /\ Contains(events, e) /\ waiting = NoChat
        /\ \A x : Contains(events', x) => Contains(events, x)
        /\ \A x : Contains(events, x) /\ x # e => Contains(events', x)
    <3>1. events \in Seq(Event) /\ events # <<>> /\ events' = Tail(events)
      BY <1>1 DEF handleEvent, Take, SendingTypeOK
    <3>2. \A x : Contains(events, x) <=> x = e \/ Contains(Tail(events), x)
      BY <3>1, ContainsTail
    <3> QED BY <1>1, <3>1, <3>2, EventTypes DEF handleEvent, Take, GuiFree
  <2> HIDE DEF e
  <2>2. /\ writeBytes(e) \/ onMessageSent(e) \/ deleteChat(e)
        /\ UNCHANGED <<session, author, messages, thread>>
    BY <1>1 DEF handleEvent, Take, e
  <2>3. CASE writeBytes(e)
    <3>1. e.message \in Message /\ status[e.message] # "None"
          /\ e.sender \in {author[e.message], NoUser}
      BY <2>1, <2>3, EventShape DEF writeBytes, AuthorInv, SendersRead, Writes
    <3> DEFINE w == [message |-> e.message, sender |-> e.sender]
               W == [message : Message, sender : User \cup {NoUser}]
    <3>2. w \in W /\ written \in Seq(W)
      BY <2>1, <2>3, EventShape DEF writeBytes, SendingTypeOK
    <3>3. written' = Append(written, w) \/ written' = written
      BY <2>3 DEF writeBytes
    <3>4. \A i \in DOMAIN written' : (i \in DOMAIN written /\ written'[i] = written[i]) \/ written'[i] = w
      <4> HIDE DEF w, W
      <4> QED BY <3>2, <3>3, AppendProperties, LenProperties
    <3>5. w.message = e.message /\ w.sender = e.sender
      OBVIOUS
    <3> HIDE DEF w, W
    <3>6. status' = status /\ author' = author /\ thread' = thread
      BY <2>2, <2>3 DEF writeBytes
    <3>7. SendersRead'
      BY <2>1, <3>1, <3>4, <3>5, <3>6 DEF AuthorInv, SendersRead
    <3>8. DeletionsUnderWay'
      BY <2>1, <2>3, EventShape DEF writeBytes, AuthorInv, DeletionsUnderWay
    <3> QED BY <2>2, <2>3, <3>7, <3>8
            DEF writeBytes, session, AuthorInv, AuthorsLoggedIn, InWork
  <2>4. CASE onMessageSent(e)
    <3>1. \A m \in Message : status[m] # "None" => status'[m] # "None"
      BY <2>4 DEF onMessageSent, SendingTypeOK
    <3>2. \A x \in Writes : x.message \in Message
      BY EventShape DEF Writes
    <3>3. \A i \in DOMAIN written : written[i].message \in Message
      <4> DEFINE W == [message : Message, sender : User \cup {NoUser}]
      <4>1. written \in Seq(W)
        BY DEF SendingTypeOK
      <4> HIDE DEF W
      <4>2. \A i \in DOMAIN written : written[i] \in W
        BY <4>1, ElementOfSeq, LenProperties
      <4> QED BY <4>2 DEF W
    <3>4. UNCHANGED <<user, chat, author, thread, inbox, waiting, written>>
      BY <2>2, <2>4 DEF onMessageSent, session, output
    <3>5. AuthorsLoggedIn'
      BY <3>1, <3>4 DEF AuthorInv, AuthorsLoggedIn, InWork
    <3>6. SendersRead'
      BY <2>1, <3>1, <3>2, <3>3, <3>4 DEF AuthorInv, SendersRead
    <3>7. DeletionsUnderWay'
      BY <2>1, <2>4, <3>4, EventShape DEF onMessageSent, AuthorInv, DeletionsUnderWay
    <3> QED BY <3>5, <3>6, <3>7 DEF AuthorInv
  <2>5. CASE deleteChat(e)
    <3>1. e.chat \in Chat /\ e = DeleteEvent(e.chat)
      BY <2>1, <2>5, EventShape DEF deleteChat
    <3>2. /\ chat' = [chat EXCEPT ![e.chat] = "Deleting"] /\ waiting' = e.chat
          /\ UNCHANGED <<user, status, author, thread, inbox, written>>
      BY <2>2, <2>5 DEF deleteChat, session, output
    <3>3. AuthorsLoggedIn'
      BY <3>1, <3>2 DEF AuthorInv, AuthorsLoggedIn, InWork, SendingTypeOK
    <3>4. SendersRead'
      BY <2>1, <3>2 DEF AuthorInv, SendersRead
    <3>5. \A c \in Chat : chat[c] # "Deleting"
      BY <2>1, SendingAssumption DEF AuthorInv, DeletionsUnderWay
    <3>6. \A c \in Chat \ {e.chat} : DeleteEvent(c) # e
      BY <3>1, EventShape, <2>1
    <3>7. DeletionsUnderWay'
      BY <2>1, <3>1, <3>2, <3>5, <3>6 DEF AuthorInv, DeletionsUnderWay, SendingTypeOK
    <3> QED BY <3>3, <3>4, <3>7 DEF AuthorInv
  <2> QED BY <2>2, <2>3, <2>4, <2>5
<1>2. ASSUME NEW c \in Chat, waitReturns(c) PROVE AuthorInv'
  <2>1. /\ chat' = [chat EXCEPT ![c] = "Deleted"] /\ inbox' = [inbox EXCEPT ![c] = <<>>]
        /\ waiting = c
        /\ UNCHANGED <<user, status, author, thread, events, written>>
    BY <1>2 DEF waitReturns, session, output
  <2>2. thread[c].message = NoMessage
    BY <1>2, ThreadShape DEF waitReturns
  <2>3. \A d \in Chat, m \in Message : InWork(d, m)' => d # c /\ InWork(d, m)
    <3>1. \A m : ~Contains(<<>>, m)
      BY DEF Contains
    <3> QED BY <2>1, <2>2, <3>1, SendingAssumption DEF InWork, SendingTypeOK
  <2>4. AuthorsLoggedIn'
    BY <2>1, <2>3 DEF AuthorInv, AuthorsLoggedIn, SendingTypeOK
  <2>5. SendersRead'
    BY <2>1 DEF AuthorInv, SendersRead
  <2>6. DeletionsUnderWay'
    BY <2>1 DEF AuthorInv, DeletionsUnderWay, SendingTypeOK
  <2> QED BY <2>4, <2>5, <2>6 DEF AuthorInv
<1> QED BY <1>1, <1>2 DEF Gui

\* The steps of a sender thread: the user it reads is the author of the message
\* it has in hand, if there is a user.
LEMMA AuthorsSender ==
    ASSUME SendingTypeOK, AuthorInv, Resting', NEW c \in Chat, Sender(c)
    PROVE  AuthorInv'
<1>1. ASSUME UNCHANGED <<user, chat, status, author, events, waiting, written>>,
             \A d \in Chat, m \in Message : InWork(d, m)' => InWork(d, m),
             \A d \in Chat \ {c} : thread'[d] = thread[d],
             thread'[c].at = "Posting" =>
                 thread'[c].sender \in {author[thread'[c].message], NoUser}
      PROVE  AuthorInv'
  <2>1. AuthorsLoggedIn'
    BY <1>1 DEF AuthorInv, AuthorsLoggedIn
  <2>2. SendersRead'
    BY <1>1 DEF AuthorInv, SendersRead
  <2>3. DeletionsUnderWay'
    BY <1>1 DEF AuthorInv, DeletionsUnderWay
  <2> QED BY <2>1, <2>2, <2>3 DEF AuthorInv
<1>2. CASE processMessage(c)
  <2>1. /\ inbox[c] # <<>> /\ inbox[c] \in Seq(Message)
        /\ thread'[c].message = Head(inbox[c]) /\ thread'[c].at = "Spinning"
        /\ inbox'[c] = Tail(inbox[c])
        /\ \A d \in Chat \ {c} : thread'[d] = thread[d] /\ inbox'[d] = inbox[d]
    BY <1>2 DEF processMessage, Take, Idle, SendingTypeOK
  <2>2. \A m : Contains(inbox[c], m) <=> m = Head(inbox[c]) \/ Contains(Tail(inbox[c]), m)
    BY <2>1, ContainsTail
  <2>3. \A d \in Chat, m \in Message : InWork(d, m)' => InWork(d, m)
    BY <2>1, <2>2 DEF InWork
  <2> QED BY <1>1, <1>2, <2>1, <2>3 DEF processMessage, session, output
<1>3. CASE seesConnection(c)
  <2>1. /\ thread'[c].message = thread[c].message /\ thread'[c].at = "Connected"
        /\ \A d \in Chat \ {c} : thread'[d] = thread[d]
    BY <1>3, ThreadShape DEF seesConnection, Thread, Working, Idle, Finished, SendingTypeOK
  <2>2. \A d \in Chat, m \in Message : InWork(d, m)' => InWork(d, m)
    BY <1>3, <2>1 DEF seesConnection, InWork
  <2> QED BY <1>1, <1>3, <2>1, <2>2 DEF seesConnection, session, output
<1>4. CASE readsUser(c)
  <2>1. /\ thread'[c].message = thread[c].message /\ thread'[c].sender = user
        /\ thread[c].message \in Message
        /\ \A d \in Chat \ {c} : thread'[d] = thread[d]
    BY <1>4, ThreadShape DEF readsUser, Thread, Working, Idle, Finished, SendingTypeOK
  <2>2. \A d \in Chat, m \in Message : InWork(d, m)' => InWork(d, m)
    BY <1>4, <2>1 DEF readsUser, InWork
  <2>3. user \in {author[thread[c].message], NoUser}
    BY <2>1 DEF AuthorInv, AuthorsLoggedIn, InWork
  <2>4. UNCHANGED <<user, chat, status, author, events, waiting, written>>
    BY <1>4 DEF readsUser, session, output
  <2> QED BY <1>1, <2>1, <2>2, <2>3, <2>4
<1>5. CASE posts(c)
  <2> DEFINE m == thread[c].message
             u == thread[c].sender
  <2>1. /\ m \in Message /\ u \in User \cup {NoUser}
        /\ thread'[c].message = NoMessage /\ thread'[c].at = "Idle"
        /\ \A d \in Chat \ {c} : thread'[d] = thread[d]
    BY <1>5, ThreadShape DEF posts, Thread, Working, Idle, Finished, SendingTypeOK
  <2>2. status[m] # "None" /\ u \in {author[m], NoUser}
    BY <1>5, <2>1 DEF posts, AuthorInv, AuthorsLoggedIn, SendersRead, InWork
  <2>3. \A d \in Chat, n \in Message : InWork(d, n)' => InWork(d, n)
    BY <1>5, <2>1, SendingAssumption DEF posts, InWork
  <2>4. UNCHANGED <<user, chat, status, author, waiting, written>>
    BY <1>5 DEF posts, session, output
  <2>5. \A x : Contains(events', x) <=>
               Contains(events, x) \/ x = WriteEvent(m, u) \/ x = SentEvent(m, c)
    <3> DEFINE p == PostMessage(m, u, c)
    <3>1. /\ p \in Seq(Event) /\ Len(p) = 2
          /\ p[1] = WriteEvent(m, u) /\ p[2] = SentEvent(m, c)
      BY <2>1, PostType
    <3>2. events' = events \o p /\ events \in Seq(Event)
      BY <1>5 DEF posts, SendingTypeOK
    <3> HIDE DEF p
    <3>3. \A x : Contains(p, x) <=> x = WriteEvent(m, u) \/ x = SentEvent(m, c)
      <4>1. 1..2 = {1, 2}
        OBVIOUS
      <4> QED BY <3>1, <4>1 DEF Contains
    <3> QED BY <3>1, <3>2, <3>3, ContainsConcat
  <2> HIDE DEF m, u
  <2>6. AuthorsLoggedIn'
    BY <2>3, <2>4 DEF AuthorInv, AuthorsLoggedIn
  <2>7. \A e \in Writes : Contains(events', e) =>
           status[e.message] # "None" /\ e.sender \in {author[e.message], NoUser}
    BY <2>1, <2>2, <2>5, EventShape DEF Writes, AuthorInv, SendersRead
  <2>8. SendersRead'
    BY <2>1, <2>4, <2>7 DEF AuthorInv, SendersRead
  <2>9. DeletionsUnderWay'
    BY <2>4, <2>5 DEF AuthorInv, DeletionsUnderWay
  <2> QED BY <2>6, <2>8, <2>9 DEF AuthorInv
<1>6. CASE finishes(c)
  <2>1. /\ thread'[c].message = thread[c].message /\ thread'[c].at = "Finished"
        /\ \A d \in Chat \ {c} : thread'[d] = thread[d]
    BY <1>6, ThreadShape DEF finishes, SendingTypeOK
  <2>2. \A d \in Chat, m \in Message : InWork(d, m)' => InWork(d, m)
    BY <1>6, <2>1 DEF finishes, InWork
  <2> QED BY <1>1, <1>6, <2>1, <2>2 DEF finishes, session, output
<1> QED BY <1>2, <1>3, <1>4, <1>5, <1>6 DEF Sender

\* A message goes out under the user who wrote it or under none, although its
\* sender thread reads the user again long after (MessageSender.cpp:21): the next
\* user's login comes after the GUI thread has waited for the old chats.
THEOREM AuthorsKept == Spec => []WrittenAsAuthor
<1>1. Init => AuthorInv
  <2> SUFFICES ASSUME Init PROVE AuthorInv
    OBVIOUS
  <2>1. \A x : ~Contains(<<>>, x)
    BY DEF Contains
  <2>2. Resting /\ AuthorsLoggedIn /\ DeletionsUnderWay
    BY <2>1, SendingAssumption DEF Init, Idle, Resting, AuthorsLoggedIn, InWork, DeletionsUnderWay
  <2>3. SendersRead
    BY <2>1 DEF Init, Idle, SendersRead
  <2> QED BY <2>2, <2>3 DEF AuthorInv
<1>2. SendingTypeOK /\ AuthorInv /\ [Next]_vars => AuthorInv'
  <2> SUFFICES ASSUME SendingTypeOK, AuthorInv, [Next]_vars PROVE AuthorInv'
    OBVIOUS
  <2>1. Resting'
    BY RestingStep DEF AuthorInv
  <2>2. CASE UNCHANGED vars
    BY <2>2 DEF vars, AuthorInv, Resting, AuthorsLoggedIn, SendersRead, DeletionsUnderWay, InWork
  <2> QED BY <2>1, <2>2, AuthorsExternal, AuthorsGui, AuthorsSender DEF Next
<1>3. AuthorInv => WrittenAsAuthor
  BY DEF AuthorInv, SendersRead, WrittenAsAuthor
<1> QED BY <1>1, <1>2, <1>3, SendingTyped, PTL DEF Spec

-----------------------------------------------------------------------------
(* Once. *)

DoneWith(m, w, l) == m \in l \/ \E i \in DOMAIN w : w[i].message = m

Done(m) == DoneWith(m, written, lost)

Posted(m) == \E i \in DOMAIN events : events[i].type = "writeBytes" /\ events[i].message = m

\* A message is at one place: in the work of one chat, posted, or done; and it
\* is at none before it is submitted.
OnePlace ==
    \A m \in Message :
        /\ status[m] = "None" => ~Done(m) /\ ~Posted(m) /\ \A c \in Chat : ~InWork(c, m)
        /\ Done(m) => ~Posted(m) /\ \A c \in Chat : ~InWork(c, m)
        /\ Posted(m) => \A c \in Chat : ~InWork(c, m)
        /\ \A c, d \in Chat : InWork(c, m) /\ InWork(d, m) => c = d

Distinct(queue) == \A i, j \in DOMAIN queue : queue[i] = queue[j] => i = j

\* It is there once.
QueuesDistinct ==
    \A c \in Chat :
        /\ Distinct(inbox[c])
        /\ ~Contains(inbox[c], thread[c].message)

PostedDistinct ==
    \A i, j \in DOMAIN events :
        events[i].type = "writeBytes" /\ events[j].type = "writeBytes"
            /\ events[i].message = events[j].message => i = j

WrittenDistinct ==
    \A i, j \in DOMAIN written : written[i].message = written[j].message => i = j

\* The GUI thread learns that a message was sent after it was told to write it.
SentFollows ==
    /\ \A j \in DOMAIN events : events[j].type = "onMessageSent" =>
          \/ Done(events[j].message)
          \/ \E i \in DOMAIN events :
                i < j /\ events[i].type = "writeBytes" /\ events[i].message = events[j].message
    /\ \A m \in Message : status[m] = "Sent" => Done(m)

OnceInv == OnePlace /\ QueuesDistinct /\ PostedDistinct /\ WrittenDistinct /\ SentFollows

\* Where the elements of a concatenation come from.
LEMMA ConcatIndices ==
    ASSUME NEW S, NEW s \in Seq(S), NEW t \in Seq(S)
    PROVE  /\ \A i \in DOMAIN s : i \in DOMAIN (s \o t) /\ (s \o t)[i] = s[i]
           /\ \A i \in DOMAIN t : Len(s) + i \in DOMAIN (s \o t) /\ (s \o t)[Len(s) + i] = t[i]
           /\ \A i \in DOMAIN (s \o t) : \/ i \in DOMAIN s
                                         \/ i - Len(s) \in DOMAIN t /\ Len(s) + (i - Len(s)) = i
           /\ DOMAIN s = 1..Len(s) /\ Len(s) \in Nat /\ DOMAIN t = 1..Len(t) /\ Len(t) \in Nat
<1>1. /\ Len(s \o t) = Len(s) + Len(t)
      /\ Len(s) \in Nat /\ Len(t) \in Nat
      /\ DOMAIN s = 1..Len(s) /\ DOMAIN t = 1..Len(t) /\ DOMAIN (s \o t) = 1..Len(s \o t)
      /\ \A i \in 1..Len(s) : (s \o t)[i] = s[i]
      /\ \A i \in 1..Len(t) : (s \o t)[Len(s) + i] = t[i]
  BY SMT
<1> QED BY <1>1

\* Where the elements of a tail come from.
LEMMA TailIndices ==
    ASSUME NEW S, NEW s \in Seq(S), s # <<>>
    PROVE  /\ \A i \in DOMAIN Tail(s) : i + 1 \in DOMAIN s /\ i + 1 # 1 /\ Tail(s)[i] = s[i + 1]
           /\ \A i \in DOMAIN s : i = 1 \/ (i - 1 \in DOMAIN Tail(s) /\ (i - 1) + 1 = i)
           /\ 1 \in DOMAIN s /\ Head(s) = s[1]
           /\ DOMAIN s \subseteq Nat /\ DOMAIN Tail(s) \subseteq Nat
<1>1. /\ Len(Tail(s)) = Len(s) - 1 /\ Tail(s) \in Seq(S)
      /\ \A i \in 1..Len(Tail(s)) : Tail(s)[i] = s[i + 1]
      /\ Len(s) \in Nat \ {0}
      /\ Head(s) = s[1]
  BY HeadTailProperties, EmptySeq
<1>2. DOMAIN s = 1..Len(s) /\ DOMAIN Tail(s) = 1..Len(Tail(s))
  BY <1>1, LenProperties
<1> QED BY <1>1, <1>2

\* Events that are no writes and no reports, joining the queue, change nothing.
LEMMA OnceDeletions ==
    ASSUME SendingTypeOK, OnceInv, NEW more \in Seq(Event), events' = events \o more,
           \A i \in DOMAIN more : more[i].type = "deleteLater",
           UNCHANGED <<status, inbox, thread, written, lost>>
    PROVE  OnceInv'
<1>1. /\ \A i \in DOMAIN events : i \in DOMAIN events' /\ events'[i] = events[i]
      /\ \A i \in DOMAIN events' :
           i \in DOMAIN events \/ (i \in Nat /\ events'[i].type = "deleteLater")
      /\ DOMAIN events \subseteq Nat
  BY ConcatIndices DEF SendingTypeOK
<1>2. \A m : (Posted(m)' <=> Posted(m)) /\ (Done(m)' <=> Done(m))
  BY <1>1 DEF Posted, Done, DoneWith
<1>3. \A c \in Chat, m \in Message : InWork(c, m)' <=> InWork(c, m)
  BY DEF InWork
<1>4. OnePlace'
  BY <1>2, <1>3 DEF OnceInv, OnePlace
<1>5. QueuesDistinct' /\ WrittenDistinct'
  BY DEF OnceInv, QueuesDistinct, WrittenDistinct, Distinct
<1>6. PostedDistinct'
  BY <1>1 DEF OnceInv, PostedDistinct
<1>7. SentFollows'
  <2>1. ASSUME NEW j \in DOMAIN events', events'[j].type = "onMessageSent"
        PROVE  \/ DoneWith(events'[j].message, written', lost')
               \/ \E i \in DOMAIN events' : /\ i < j /\ events'[i].type = "writeBytes"
                                            /\ events'[i].message = events'[j].message
    <3>1. j \in DOMAIN events /\ events'[j] = events[j]
      BY <1>1, <2>1
    <3>2. \/ Done(events[j].message)
          \/ \E i \in DOMAIN events :
                i < j /\ events[i].type = "writeBytes" /\ events[i].message = events[j].message
      BY <2>1, <3>1 DEF OnceInv, SentFollows
    <3>3. CASE Done(events[j].message)
      BY <1>2, <3>1, <3>3 DEF Done, DoneWith
    <3> QED BY <1>1, <3>1, <3>2, <3>3
  <2> QED BY <1>2, <2>1 DEF OnceInv, SentFollows, Done
<1> QED BY <1>4, <1>5, <1>6, <1>7 DEF OnceInv

\* Socket and user events: a message is submitted once.
LEMMA OnceExternal == ASSUME SendingTypeOK, OnceInv, External PROVE OnceInv'
<1>1. ASSUME UNCHANGED <<status, inbox, thread, events, written, lost>> PROVE OnceInv'
  BY <1>1 DEF OnceInv, OnePlace, Done, DoneWith, Posted, InWork, QueuesDistinct, Distinct,
              PostedDistinct, WrittenDistinct, SentFollows
<1>2. ASSUME NEW cs \in SUBSET Chat, removeChats(cs),
             UNCHANGED <<status, inbox, thread, written, lost>>
      PROVE  OnceInv'
  <2>1. PICK order \in SetToSeqs(cs) :
          events' = events \o [i \in DOMAIN order |-> DeleteEvent(order[i])]
    BY <1>2 DEF removeChats
  <2> DEFINE more == [i \in DOMAIN order |-> DeleteEvent(order[i])]
  <2>2. more \in Seq(Event)
    BY Deletions
  <2>3. \A i \in DOMAIN more : more[i].type = "deleteLater"
    BY DEF DeleteEvent
  <2> QED BY <1>2, <2>1, <2>2, <2>3, OnceDeletions
<1>3. {} \in SUBSET Chat /\ LiveChats \in SUBSET Chat /\ \A c \in Chat : {c} \in SUBSET Chat
  BY DEF LiveChats
<1>4. CASE onConnected
  BY <1>1, <1>4 DEF onConnected, output
<1>5. CASE onDisconnected
  <2>1. (IF user = NoUser THEN {} ELSE LiveChats) \in SUBSET Chat
    BY <1>3
  <2> QED BY <1>2, <1>5, <2>1 DEF onDisconnected, output
<1>6. ASSUME NEW u \in User, loggedIn(u) PROVE OnceInv'
  BY <1>1, <1>6 DEF loggedIn, output
<1>7. CASE loggedOut
  BY <1>2, <1>3, <1>7 DEF loggedOut, output
<1>8. ASSUME NEW d \in Chat, addChat(d) PROVE OnceInv'
  BY <1>1, <1>8 DEF addChat, output
<1>9. ASSUME NEW d \in Chat, removeChat(d) PROVE OnceInv'
  BY <1>2, <1>3, <1>9 DEF removeChat, output
<1>10. ASSUME NEW d \in Chat, NEW m \in Message, submitMessage(d, m) PROVE OnceInv'
  <2> DEFINE q == inbox[d]
  <2>1. /\ status[m] = "None" /\ status' = [status EXCEPT ![m] = "Loading"]
        /\ inbox' = [inbox EXCEPT ![d] = Append(q, m)]
        /\ UNCHANGED <<thread, events, written, lost>>
    BY <1>10 DEF submitMessage, output
  <2>2. q \in Seq(Message) /\ \A c \in Chat : ~InWork(c, m)
    BY <2>1 DEF OnceInv, OnePlace, SendingTypeOK
  <2>3. \A n : Contains(Append(q, m), n) <=> Contains(q, n) \/ n = m
    BY <2>2, ContainsAppend
  <2>4. \A c \in Chat, n \in Message :
          InWork(c, n)' <=> InWork(c, n) \/ (c = d /\ n = m)
    BY <2>1, <2>3 DEF InWork, SendingTypeOK
  <2>5. \A n : (Posted(n)' <=> Posted(n)) /\ (Done(n)' <=> Done(n))
    BY <2>1 DEF Posted, Done, DoneWith
  <2>6. OnePlace'
    BY <2>1, <2>2, <2>4, <2>5 DEF OnceInv, OnePlace, SendingTypeOK
  <2>7. QueuesDistinct'
    <3>1. ~Contains(q, m) /\ thread[d].message # m
      BY <2>2 DEF InWork
    <3>2. Distinct(Append(q, m))
      <4>1. \A i \in DOMAIN q : q[i] # m
        BY <2>2, <3>1, LenProperties DEF Contains
      <4>2. /\ DOMAIN q = 1..Len(q) /\ Len(q) \in Nat
            /\ DOMAIN Append(q, m) = 1..(Len(q) + 1)
            /\ \A i \in DOMAIN q : Append(q, m)[i] = q[i]
            /\ Append(q, m)[Len(q) + 1] = m
        BY <2>2, AppendProperties, LenProperties
      <4>3. Distinct(q)
        BY DEF OnceInv, QueuesDistinct
      <4> HIDE DEF q
      <4> QED BY <4>1, <4>2, <4>3 DEF Distinct
    <3>3. ~Contains(Append(q, m), thread[d].message)
      BY <2>3, <3>1 DEF OnceInv, QueuesDistinct
    <3>4. inbox'[d] = Append(q, m) /\ \A c \in Chat \ {d} : inbox'[c] = inbox[c]
      BY <2>1 DEF SendingTypeOK
    <3> HIDE DEF q
    <3> QED BY <2>1, <3>2, <3>3, <3>4 DEF OnceInv, QueuesDistinct
  <2>8. PostedDistinct' /\ WrittenDistinct'
    BY <2>1 DEF OnceInv, PostedDistinct, WrittenDistinct
  <2>9. SentFollows'
    BY <2>1, <2>5 DEF OnceInv, SentFollows, SendingTypeOK
  <2> QED BY <2>6, <2>7, <2>8, <2>9 DEF OnceInv
<1> QED BY <1>4, <1>5, <1>6, <1>7, <1>8, <1>9, <1>10 DEF External

\* The steps of the GUI thread: what it handles is gone from the queue, a write
\* is done, and the report of a message finds it done.
LEMMA OnceGui == ASSUME SendingTypeOK, OnceInv, Gui PROVE OnceInv'
<1>1. CASE handleEvent
  <2> PICK e : e = events[1]
    OBVIOUS
  <2> DEFINE W == [message : Message, sender : User \cup {NoUser}]
  <2>1. events \in Seq(Event) /\ events # <<>> /\ events' = Tail(events)
    BY <1>1 DEF handleEvent, Take, SendingTypeOK
  <2>2. /\ \A i \in DOMAIN events' : i + 1 \in DOMAIN events /\ i + 1 # 1 /\ events'[i] = events[i + 1]
        /\ \A i \in DOMAIN events : i = 1 \/ (i - 1 \in DOMAIN events' /\ (i - 1) + 1 = i)
        /\ 1 \in DOMAIN events /\ Head(events) = e
        /\ DOMAIN events \subseteq Nat /\ DOMAIN events' \subseteq Nat
    BY <2>1, TailIndices
  <2>3. e \in Event
    BY <2>1, <2>2, EventTypes
  <2>4. /\ writeBytes(e) \/ onMessageSent(e) \/ deleteChat(e)
        /\ thread' = thread
    BY <1>1, <2>2 DEF handleEvent, Take
  <2>5. inbox' = inbox
    BY <2>4 DEF writeBytes, onMessageSent, deleteChat
  <2>6. \A c \in Chat, m \in Message : InWork(c, m)' <=> InWork(c, m)
    BY <2>4, <2>5 DEF InWork
  <2>7. QueuesDistinct'
    BY <2>4, <2>5 DEF OnceInv, QueuesDistinct, Distinct
  <2>8. PostedDistinct'
    BY <2>2 DEF OnceInv, PostedDistinct
  <2>9. \A m : Posted(m)' => Posted(m)
    BY <2>2 DEF Posted
  <2>10. CASE writeBytes(e)
    <3> DEFINE m == e.message
               w == [message |-> e.message, sender |-> e.sender]
    <3>1. e.type = "writeBytes" /\ m \in Message /\ status' = status
      BY <2>3, <2>10, EventShape DEF writeBytes
    <3>2. w \in W /\ written \in Seq(W) /\ w.message = m
      BY <2>3, <3>1, EventShape DEF SendingTypeOK
    <3>3. \/ written' = Append(written, w) /\ lost' = lost
          \/ written' = written /\ lost' = lost \cup {m}
      BY <2>10 DEF writeBytes
    <3>4. Posted(m) /\ ~Posted(m)'
      BY <2>2, <3>1 DEF Posted, OnceInv, PostedDistinct
    <3> HIDE DEF w, W, m
    <3>5. /\ \A i \in DOMAIN written : i \in DOMAIN written' /\ written'[i] = written[i]
          /\ \A i \in DOMAIN written' : i \in DOMAIN written \/ (i = Len(written) + 1 /\ written'[i] = w)
          /\ written' # written => \E i \in DOMAIN written' : written'[i] = w
      BY <3>2, <3>3, AppendProperties, LenProperties
    <3>6. \A n \in Message : Done(n)' <=> Done(n) \/ n = m
      BY <3>2, <3>3, <3>5 DEF Done, DoneWith
    <3>7. ~Done(m) /\ (\A c \in Chat : ~InWork(c, m)) /\ status[m] # "None"
      BY <3>1, <3>4 DEF OnceInv, OnePlace, m
    <3>8. OnePlace'
      BY <2>6, <2>9, <3>1, <3>4, <3>6, <3>7 DEF OnceInv, OnePlace, m
    <3>9. WrittenDistinct'
      <4>1. \A i \in DOMAIN written : written[i].message # m
        BY <3>7 DEF Done, DoneWith
      <4> QED BY <3>2, <3>5, <4>1 DEF OnceInv, WrittenDistinct
    <3>10. ASSUME NEW j \in DOMAIN events', events'[j].type = "onMessageSent"
           PROVE  \/ DoneWith(events'[j].message, written', lost')
                  \/ \E i \in DOMAIN events' : /\ i < j /\ events'[i].type = "writeBytes"
                                               /\ events'[i].message = events'[j].message
      <4>1. j + 1 \in DOMAIN events /\ events[j + 1] = events'[j]
        BY <2>2, <3>10
      <4> PICK n : n = events'[j].message
        OBVIOUS
      <4>2. n \in Message
        BY <2>1, <3>10, <4>1, ElementOfSeq, LenProperties, EventShape
      <4>3. \/ Done(n)
            \/ \E i \in DOMAIN events :
                 i < j + 1 /\ events[i].type = "writeBytes" /\ events[i].message = n
        BY <3>10, <4>1 DEF OnceInv, SentFollows
      <4>4. ASSUME NEW i \in DOMAIN events, i < j + 1, events[i].type = "writeBytes",
                   events[i].message = n
            PROVE  n = m \/ \E k \in DOMAIN events' : /\ k < j /\ events'[k].type = "writeBytes"
                                                      /\ events'[k].message = n
        <5>1. CASE i = 1
          BY <4>4, <5>1 DEF m
        <5>2. CASE i # 1
          <6>1. i - 1 \in DOMAIN events' /\ (i - 1) + 1 = i /\ i \in Nat /\ j \in Nat
            BY <2>2, <5>2
          <6>2. events'[i - 1] = events[i] /\ i - 1 < j
            BY <2>2, <4>4, <6>1
          <6> QED BY <4>4, <6>1, <6>2
        <5> QED BY <5>1, <5>2
      <4>5. Done(n) \/ n = m => Done(n)'
        BY <3>6, <4>2
      <4> QED BY <4>3, <4>4, <4>5 DEF Done, DoneWith
    <3>11. SentFollows'
      BY <3>1, <3>6, <3>10 DEF OnceInv, SentFollows, Done
    <3> QED BY <2>7, <2>8, <3>8, <3>9, <3>11 DEF OnceInv
  <2>11. CASE ~writeBytes(e)
    <3>1. /\ e.type # "writeBytes" /\ UNCHANGED <<written, lost>>
          /\ \/ status' = status
             \/ /\ e.type = "onMessageSent" /\ e.message \in Message
                /\ status' = [status EXCEPT ![e.message] = "Sent"]
      BY <2>3, <2>4, <2>11, EventShape DEF onMessageSent, deleteChat, output
    <3>2. \A m : Done(m)' <=> Done(m)
      BY <3>1 DEF Done, DoneWith
    <3>3. e.type = "onMessageSent" => Done(e.message)
      <4>1. ~\E i \in DOMAIN events : i < 1
        BY <2>1, LenProperties
      <4> QED BY <2>2, <4>1 DEF OnceInv, SentFollows
    <3>4. OnePlace'
      BY <2>6, <2>9, <3>1, <3>2 DEF OnceInv, OnePlace, SendingTypeOK
    <3>5. ASSUME NEW j \in DOMAIN events', events'[j].type = "onMessageSent"
          PROVE  \/ DoneWith(events'[j].message, written', lost')
                 \/ \E i \in DOMAIN events' : /\ i < j /\ events'[i].type = "writeBytes"
                                              /\ events'[i].message = events'[j].message
      <4>1. j + 1 \in DOMAIN events /\ events[j + 1] = events'[j]
        BY <2>2, <3>5
      <4> PICK n : n = events'[j].message
        OBVIOUS
      <4>2. \/ Done(n)
            \/ \E i \in DOMAIN events :
                 i < j + 1 /\ events[i].type = "writeBytes" /\ events[i].message = n
        BY <3>5, <4>1 DEF OnceInv, SentFollows
      <4>3. ASSUME NEW i \in DOMAIN events, i < j + 1, events[i].type = "writeBytes",
                   events[i].message = n
            PROVE  \E k \in DOMAIN events' : /\ k < j /\ events'[k].type = "writeBytes"
                                             /\ events'[k].message = n
        <5>1. i # 1
          BY <3>1, <4>3
        <5>2. i - 1 \in DOMAIN events' /\ (i - 1) + 1 = i /\ i \in Nat /\ j \in Nat
          BY <2>2, <5>1
        <5>3. events'[i - 1] = events[i] /\ i - 1 < j
          BY <2>2, <4>3, <5>2
        <5> QED BY <4>3, <5>2, <5>3
      <4>4. Done(n) => Done(n)'
        BY <3>2
      <4> QED BY <4>2, <4>3, <4>4 DEF Done, DoneWith
    <3>6. SentFollows'
      BY <3>1, <3>2, <3>3, <3>5 DEF OnceInv, SentFollows, Done, SendingTypeOK
    <3>7. WrittenDistinct'
      BY <3>1 DEF OnceInv, WrittenDistinct
    <3> QED BY <2>7, <2>8, <3>4, <3>6, <3>7 DEF OnceInv
  <2> QED BY <2>10, <2>11
<1>2. ASSUME NEW c \in Chat, waitReturns(c) PROVE OnceInv'
  <2>1. /\ inbox' = [inbox EXCEPT ![c] = <<>>]
        /\ UNCHANGED <<status, thread, events, written, lost>>
    BY <1>2 DEF waitReturns, output
  <2>2. \A x : ~Contains(<<>>, x)
    BY DEF Contains
  <2>3. \A d \in Chat, m \in Message : InWork(d, m)' => InWork(d, m)
    BY <2>1, <2>2 DEF InWork, SendingTypeOK
  <2>4. Distinct(<<>>)
    BY DEF Distinct
  <2>5. OnePlace'
    BY <2>1, <2>3 DEF OnceInv, OnePlace, Done, DoneWith, Posted
  <2>6. QueuesDistinct'
    BY <2>1, <2>2, <2>4 DEF OnceInv, QueuesDistinct, SendingTypeOK
  <2> QED BY <2>1, <2>5, <2>6 DEF OnceInv, PostedDistinct, WrittenDistinct, SentFollows, Done, DoneWith
<1> QED BY <1>1, <1>2 DEF Gui

\* The steps of a sender thread move a message from the queue to the hand and
\* from there to the GUI thread's queue.
LEMMA OnceSender ==
    ASSUME SendingTypeOK, OnceInv, NEW c \in Chat, Sender(c)
    PROVE  OnceInv'
<1>1. ASSUME UNCHANGED <<status, events, written, lost>>,
             \A d \in Chat, m \in Message : InWork(d, m)' => InWork(d, m),
             QueuesDistinct'
      PROVE  OnceInv'
  <2>1. OnePlace'
    BY <1>1 DEF OnceInv, OnePlace, Done, DoneWith, Posted
  <2> QED BY <1>1, <2>1
          DEF OnceInv, PostedDistinct, WrittenDistinct, SentFollows, Done, DoneWith
<1>2. CASE processMessage(c)
  <2> DEFINE q == inbox[c]
  <2>1. /\ q # <<>> /\ q \in Seq(Message)
        /\ thread'[c].message = Head(q)
        /\ inbox'[c] = Tail(q)
        /\ \A d \in Chat \ {c} : thread'[d] = thread[d] /\ inbox'[d] = inbox[d]
    BY <1>2 DEF processMessage, Take, Idle, SendingTypeOK
  <2>2. \A m : Contains(q, m) <=> m = Head(q) \/ Contains(Tail(q), m)
    BY <2>1, ContainsTail
  <2>3. \A d \in Chat, m \in Message : InWork(d, m)' => InWork(d, m)
    BY <2>1, <2>2 DEF InWork
  <2>4. Distinct(q)
    BY DEF OnceInv, QueuesDistinct
  <2>5. Distinct(Tail(q)) /\ ~Contains(Tail(q), Head(q))
    <3>1. /\ \A i \in DOMAIN Tail(q) : i + 1 \in DOMAIN q /\ i + 1 # 1 /\ Tail(q)[i] = q[i + 1]
          /\ 1 \in DOMAIN q /\ Head(q) = q[1]
          /\ DOMAIN q \subseteq Nat /\ DOMAIN Tail(q) \subseteq Nat
          /\ DOMAIN Tail(q) = 1..Len(Tail(q))
      <4>1. Tail(q) \in Seq(Message)
        BY <2>1, HeadTailProperties
      <4> QED BY <2>1, <4>1, TailIndices, LenProperties
    <3> HIDE DEF q
    <3>2. Distinct(Tail(q))
      BY <2>4, <3>1 DEF Distinct
    <3>3. \A i \in DOMAIN Tail(q) : Tail(q)[i] # Head(q)
      BY <2>4, <3>1 DEF Distinct
    <3> QED BY <3>1, <3>2, <3>3 DEF Contains
  <2>6. QueuesDistinct'
    BY <2>1, <2>5 DEF OnceInv, QueuesDistinct
  <2> QED BY <1>1, <1>2, <2>3, <2>6 DEF processMessage, output
<1>3. CASE seesConnection(c) \/ readsUser(c) \/ finishes(c)
  <2>1. /\ thread'[c].message = thread[c].message /\ inbox' = inbox
        /\ \A d \in Chat \ {c} : thread'[d] = thread[d]
    BY <1>3, ThreadShape DEF seesConnection, readsUser, finishes, Thread, Working, Idle,
       Finished, SendingTypeOK
  <2>2. \A d \in Chat, m \in Message : InWork(d, m)' => InWork(d, m)
    BY <2>1 DEF InWork
  <2>3. QueuesDistinct'
    BY <2>1 DEF OnceInv, QueuesDistinct
  <2> QED BY <1>1, <1>3, <2>2, <2>3 DEF seesConnection, readsUser, finishes, output
<1>4. CASE posts(c)
  <2> PICK m : m = thread[c].message
    OBVIOUS
  <2> PICK u : u = thread[c].sender
    OBVIOUS
  <2> DEFINE p == PostMessage(m, u, c)
             n == Len(events)
  <2>1. /\ m \in Message /\ u \in User \cup {NoUser}
        /\ thread'[c].message = NoMessage /\ inbox' = inbox
        /\ \A d \in Chat \ {c} : thread'[d] = thread[d]
        /\ UNCHANGED <<status, written, lost>>
    BY <1>4, ThreadShape DEF posts, Thread, Working, Idle, Finished, SendingTypeOK, output
  <2>2. /\ p \in Seq(Event) /\ Len(p) = 2 /\ p[1] = WriteEvent(m, u) /\ p[2] = SentEvent(m, c)
        /\ events \in Seq(Event) /\ events' = events \o p
    <3>1. /\ p \in Seq(Event) /\ Len(p) = 2 /\ p[1] = WriteEvent(m, u) /\ p[2] = SentEvent(m, c)
      BY <2>1, PostType
    <3>2. events \in Seq(Event) /\ events' = events \o p
      BY <1>4 DEF posts, SendingTypeOK
    <3> HIDE DEF p
    <3> QED BY <3>1, <3>2
  <2>3. /\ WriteEvent(m, u).type = "writeBytes" /\ WriteEvent(m, u).message = m
        /\ SentEvent(m, c).type = "onMessageSent" /\ SentEvent(m, c).message = m
    BY DEF WriteEvent, SentEvent
  <2> HIDE DEF p
  <2>4. /\ DOMAIN events = 1..n /\ n \in Nat /\ DOMAIN events' = 1..(n + 2)
        /\ \A i \in 1..n : events'[i] = events[i]
        /\ events'[n + 1] = WriteEvent(m, u) /\ events'[n + 2] = SentEvent(m, c)
    <3>1. DOMAIN p = 1..2 /\ DOMAIN (events \o p) = 1..Len(events \o p)
          /\ Len(events \o p) = n + 2
      <4>1. Len(events) \in Nat /\ DOMAIN p = 1..Len(p)
        BY <2>2, LenProperties
      <4>2. events \o p \in Seq(Event) /\ Len(events \o p) = Len(events) + Len(p)
        BY <2>2, ConcatProperties
      <4>3. DOMAIN (events \o p) = 1..Len(events \o p)
        BY <4>2, LenProperties
      <4> QED BY <2>2, <4>1, <4>2, <4>3
    <3>2. 1 \in DOMAIN p /\ 2 \in DOMAIN p
      BY <3>1
    <3> QED BY <2>2, <3>1, <3>2, ConcatIndices
  <2> HIDE DEF n
  <2>5. \A i \in DOMAIN events' :
          \/ i \in DOMAIN events /\ events'[i] = events[i]
          \/ i = n + 1 /\ events'[i] = WriteEvent(m, u)
          \/ i = n + 2 /\ events'[i] = SentEvent(m, c)
    BY <2>4
  <2>6. InWork(c, m) /\ ~Posted(m) /\ ~Done(m)
    BY <2>1 DEF InWork, OnceInv, OnePlace
  <2>7. \A k \in Message : Posted(k)' <=> Posted(k) \/ k = m
    <3>1. \A k \in Message : Posted(k)' => Posted(k) \/ k = m
      BY <2>3, <2>5 DEF Posted
    <3>2. n + 1 \in DOMAIN events' /\ \A i \in DOMAIN events : i \in DOMAIN events'
      BY <2>4
    <3> QED BY <2>3, <2>4, <3>1, <3>2 DEF Posted
  <2>8. \A k : Done(k)' <=> Done(k)
    BY <2>1 DEF Done, DoneWith
  <2>9. /\ \A d \in Chat, k \in Message : InWork(d, k)' => InWork(d, k)
        /\ \A d \in Chat : ~InWork(d, m)'
    <3>1. ~Contains(inbox[c], m)
      BY <2>1 DEF OnceInv, QueuesDistinct
    <3>2. \A d \in Chat, k \in Message : InWork(d, k)' => InWork(d, k)
      BY <2>1, SendingAssumption DEF InWork
    <3>3. ~InWork(c, m)'
      BY <2>1, <3>1, SendingAssumption DEF InWork
    <3>4. \A d \in Chat \ {c} : ~InWork(d, m)
      BY <2>1, <2>6 DEF OnceInv, OnePlace
    <3> QED BY <2>1, <3>2, <3>3, <3>4 DEF InWork
  <2>10. OnePlace'
    BY <2>1, <2>6, <2>7, <2>8, <2>9 DEF OnceInv, OnePlace
  <2>11. QueuesDistinct'
    <3>1. \A q \in Seq(Message) : ~Contains(q, NoMessage)
      BY ContainsType, SendingAssumption
    <3> QED BY <2>1, <3>1 DEF OnceInv, QueuesDistinct, SendingTypeOK
  <2>12. PostedDistinct'
    <3>1. \A i \in DOMAIN events : events[i].type = "writeBytes" => events[i].message # m
      BY <2>6 DEF Posted
    <3>2. ASSUME NEW i \in DOMAIN events', NEW j \in DOMAIN events',
                 events'[i].type = "writeBytes", events'[j].type = "writeBytes",
                 events'[i].message = events'[j].message
          PROVE  i = j
      <4>1. /\ \/ i \in DOMAIN events /\ events'[i] = events[i]
               \/ i = n + 1 /\ events'[i].message = m
            /\ \/ j \in DOMAIN events /\ events'[j] = events[j]
               \/ j = n + 1 /\ events'[j].message = m
        BY <2>3, <2>5, <3>2
      <4> QED BY <3>1, <3>2, <4>1 DEF OnceInv, PostedDistinct
    <3> QED BY <3>2 DEF PostedDistinct
  <2>13. WrittenDistinct'
    BY <2>1 DEF OnceInv, WrittenDistinct
  <2>14. SentFollows'
    <3>1. ASSUME NEW j \in DOMAIN events', events'[j].type = "onMessageSent"
          PROVE  \/ DoneWith(events'[j].message, written', lost')
                 \/ \E i \in DOMAIN events' : /\ i < j /\ events'[i].type = "writeBytes"
                                              /\ events'[i].message = events'[j].message
      <4>1. CASE j \in DOMAIN events /\ events'[j] = events[j]
        <5>1. \/ Done(events[j].message)
              \/ \E i \in DOMAIN events :
                    i < j /\ events[i].type = "writeBytes" /\ events[i].message = events[j].message
          BY <3>1, <4>1 DEF OnceInv, SentFollows
        <5>2. \A i \in DOMAIN events : i \in DOMAIN events' /\ events'[i] = events[i]
          BY <2>4
        <5> QED BY <2>1, <4>1, <5>1, <5>2 DEF Done
      <4>2. CASE j = n + 2
        <5>1. n + 1 \in DOMAIN events' /\ n + 1 < j
          BY <2>4, <4>2
        <5> QED BY <2>3, <2>4, <4>2, <5>1
      <4> QED BY <2>3, <2>5, <3>1, <4>1, <4>2
    <3> QED BY <2>1, <2>8, <3>1 DEF OnceInv, SentFollows, Done
  <2> QED BY <2>10, <2>11, <2>12, <2>13, <2>14 DEF OnceInv
<1> QED BY <1>2, <1>3, <1>4 DEF Sender

\* Every message is at one place, once.
THEOREM OnceHolds == Spec => []OnceInv
<1>1. Init => OnceInv
  <2> SUFFICES ASSUME Init PROVE OnceInv
    OBVIOUS
  <2>1. \A x : ~Contains(<<>>, x)
    BY DEF Contains
  <2>2. \A m \in Message : ~Done(m) /\ ~Posted(m) /\ \A c \in Chat : ~InWork(c, m)
    BY <2>1, SendingAssumption DEF Init, Idle, Done, DoneWith, Posted, InWork
  <2>3. QueuesDistinct
    BY <2>1 DEF Init, QueuesDistinct, Distinct
  <2> QED BY <2>2, <2>3 DEF Init, OnceInv, OnePlace, PostedDistinct, WrittenDistinct, SentFollows
<1>2. SendingTypeOK /\ OnceInv /\ [Next]_vars => OnceInv'
  <2>1. ASSUME SendingTypeOK, OnceInv, UNCHANGED vars PROVE OnceInv'
    BY <2>1 DEF vars, OnceInv, OnePlace, QueuesDistinct, Distinct, PostedDistinct,
       WrittenDistinct, SentFollows, Done, DoneWith, Posted, InWork
  <2> QED BY <2>1, OnceExternal, OnceGui, OnceSender DEF Next
<1> QED BY <1>1, <1>2, SendingTyped, PTL DEF Spec

\* No message is written twice, and "sent" means that the GUI thread has tried to
\* write it, whatever disconnects, logs out or deletes chats in between
\* (MessageSender.cpp:25, Chat.cpp).
THEOREM WrittenOnce == Spec => []MarkedAfterWriting
<1>1. OnceInv => MarkedAfterWriting
  BY DEF OnceInv, WrittenDistinct, SentFollows, Done, DoneWith, MarkedAfterWriting
<1> QED BY <1>1, OnceHolds, PTL

-----------------------------------------------------------------------------
(* Order. *)

\* In a queue, n stands in front of m.
InFront(queue, n, m) == \E i, j \in DOMAIN queue : i < j /\ queue[i] = n /\ queue[j] = m

InWrite(n) == \E i \in DOMAIN written : written[i].message = n

WrittenInFront(n, m) ==
    \E i, j \in DOMAIN written : i < j /\ written[i].message = n /\ written[j].message = m

PostedInFront(n, m) ==
    \E i, j \in DOMAIN events :
        /\ i < j
        /\ events[i].type = "writeBytes" /\ events[i].message = n
        /\ events[j].type = "writeBytes" /\ events[j].message = m

\* The message n is ahead of m: in the same queue, or one stage further.
Ahead(n, m) ==
    \/ WrittenInFront(n, m)
    \/ InWrite(n) /\ Posted(m)
    \/ InWrite(n) /\ \E c \in Chat : InWork(c, m)
    \/ PostedInFront(n, m)
    \/ Posted(n) /\ \E c \in Chat : InWork(c, m)
    \/ \E c \in Chat : thread[c].message = n /\ Contains(inbox[c], m)
    \/ \E c \in Chat : InFront(inbox[c], n, m)

\* A message is in the list of the one chat that works on it, once it is submitted.
OwnMessages ==
    /\ \A c \in Chat, m \in Message : Contains(messages[c], m) => status[m] # "None"
    /\ \A c \in Chat, m \in Message : InWork(c, m) => Contains(messages[c], m)
    /\ \A c, d \in Chat, m \in Message : Contains(messages[c], m) /\ Contains(messages[d], m) => c = d

\* No message is ahead of one that its chat submitted earlier.
NoneAhead == \A m, n \in Message : Earlier(m, n) => ~Ahead(n, m)

OrderInv == OwnMessages /\ NoneAhead

\* What stands in front of another in a queue is in it.
LEMMA InFrontContained ==
    ASSUME NEW q \in Seq(Message), NEW n, NEW m, InFront(q, n, m)
    PROVE  Contains(q, n) /\ Contains(q, m)
<1>1. DOMAIN q = 1..Len(q)
  BY LenProperties
<1> QED BY <1>1 DEF InFront, Contains

\* An element that joins a queue stands in front of none there.
LEMMA InFrontAppend ==
    ASSUME NEW q \in Seq(Message), NEW e \in Message, NEW n, NEW m, InFront(Append(q, e), n, m)
    PROVE  Contains(q, n) /\ (InFront(q, n, m) \/ m = e)
<1>1. /\ DOMAIN q = 1..Len(q) /\ Len(q) \in Nat /\ DOMAIN Append(q, e) = 1..(Len(q) + 1)
      /\ \A i \in DOMAIN q : Append(q, e)[i] = q[i]
      /\ Append(q, e)[Len(q) + 1] = e
  BY AppendProperties, LenProperties
<1>2. PICK i, j \in DOMAIN Append(q, e) :
          i < j /\ Append(q, e)[i] = n /\ Append(q, e)[j] = m
  BY DEF InFront
<1>3. i \in DOMAIN q /\ q[i] = n
  BY <1>1, <1>2
<1>4. Contains(q, n)
  BY <1>1, <1>3 DEF Contains
<1>5. CASE j = Len(q) + 1
  BY <1>1, <1>2, <1>4, <1>5
<1>6. CASE j # Len(q) + 1
  <2>1. j \in DOMAIN q /\ q[j] = m
    BY <1>1, <1>2, <1>6
  <2> QED BY <1>2, <1>3, <1>4, <2>1 DEF InFront
<1> QED BY <1>5, <1>6

\* The elements of a tail stood in the same order before, behind the head.
LEMMA InFrontTail ==
    ASSUME NEW q \in Seq(Message), q # <<>>, NEW n, NEW m
    PROVE  /\ InFront(Tail(q), n, m) => InFront(q, n, m)
           /\ Contains(Tail(q), m) => InFront(q, Head(q), m)
<1>1. /\ \A i \in DOMAIN Tail(q) : i + 1 \in DOMAIN q /\ i + 1 # 1 /\ Tail(q)[i] = q[i + 1]
      /\ 1 \in DOMAIN q /\ Head(q) = q[1]
      /\ DOMAIN q \subseteq Nat /\ DOMAIN Tail(q) \subseteq Nat
  BY TailIndices
<1>2. DOMAIN Tail(q) = 1..Len(Tail(q))
  <2>1. Tail(q) \in Seq(Message)
    BY HeadTailProperties
  <2> QED BY <2>1, LenProperties
<1>3. ASSUME InFront(Tail(q), n, m) PROVE InFront(q, n, m)
  <2>1. PICK i, j \in DOMAIN Tail(q) : i < j /\ Tail(q)[i] = n /\ Tail(q)[j] = m
    BY <1>3 DEF InFront
  <2>2. /\ i + 1 \in DOMAIN q /\ j + 1 \in DOMAIN q /\ i + 1 < j + 1
        /\ q[i + 1] = n /\ q[j + 1] = m
    BY <1>1, <2>1
  <2> QED BY <2>2 DEF InFront
<1>4. ASSUME Contains(Tail(q), m) PROVE InFront(q, Head(q), m)
  <2>1. PICK j \in DOMAIN Tail(q) : Tail(q)[j] = m
    BY <1>2, <1>4 DEF Contains
  <2>2. j + 1 \in DOMAIN q /\ 1 < j + 1 /\ q[j + 1] = m
    <3>1. j \in Nat /\ j + 1 \in Nat /\ j + 1 \in DOMAIN q /\ j + 1 # 1 /\ q[j + 1] = m
      BY <1>1, <2>1
    <3>2. j # 0
      BY <3>1
    <3> QED BY <3>1, <3>2
  <2> QED BY <1>1, <2>2 DEF InFront
<1> QED BY <1>3, <1>4

\* A message that stands before another in a list is worked on by the same chat.
LEMMA EarlierSameChat ==
    ASSUME SendingTypeOK, OwnMessages, NEW m \in Message, NEW n \in Message, Earlier(m, n),
           NEW c \in Chat, NEW d \in Chat, InWork(c, n), InWork(d, m)
    PROVE  c = d
<1>1. PICK e \in Chat : InFront(messages[e], m, n)
  BY DEF Earlier, InFront
<1>2. messages[e] \in Seq(Message)
  BY DEF SendingTypeOK
<1>3. Contains(messages[e], m) /\ Contains(messages[e], n)
  BY <1>1, <1>2, InFrontContained
<1> QED BY <1>3 DEF OwnMessages

\* A step that submits nothing and puts no message ahead keeps the order.
LEMMA OrderRests ==
    ASSUME OrderInv, messages' = messages,
           \A m \in Message : status[m] # "None" => status'[m] # "None",
           \A c \in Chat, m \in Message : InWork(c, m)' => InWork(c, m),
           \A m, n \in Message : Earlier(m, n) /\ Ahead(n, m)' => Ahead(n, m)
    PROVE  OrderInv'
<1>1. \A m, n : Earlier(m, n)' <=> Earlier(m, n)
  BY DEF Earlier
<1>2. OwnMessages'
  BY DEF OrderInv, OwnMessages
<1>3. NoneAhead'
  BY <1>1 DEF OrderInv, NoneAhead
<1> QED BY <1>2, <1>3 DEF OrderInv

\* Deletions are no messages.
LEMMA OrderDeletions ==
    ASSUME SendingTypeOK, OrderInv, NEW cs \in SUBSET Chat, removeChats(cs),
           UNCHANGED <<status, messages, inbox, thread, written>>
    PROVE  OrderInv'
<1>1. PICK order \in SetToSeqs(cs) :
        events' = events \o [i \in DOMAIN order |-> DeleteEvent(order[i])]
  BY DEF removeChats
<1> DEFINE more == [i \in DOMAIN order |-> DeleteEvent(order[i])]
<1>2. more \in Seq(Event)
  BY Deletions
<1>3. \A i \in DOMAIN more : more[i].type = "deleteLater"
  BY DEF DeleteEvent
<1>4. events' = events \o more
  BY <1>1
<1> HIDE DEF more
<1>5. \A i \in DOMAIN events' :
        events'[i].type = "writeBytes" => i \in DOMAIN events /\ events'[i] = events[i]
  BY <1>2, <1>3, <1>4, ConcatIndices DEF SendingTypeOK
<1>6. \A m, n : (Posted(m)' => Posted(m)) /\ (PostedInFront(n, m)' => PostedInFront(n, m))
  BY <1>5 DEF Posted, PostedInFront
<1>7. \A m, n : (InWrite(n)' <=> InWrite(n)) /\ (WrittenInFront(n, m)' <=> WrittenInFront(n, m))
  BY DEF InWrite, WrittenInFront
<1>8. \A m : \A c \in Chat : InWork(c, m)' <=> InWork(c, m)
  BY DEF InWork
<1>9. \A m, n : Ahead(n, m)' => Ahead(n, m)
  BY <1>6, <1>7, <1>8 DEF Ahead
<1> QED BY <1>8, <1>9, OrderRests

\* Socket and user events: the message that is submitted is the last of its chat.
LEMMA OrderExternal ==
    ASSUME SendingTypeOK, OnceInv, OrderInv, External
    PROVE  OrderInv'
<1>1. ASSUME UNCHANGED <<status, messages, inbox, thread, events, written>> PROVE OrderInv'
  <2>1. \A m, n : Ahead(n, m)' <=> Ahead(n, m)
    BY <1>1 DEF Ahead, InWrite, WrittenInFront, Posted, PostedInFront, InWork
  <2>2. \A c \in Chat, m \in Message : InWork(c, m)' <=> InWork(c, m)
    BY <1>1 DEF InWork
  <2> QED BY <1>1, <2>1, <2>2, OrderRests
<1>2. {} \in SUBSET Chat /\ LiveChats \in SUBSET Chat /\ \A c \in Chat : {c} \in SUBSET Chat
  BY DEF LiveChats
<1>3. CASE onConnected
  BY <1>1, <1>3 DEF onConnected, output
<1>4. CASE onDisconnected
  <2>1. (IF user = NoUser THEN {} ELSE LiveChats) \in SUBSET Chat
    BY <1>2
  <2> QED BY <1>4, <2>1, OrderDeletions DEF onDisconnected, output
<1>5. ASSUME NEW u \in User, loggedIn(u) PROVE OrderInv'
  BY <1>1, <1>5 DEF loggedIn, output
<1>6. CASE loggedOut
  BY <1>2, <1>6, OrderDeletions DEF loggedOut, output
<1>7. ASSUME NEW d \in Chat, addChat(d) PROVE OrderInv'
  BY <1>1, <1>7 DEF addChat, output
<1>8. ASSUME NEW d \in Chat, removeChat(d) PROVE OrderInv'
  BY <1>2, <1>8, OrderDeletions DEF removeChat, output
<1>9. ASSUME NEW d \in Chat, NEW m \in Message, submitMessage(d, m) PROVE OrderInv'
  <2> DEFINE q == inbox[d]
             own == messages[d]
  <2>1. /\ status[m] = "None" /\ status' = [status EXCEPT ![m] = "Loading"]
        /\ inbox'[d] = Append(q, m) /\ messages'[d] = Append(own, m)
        /\ \A c \in Chat \ {d} : inbox'[c] = inbox[c] /\ messages'[c] = messages[c]
        /\ UNCHANGED <<thread, events, written>>
    BY <1>9 DEF submitMessage, output, SendingTypeOK
  <2>2. q \in Seq(Message) /\ own \in Seq(Message)
    BY DEF SendingTypeOK
  <2>3. /\ \A c \in Chat : ~InWork(c, m)
        /\ ~Posted(m) /\ ~InWrite(m)
        /\ \A c \in Chat : ~Contains(messages[c], m)
    BY <2>1 DEF OnceInv, OnePlace, Done, DoneWith, InWrite, OrderInv, OwnMessages
  <2>4. /\ \A n : Contains(Append(q, m), n) <=> Contains(q, n) \/ n = m
        /\ \A n : Contains(Append(own, m), n) <=> Contains(own, n) \/ n = m
    BY <2>2, ContainsAppend
  <2>5. \A n : \A c \in Chat : InWork(c, n)' <=> InWork(c, n) \/ (c = d /\ n = m)
    BY <2>1, <2>4 DEF InWork
  <2>6. \A n : \A c \in Chat : Contains(messages'[c], n) <=> Contains(messages[c], n) \/ (c = d /\ n = m)
    BY <2>1, <2>4
  <2>7. OwnMessages'
    <3>1. \A n \in Message : status'[n] # "None" <=> status[n] # "None" \/ n = m
      BY <2>1 DEF SendingTypeOK
    <3> HIDE DEF own, q
    <3> QED BY <2>3, <2>5, <2>6, <3>1 DEF OrderInv, OwnMessages
  <2>8. ASSUME NEW x \in Message, NEW y \in Message, Earlier(x, y)' PROVE x # m /\ (Earlier(x, y) \/ y = m)
    <3>1. PICK c \in Chat : InFront(messages'[c], x, y)
      BY <2>8 DEF Earlier, InFront
    <3>2. Contains(messages[c], x) /\ (InFront(messages[c], x, y) \/ (c = d /\ y = m))
      <4>1. CASE c # d
        <5>1. messages[c] \in Seq(Message) /\ InFront(messages[c], x, y)
          BY <2>1, <3>1, <4>1 DEF SendingTypeOK
        <5> QED BY <5>1, InFrontContained
      <4>2. CASE c = d
        <5>1. InFront(Append(own, m), x, y)
          BY <2>1, <3>1, <4>2
        <5> HIDE DEF own
        <5>2. Contains(own, x) /\ (InFront(own, x, y) \/ y = m)
          BY <2>2, <5>1, InFrontAppend
        <5> QED BY <4>2, <5>2 DEF own
      <4> QED BY <4>1, <4>2
    <3>3. InFront(messages[c], x, y) => Earlier(x, y)
      BY DEF Earlier, InFront
    <3> QED BY <2>3, <3>2, <3>3
  <2>9. ASSUME NEW x \in Message, NEW y \in Message, x # m, Ahead(y, x)'
        PROVE  Ahead(y, x) /\ y # m
    <3>1. /\ InWrite(y)' <=> InWrite(y)
          /\ WrittenInFront(y, x)' <=> WrittenInFront(y, x)
          /\ Posted(x)' <=> Posted(x)
          /\ Posted(y)' <=> Posted(y)
          /\ PostedInFront(y, x)' <=> PostedInFront(y, x)
      BY <2>1 DEF InWrite, WrittenInFront, Posted, PostedInFront
    <3>2. \A c \in Chat : /\ InWork(c, x)' <=> InWork(c, x)
                          /\ Contains(inbox'[c], x) <=> Contains(inbox[c], x)
      BY <2>1, <2>4, <2>5, <2>9
    <3>3. \A c \in Chat : InFront(inbox'[c], y, x) => InFront(inbox[c], y, x)
      <4>1. InFront(Append(q, m), y, x) => InFront(q, y, x)
        <5> HIDE DEF q
        <5> QED BY <2>2, <2>9, InFrontAppend
      <4> QED BY <2>1, <4>1
    <3>4. Ahead(y, x)
      <4>1. CASE \E c \in Chat : InFront(inbox'[c], y, x)
        BY <3>3, <4>1 DEF Ahead
      <4>2. CASE \E c \in Chat : thread'[c].message = y /\ Contains(inbox'[c], x)
        <5>1. thread' = thread
          BY <2>1
        <5>2. PICK c \in Chat : thread[c].message = y /\ Contains(inbox[c], x)
          BY <3>2, <4>2, <5>1
        <5> QED BY <5>2 DEF Ahead
      <4>3. CASE (InWrite(y)' \/ Posted(y)') /\ \E c \in Chat : InWork(c, x)'
        BY <3>1, <3>2, <4>3 DEF Ahead
      <4>4. CASE WrittenInFront(y, x)' \/ PostedInFront(y, x)' \/ (InWrite(y)' /\ Posted(x)')
        BY <3>1, <4>4 DEF Ahead
      <4> QED BY <2>9, <4>1, <4>2, <4>3, <4>4 DEF Ahead
    <3>5. InWrite(y) \/ Posted(y) \/ \E c \in Chat : InWork(c, y)
      <4>1. \A c \in Chat : InFront(inbox[c], y, x) => Contains(inbox[c], y)
        BY InFrontContained DEF SendingTypeOK
      <4> QED BY <3>4, <4>1 DEF Ahead, WrittenInFront, InWrite, PostedInFront, Posted, InWork
    <3> QED BY <2>3, <3>4, <3>5
  <2>10. NoneAhead'
    BY <2>8, <2>9 DEF OrderInv, NoneAhead
  <2> QED BY <2>7, <2>10 DEF OrderInv
<1> QED BY <1>3, <1>4, <1>5, <1>6, <1>7, <1>8, <1>9 DEF External

\* The steps of the GUI thread: what it takes and writes was ahead of the rest.
LEMMA OrderGui == ASSUME SendingTypeOK, OrderInv, Gui PROVE OrderInv'
<1>1. CASE handleEvent
  <2> PICK e : e = events[1]
    OBVIOUS
  <2> DEFINE W == [message : Message, sender : User \cup {NoUser}]
  <2>1. events \in Seq(Event) /\ events # <<>> /\ events' = Tail(events)
    BY <1>1 DEF handleEvent, Take, SendingTypeOK
  <2>2. /\ \A i \in DOMAIN events' : i + 1 \in DOMAIN events /\ i + 1 # 1 /\ events'[i] = events[i + 1]
        /\ 1 \in DOMAIN events /\ Head(events) = e
        /\ DOMAIN events \subseteq Nat /\ DOMAIN events' \subseteq Nat
    BY <2>1, TailIndices
  <2>3. e \in Event
    BY <2>1, <2>2, EventTypes
  <2>4. /\ writeBytes(e) \/ onMessageSent(e) \/ deleteChat(e)
        /\ thread' = thread /\ messages' = messages
    BY <1>1, <2>2 DEF handleEvent, Take
  <2>5. /\ inbox' = inbox
        /\ \A m \in Message : status[m] # "None" => status'[m] # "None"
    BY <2>4 DEF writeBytes, onMessageSent, deleteChat, SendingTypeOK
  <2>6. \A m : \A c \in Chat : InWork(c, m)' <=> InWork(c, m)
    BY <2>4, <2>5 DEF InWork
  <2>7. \A m, n : (Posted(m)' => Posted(m)) /\ (PostedInFront(n, m)' => PostedInFront(n, m))
    <3>1. \A m : Posted(m)' => Posted(m)
      BY <2>2 DEF Posted
    <3>2. ASSUME NEW m, NEW n, PostedInFront(n, m)' PROVE PostedInFront(n, m)
      <4>1. PICK i, j \in DOMAIN events' :
              /\ i < j
              /\ events'[i].type = "writeBytes" /\ events'[i].message = n
              /\ events'[j].type = "writeBytes" /\ events'[j].message = m
        BY <3>2 DEF PostedInFront
      <4>2. /\ i + 1 \in DOMAIN events /\ events[i + 1] = events'[i]
            /\ j + 1 \in DOMAIN events /\ events[j + 1] = events'[j]
            /\ i + 1 < j + 1
        BY <2>2, <4>1
      <4> QED BY <4>1, <4>2 DEF PostedInFront
    <3> QED BY <3>1, <3>2
  <2>8. CASE written' = written
    <3>1. \A m, n : (InWrite(n)' <=> InWrite(n)) /\ (WrittenInFront(n, m)' <=> WrittenInFront(n, m))
      BY <2>8 DEF InWrite, WrittenInFront
    <3>2. \A m, n : Ahead(n, m)' => Ahead(n, m)
      BY <2>4, <2>5, <2>6, <2>7, <3>1 DEF Ahead
    <3> QED BY <2>4, <2>5, <2>6, <3>2, OrderRests
  <2>9. CASE written' # written
    <3> DEFINE k == e.message
               w == [message |-> e.message, sender |-> e.sender]
    <3>1. e.type = "writeBytes" /\ written' = Append(written, w)
      BY <2>4, <2>9 DEF writeBytes, onMessageSent, deleteChat, output
    <3>2. w \in W /\ written \in Seq(W) /\ w.message = k
      BY <2>3, <3>1, EventShape DEF SendingTypeOK
    <3> HIDE DEF w, W
    <3>3. /\ DOMAIN written = 1..Len(written) /\ Len(written) \in Nat
          /\ DOMAIN written' = 1..(Len(written) + 1)
          /\ \A i \in DOMAIN written : written'[i] = written[i]
          /\ written'[Len(written) + 1] = w
      BY <3>1, <3>2, AppendProperties, LenProperties
    <3>4. \A i \in DOMAIN written' :
            \/ i \in DOMAIN written /\ written'[i] = written[i]
            \/ i = Len(written) + 1 /\ written'[i].message = k
      BY <3>2, <3>3
    <3>5. Posted(k)
      BY <2>2, <3>1 DEF Posted
    <3> HIDE DEF k
    <3>6. \A n : InWrite(n)' => InWrite(n) \/ n = k
      BY <3>4 DEF InWrite
    <3>7. \A m : Posted(m)' => PostedInFront(k, m)
      <4> SUFFICES ASSUME NEW m, Posted(m)' PROVE PostedInFront(k, m)
        OBVIOUS
      <4>1. PICK j \in DOMAIN events' : events'[j].type = "writeBytes" /\ events'[j].message = m
        BY DEF Posted
      <4>2. /\ j + 1 \in DOMAIN events /\ events[j + 1] = events'[j]
            /\ 1 < j + 1
        <5>1. j \in Nat /\ j + 1 \in DOMAIN events /\ j + 1 # 1 /\ events[j + 1] = events'[j]
          BY <2>2, <4>1
        <5> QED BY <5>1
      <4> QED BY <2>2, <3>1, <4>1, <4>2 DEF PostedInFront, k
    <3>8. \A m, n : WrittenInFront(n, m)' => WrittenInFront(n, m) \/ (InWrite(n) /\ m = k)
      <4> SUFFICES ASSUME NEW m, NEW n, WrittenInFront(n, m)'
                   PROVE  WrittenInFront(n, m) \/ (InWrite(n) /\ m = k)
        OBVIOUS
      <4>1. PICK i, j \in DOMAIN written' :
              i < j /\ written'[i].message = n /\ written'[j].message = m
        BY DEF WrittenInFront
      <4>2. i \in DOMAIN written /\ written[i].message = n
        BY <3>3, <4>1
      <4>3. \/ j \in DOMAIN written /\ written[j].message = m
            \/ m = k
        BY <3>4, <4>1
      <4> QED BY <4>1, <4>2, <4>3 DEF WrittenInFront, InWrite
    <3>9. \A m, n : Ahead(n, m)' => Ahead(n, m)
      BY <2>4, <2>5, <2>6, <2>7, <3>5, <3>6, <3>7, <3>8 DEF Ahead
    <3> QED BY <2>4, <2>5, <2>6, <3>9, OrderRests
  <2> QED BY <2>8, <2>9
<1>2. ASSUME NEW c \in Chat, waitReturns(c) PROVE OrderInv'
  <2>1. /\ inbox' = [inbox EXCEPT ![c] = <<>>]
        /\ UNCHANGED <<status, messages, thread, events, written>>
    BY <1>2 DEF waitReturns, output
  <2>2. /\ \A x : ~Contains(<<>>, x)
        /\ \A x, y : ~InFront(<<>>, x, y)
    BY DEF Contains, InFront
  <2>3. \A d \in Chat : /\ \A m : Contains(inbox'[d], m) => Contains(inbox[d], m)
                        /\ \A m, n : InFront(inbox'[d], n, m) => InFront(inbox[d], n, m)
    BY <2>1, <2>2 DEF SendingTypeOK
  <2>4. \A m : \A d \in Chat : InWork(d, m)' => InWork(d, m)
    BY <2>1, <2>3 DEF InWork
  <2>5. \A m, n : /\ InWrite(n)' <=> InWrite(n)
                  /\ WrittenInFront(n, m)' <=> WrittenInFront(n, m)
                  /\ Posted(m)' <=> Posted(m)
                  /\ PostedInFront(n, m)' <=> PostedInFront(n, m)
    BY <2>1 DEF InWrite, WrittenInFront, Posted, PostedInFront
  <2>6. \A m, n : Ahead(n, m)' => Ahead(n, m)
    BY <2>1, <2>3, <2>4, <2>5 DEF Ahead
  <2> QED BY <2>1, <2>4, <2>6, OrderRests
<1> QED BY <1>1, <1>2 DEF Gui

\* The steps of a sender thread: what it takes is ahead of its queue, and what it
\* posts comes behind all that is posted.
LEMMA OrderSender ==
    ASSUME SendingTypeOK, OrderInv, NEW c \in Chat, Sender(c)
    PROVE  OrderInv'
<1>1. \A m, n : /\ written' = written => (InWrite(n)' <=> InWrite(n))
                /\ written' = written => (WrittenInFront(n, m)' <=> WrittenInFront(n, m))
                /\ events' = events => (Posted(m)' <=> Posted(m))
                /\ events' = events => (PostedInFront(n, m)' <=> PostedInFront(n, m))
  BY DEF InWrite, WrittenInFront, Posted, PostedInFront
<1>2. CASE processMessage(c)
  <2> DEFINE q == inbox[c]
  <2>1. /\ q # <<>> /\ q \in Seq(Message)
        /\ thread'[c].message = Head(q)
        /\ inbox'[c] = Tail(q)
        /\ \A d \in Chat \ {c} : thread'[d] = thread[d] /\ inbox'[d] = inbox[d]
        /\ UNCHANGED <<status, messages, events, written>>
    BY <1>2 DEF processMessage, Take, Idle, SendingTypeOK, output
  <2>2. \A m : Contains(q, m) <=> m = Head(q) \/ Contains(Tail(q), m)
    BY <2>1, ContainsTail
  <2>3. \A m : \A d \in Chat : InWork(d, m)' => InWork(d, m)
    BY <2>1, <2>2 DEF InWork
  <2>4. \A m, n : /\ InFront(Tail(q), n, m) => InFront(q, n, m)
                  /\ Contains(Tail(q), m) => InFront(q, Head(q), m)
    BY <2>1, InFrontTail
  <2> HIDE DEF q
  <2>5. ASSUME NEW m, NEW n, NEW d \in Chat
        PROVE  /\ thread'[d].message = n /\ Contains(inbox'[d], m) => Ahead(n, m)
               /\ InFront(inbox'[d], n, m) => Ahead(n, m)
    <3>1. CASE d = c
      BY <2>1, <2>4, <3>1 DEF Ahead, q
    <3>2. CASE d # c
      BY <2>1, <3>2 DEF Ahead
    <3> QED BY <3>1, <3>2
  <2>6. \A m, n : Ahead(n, m)' => Ahead(n, m)
    BY <1>1, <2>1, <2>3, <2>5 DEF Ahead
  <2> QED BY <2>1, <2>3, <2>6, OrderRests
<1>3. CASE seesConnection(c) \/ readsUser(c) \/ finishes(c)
  <2>1. /\ thread'[c].message = thread[c].message
        /\ \A d \in Chat \ {c} : thread'[d] = thread[d]
    BY <1>3, ThreadShape DEF seesConnection, readsUser, finishes, Thread, Working, Idle,
       Finished, SendingTypeOK
  <2>2. UNCHANGED <<status, messages, inbox, events, written>>
    BY <1>3 DEF seesConnection, readsUser, finishes, output
  <2>3. \A d \in Chat : thread'[d].message = thread[d].message
    BY <2>1
  <2>4. \A m : \A d \in Chat : InWork(d, m)' <=> InWork(d, m)
    BY <2>2, <2>3 DEF InWork
  <2>5. \A m, n : Ahead(n, m)' => Ahead(n, m)
    BY <1>1, <2>2, <2>3, <2>4 DEF Ahead
  <2> QED BY <2>2, <2>4, <2>5, OrderRests
<1>4. CASE posts(c)
  <2> DEFINE k == thread[c].message
             u == thread[c].sender
             p == PostMessage(k, u, c)
  <2>1. /\ k \in Message /\ u \in User \cup {NoUser}
        /\ thread'[c].message = NoMessage
        /\ \A d \in Chat \ {c} : thread'[d] = thread[d]
        /\ UNCHANGED <<status, messages, inbox, written>>
    BY <1>4, ThreadShape DEF posts, Thread, Working, Idle, Finished, SendingTypeOK, output
  <2>2. /\ p \in Seq(Event) /\ Len(p) = 2 /\ p[1] = WriteEvent(k, u) /\ p[2] = SentEvent(k, c)
    BY <2>1, PostType
  <2>3. events \in Seq(Event) /\ events' = events \o p
    BY <1>4 DEF posts, SendingTypeOK
  <2>4. WriteEvent(k, u).message = k /\ SentEvent(k, c).type = "onMessageSent"
    BY DEF WriteEvent, SentEvent
  <2>5. InWork(c, k)
    BY DEF InWork
  <2> HIDE DEF p, k, u
  <2>6. \A i \in DOMAIN events' : events'[i].type = "writeBytes" =>
          \/ i \in DOMAIN events /\ events'[i] = events[i]
          \/ i = Len(events) + 1 /\ events'[i].message = k
    <3> SUFFICES ASSUME NEW i \in DOMAIN events', events'[i].type = "writeBytes"
                 PROVE  \/ i \in DOMAIN events /\ events'[i] = events[i]
                        \/ i = Len(events) + 1 /\ events'[i].message = k
      OBVIOUS
    <3>1. CASE i \in DOMAIN events
      BY <2>2, <2>3, <3>1, ConcatIndices
    <3>2. CASE i \notin DOMAIN events
      <4>1. i - Len(events) \in DOMAIN p /\ Len(events) + (i - Len(events)) = i
        BY <2>2, <2>3, <3>2, ConcatIndices
      <4>2. DOMAIN p = 1..2 /\ Len(events) \in Nat /\ i \in Int
        BY <2>2, <2>3, <4>1, LenProperties, ConcatIndices
      <4>3. i - Len(events) = 1 \/ i - Len(events) = 2
        BY <4>1, <4>2
      <4>4. events'[i] = p[i - Len(events)]
        BY <2>2, <2>3, <4>1, ConcatIndices
      <4>5. i - Len(events) # 2
        BY <2>2, <2>4, <4>4
      <4> QED BY <2>2, <2>4, <4>2, <4>3, <4>4, <4>5
    <3> QED BY <3>1, <3>2
  <2>7. \A m : Posted(m)' => Posted(m) \/ m = k
    BY <2>6 DEF Posted
  <2>8. ASSUME NEW m, NEW n, PostedInFront(n, m)'
        PROVE  PostedInFront(n, m) \/ (Posted(n) /\ m = k)
    <3>1. PICK i, j \in DOMAIN events' :
            /\ i < j
            /\ events'[i].type = "writeBytes" /\ events'[i].message = n
            /\ events'[j].type = "writeBytes" /\ events'[j].message = m
      BY <2>8 DEF PostedInFront
    <3>2. DOMAIN events = 1..Len(events) /\ Len(events) \in Nat
      BY <2>3, LenProperties
    <3>3. i \in DOMAIN events /\ events'[i] = events[i]
      <4>1. i = Len(events) + 1 => ~(j \in DOMAIN events) /\ j # Len(events) + 1
        BY <3>1, <3>2
      <4> QED BY <2>6, <3>1, <4>1
    <3>4. \/ j \in DOMAIN events /\ events'[j] = events[j]
          \/ m = k
      BY <2>6, <3>1
    <3> QED BY <3>1, <3>3, <3>4 DEF PostedInFront, Posted
  <2>9. \A d \in Chat, m \in Message : InWork(d, m)' => InWork(d, m)
    BY <2>1, SendingAssumption DEF InWork
  <2>10. ASSUME NEW m \in Message, Earlier(m, k), NEW d \in Chat, InWork(d, m)'
         PROVE  thread[c].message = k /\ Contains(inbox[c], m)
    <3>1. OwnMessages /\ InWork(d, m)
      BY <2>9, <2>10 DEF OrderInv
    <3>2. d = c
      BY <2>1, <2>5, <2>10, <3>1, EarlierSameChat
    <3> QED BY <2>1, <2>10, <3>2, SendingAssumption DEF InWork, k
  <2>11. ASSUME NEW m \in Message, NEW n \in Message, Earlier(m, n), Ahead(n, m)'
         PROVE  Ahead(n, m)
    <3>1. CASE InWrite(n)' /\ Posted(m)'
      BY <1>1, <2>1, <2>5, <2>7, <3>1 DEF Ahead
    <3>2. CASE Posted(n)' /\ \E d \in Chat : InWork(d, m)'
      <4>1. CASE Posted(n)
        BY <2>9, <3>2, <4>1 DEF Ahead
      <4>2. CASE n = k
        BY <2>10, <2>11, <3>2, <4>2 DEF Ahead
      <4> QED BY <2>7, <3>2, <4>1, <4>2
    <3>3. CASE PostedInFront(n, m)'
      BY <2>5, <2>8, <3>3 DEF Ahead
    <3>4. CASE \/ WrittenInFront(n, m)'
               \/ InWrite(n)' /\ \E d \in Chat : InWork(d, m)'
      BY <1>1, <2>1, <2>9, <3>4 DEF Ahead
    <3>5. CASE \E d \in Chat : thread'[d].message = n /\ Contains(inbox'[d], m)
      BY <2>1, <3>5, SendingAssumption DEF Ahead
    <3>6. CASE \E d \in Chat : InFront(inbox'[d], n, m)
      BY <2>1, <3>6 DEF Ahead
    <3> QED BY <2>11, <3>1, <3>2, <3>3, <3>4, <3>5, <3>6 DEF Ahead
  <2> QED BY <2>1, <2>9, <2>11, OrderRests
<1> QED BY <1>2, <1>3, <1>4 DEF Sender

\* A chat's messages are written in the order they were submitted in, through the
\* queue of its thread and the one of the GUI thread, which the threads of other
\* chats, deletions and lost connections share (Chat.cpp:18, MessageSender.cpp:25).
THEOREM OrderKept == Spec => []InOrder
<1>1. Init => OrderInv
  <2> SUFFICES ASSUME Init PROVE OrderInv
    OBVIOUS
  <2>1. \A x : ~Contains(<<>>, x)
    BY DEF Contains
  <2>2. \A c \in Chat, m \in Message : ~InWork(c, m) /\ ~Contains(messages[c], m)
    BY <2>1, SendingAssumption DEF Init, Idle, InWork
  <2>3. \A m, n : ~Earlier(m, n)
    BY DEF Init, Earlier
  <2> QED BY <2>2, <2>3 DEF OrderInv, OwnMessages, NoneAhead
<1>2. SendingTypeOK /\ OnceInv /\ OrderInv /\ [Next]_vars => OrderInv'
  <2> SUFFICES ASSUME SendingTypeOK, OnceInv, OrderInv, [Next]_vars PROVE OrderInv'
    OBVIOUS
  <2>1. CASE UNCHANGED vars
    <3>1. UNCHANGED <<status, messages, inbox, thread, events, written>>
      BY <2>1 DEF vars
    <3>2. \A m, n : Ahead(n, m)' <=> Ahead(n, m)
      BY <3>1 DEF Ahead, InWrite, WrittenInFront, Posted, PostedInFront, InWork
    <3>3. \A c \in Chat, m \in Message : InWork(c, m)' <=> InWork(c, m)
      BY <3>1 DEF InWork
    <3> QED BY <3>1, <3>2, <3>3, OrderRests
  <2> QED BY <2>1, OrderExternal, OrderGui, OrderSender DEF Next
<1>3. SendingTypeOK /\ OrderInv => InOrder
  <2> SUFFICES ASSUME SendingTypeOK, OrderInv, NEW i \in DOMAIN written, NEW j \in DOMAIN written,
                      i < j, Earlier(written[j].message, written[i].message)
               PROVE  FALSE
    BY DEF InOrder
  <2> PICK m : m = written[j].message
    OBVIOUS
  <2> PICK n : n = written[i].message
    OBVIOUS
  <2>1. m \in Message /\ n \in Message
    <3> DEFINE W == [message : Message, sender : User \cup {NoUser}]
    <3>1. written \in Seq(W)
      BY DEF SendingTypeOK
    <3>2. \A x \in W : x.message \in Message
      OBVIOUS
    <3> HIDE DEF W
    <3>3. written[i] \in W /\ written[j] \in W
      BY <3>1, ElementOfSeq, LenProperties
    <3> QED BY <3>2, <3>3
  <2>2. WrittenInFront(n, m) /\ Earlier(m, n)
    BY DEF WrittenInFront
  <2> QED BY <2>1, <2>2 DEF OrderInv, NoneAhead, Ahead
<1> QED BY <1>1, <1>2, <1>3, SendingTyped, OnceHolds, PTL DEF Spec
=============================================================================
