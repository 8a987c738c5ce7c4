--------------------------- MODULE MessageSending ---------------------------
(***************************************************************************)
(* How one client sends chat messages (client/src/Chat.cpp,                *)
(* MessageSender.cpp, ChatManager.cpp and the parts of Client.cpp and      *)
(* AccountManager.cpp they touch).                                         *)
(*                                                                         *)
(* Every Chat object owns a thread whose MessageSender spins until the     *)
(* client is connected, reads the current user and posts the message to    *)
(* the GUI thread, which writes it and marks it as sent.  Deleting the     *)
(* Chat stops the thread and waits for it on the GUI thread.  Socket and   *)
(* user events reach the GUI thread between two of its posted events, and  *)
(* none of them while it waits in ~Chat.                                   *)
(***************************************************************************)
EXTENDS Naturals, Sequences, SequencesExt

CONSTANTS
    Chat,     \* Chat objects, each created once
    Message,  \* ChatMessage objects, each created once
    User, NoUser,
    NoChat, NoMessage

ASSUME SendingAssumption ==
    /\ IsFiniteSet(Chat)
    /\ NoUser \notin User
    /\ NoChat \notin Chat
    /\ NoMessage \notin Message

VARIABLES
    connected,   \* Client::m_connected, read by the sender threads too
    user,        \* the user of AccountManager::m_userProfile
    chat,        \* life of each Chat object
    status,      \* ChatMessage::m_status
    author,      \* the user who submitted each message
    messages,    \* Chat::m_messageList: the own messages, as they were submitted
    inbox,       \* processMessage events posted to each sender thread
    thread,      \* where each sender thread is, and what it works on
    events,      \* events posted to the GUI thread
    waiting,     \* the Chat whose ~Chat the GUI thread is in
    written,     \* what the socket took, in order
    lost         \* messages written on a closed socket

vars == <<connected, user, chat, status, author, messages, inbox, thread, events, waiting, written, lost>>
session == <<connected, user>>
output == <<written, lost>>

-----------------------------------------------------------------------------
(* Values. *)

Idle == [at |-> "Idle", message |-> NoMessage, sender |-> NoUser]

Finished == [Idle EXCEPT !.at = "Finished"]

Working == [at : {"Spinning", "Connected", "Posting"},
            message : Message, sender : User \cup {NoUser}]

Thread == {Idle, Finished} \cup Working

WriteEvent(m, u) == [type |-> "writeBytes", message |-> m, sender |-> u, chat |-> NoChat]
SentEvent(m, c) == [type |-> "onMessageSent", message |-> m, sender |-> NoUser, chat |-> c]
DeleteEvent(c) == [type |-> "deleteLater", message |-> NoMessage, sender |-> NoUser, chat |-> c]

Event == {WriteEvent(m, u) : m \in Message, u \in User \cup {NoUser}}
         \cup {SentEvent(m, c) : m \in Message, c \in Chat}
         \cup {DeleteEvent(c) : c \in Chat}

\* The events a sender hands to the GUI thread, in their order.
PostMessage_NoSent(m, u, c) == <<WriteEvent(m, u)>>
PostMessage_SentFirst(m, u, c) == <<SentEvent(m, c), WriteEvent(m, u)>>
PostMessage(m, u, c) == <<WriteEvent(m, u), SentEvent(m, c)>>

canSendMessages == connected /\ user # NoUser

LiveChats == {c \in Chat : chat[c] = "Live"}

-----------------------------------------------------------------------------
(* Socket and user events of the GUI thread. *)

GuiFree == waiting = NoChat

\* removeChat of each chat: out of the list now, deleted by a posted event.
removeChats(cs) ==
    /\ chat' = [c \in Chat |-> IF c \in cs THEN "Doomed" ELSE chat[c]]
    /\ \E order \in SetToSeqs(cs) :
         events' = events \o [i \in DOMAIN order |-> DeleteEvent(order[i])]

onConnected ==
    /\ GuiFree
    /\ ~connected
    /\ connected' = TRUE
    /\ UNCHANGED <<user, chat, status, author, messages, inbox, thread, events, waiting, output>>

\* Client::onDisconnected; AccountManager resets the user, ChatManager clears
\* the chat list, all in the handlers of one signal.
onDisconnected ==
    /\ GuiFree
    /\ connected
    /\ connected' = FALSE
    /\ user' = NoUser
    /\ removeChats(IF user = NoUser THEN {} ELSE LiveChats)
    /\ UNCHANGED <<status, author, messages, inbox, thread, waiting, output>>

\* The profile arrives.  The login that led to it took round trips, and every
\* pass of the event loop handles what was posted before it.
loggedIn(u) ==
    /\ GuiFree
    /\ connected
    /\ user = NoUser
    /\ events = <<>>
    /\ user' = u
    /\ UNCHANGED <<connected, chat, status, author, messages, inbox, thread, events, waiting, output>>

loggedOut ==
    /\ GuiFree
    /\ user # NoUser
    /\ user' = NoUser
    /\ removeChats(LiveChats)
    /\ UNCHANGED <<connected, status, author, messages, inbox, thread, waiting, output>>

\* onChatListReceived: a list with a new chat, or without an old one.
addChat(c) ==
    /\ GuiFree
    /\ connected
    /\ chat[c] = "Absent"
    /\ chat' = [chat EXCEPT ![c] = "Live"]
    /\ UNCHANGED <<session, status, author, messages, inbox, thread, events, waiting, output>>

removeChat(c) ==
    /\ GuiFree
    /\ connected
    /\ chat[c] = "Live"
    /\ removeChats({c})
    /\ UNCHANGED <<session, status, author, messages, inbox, thread, waiting, output>>

submitMessage(c, m) ==
    /\ GuiFree
    /\ canSendMessages
    /\ chat[c] = "Live"
    /\ status[m] = "None"
    /\ status' = [status EXCEPT ![m] = "Loading"]
    /\ author' = [author EXCEPT ![m] = user]
    /\ messages' = [messages EXCEPT ![c] = Append(@, m)]
    /\ inbox' = [inbox EXCEPT ![c] = Append(@, m)]
    /\ UNCHANGED <<session, chat, thread, events, waiting, output>>

-----------------------------------------------------------------------------
(* Events posted to the GUI thread. *)

\* What an event loop takes from what was posted to its thread, and what it leaves.
Take_Newest(queue) == [first |-> Last(queue), rest |-> Front(queue)]
Take(queue) == [first |-> Head(queue), rest |-> Tail(queue)]

\* Bytes written to a socket that is not connected are gone.
writeBytes(e) ==
    /\ e.type = "writeBytes"
    /\ IF connected
       THEN written' = Append(written, [message |-> e.message, sender |-> e.sender]) /\ UNCHANGED lost
       ELSE lost' = lost \cup {e.message} /\ UNCHANGED written
    /\ UNCHANGED <<chat, status, inbox, waiting>>

\* Qt drops the event when the receiver has been deleted.
onMessageSent(e) ==
    /\ e.type = "onMessageSent"
    /\ status' = IF chat[e.chat] = "Deleted" THEN status ELSE [status EXCEPT ![e.message] = "Sent"]
    /\ UNCHANGED <<chat, inbox, waiting, output>>

\* ~Chat: quit() tells the thread, wait() blocks until it has finished.
deleteChat_NoWait(e) ==
    /\ e.type = "deleteLater"
    /\ chat' = [chat EXCEPT ![e.chat] = "Deleted"]
    /\ UNCHANGED <<status, inbox, waiting, output>>
deleteChat(e) ==
    /\ e.type = "deleteLater"
    /\ chat' = [chat EXCEPT ![e.chat] = "Deleting"]
    /\ waiting' = e.chat
    /\ UNCHANGED <<status, inbox, output>>

handleEvent_Newest ==
    /\ GuiFree
    /\ events # <<>>
    /\ LET e == Last(events) IN writeBytes(e) \/ onMessageSent(e) \/ deleteChat(e)
    /\ events' = Front(events)
    /\ UNCHANGED <<session, author, messages, thread>>
handleEvent ==
    /\ GuiFree
    /\ events # <<>>
    /\ LET e == Take(events).first IN writeBytes(e) \/ onMessageSent(e) \/ deleteChat(e)
    /\ events' = Take(events).rest
    /\ UNCHANGED <<session, author, messages, thread>>

\* wait() returns; ~QObject deletes the messages and what was still posted.
waitReturns(c) ==
    /\ waiting = c
    /\ thread[c].at = "Finished"
    /\ waiting' = NoChat
    /\ chat' = [chat EXCEPT ![c] = "Deleted"]
    /\ inbox' = [inbox EXCEPT ![c] = <<>>]
    /\ UNCHANGED <<session, status, author, messages, thread, events, output>>

-----------------------------------------------------------------------------
(* The sender threads. *)

\* The thread's event loop enters processMessage.  One that was told to quit
\* may still work off what was posted before.
processMessage(c) ==
    /\ thread[c].at = "Idle"
    /\ inbox[c] # <<>>
    /\ LET taken == Take(inbox[c]) IN
         /\ thread' = [thread EXCEPT ![c] = [Idle EXCEPT !.at = "Spinning", !.message = taken.first]]
         /\ inbox' = [inbox EXCEPT ![c] = taken.rest]
    /\ UNCHANGED <<session, chat, status, author, messages, events, waiting, output>>

\* while (!Client::instance().connected()) {}
seesConnection(c) ==
    /\ thread[c].at = "Spinning"
    /\ connected
    /\ thread' = [thread EXCEPT ![c].at = "Connected"]
    /\ UNCHANGED <<session, chat, status, author, messages, inbox, events, waiting, output>>

\* AccountManager::userId(), read while the GUI thread may change it.
readsUser(c) ==
    /\ thread[c].at = "Connected"
    /\ thread' = [thread EXCEPT ![c].at = "Posting", ![c].sender = user]
    /\ UNCHANGED <<session, chat, status, author, messages, inbox, events, waiting, output>>

\* sendChatMessage posts the write, then messageSent its own event.
posts_KeepsMessage(c) ==
    /\ thread[c].at = "Posting"
    /\ events' = events \o PostMessage(thread[c].message, thread[c].sender, c)
    /\ thread' = [thread EXCEPT ![c].at = "Idle"]
    /\ UNCHANGED <<session, chat, status, author, messages, inbox, waiting, output>>
posts(c) ==
    /\ thread[c].at = "Posting"
    /\ events' = events \o PostMessage(thread[c].message, thread[c].sender, c)
    /\ thread' = [thread EXCEPT ![c] = Idle]
    /\ UNCHANGED <<session, chat, status, author, messages, inbox, waiting, output>>

\* quit() and nothing left in hand: the thread's event loop returns.
finishes_NoQuit(c) == thread[c].at = "Idle" /\ chat[c] = "Deleted" /\ UNCHANGED vars
finishes(c) ==
    /\ thread[c].at = "Idle"
    /\ chat[c] \in {"Deleting", "Deleted"}
    /\ thread' = [thread EXCEPT ![c] = Finished]
    /\ UNCHANGED <<session, chat, status, author, messages, inbox, events, waiting, output>>

-----------------------------------------------------------------------------

Init ==
    /\ connected = FALSE
    /\ user = NoUser
    /\ chat = [c \in Chat |-> "Absent"]
    /\ status = [m \in Message |-> "None"]
    /\ author = [m \in Message |-> NoUser]
    /\ messages = [c \in Chat |-> <<>>]
    /\ inbox = [c \in Chat |-> <<>>]
    /\ thread = [c \in Chat |-> Idle]
    /\ events = <<>>
    /\ waiting = NoChat
    /\ written = <<>>
    /\ lost = {}

External ==
    \/ onConnected
    \/ onDisconnected
    \/ \E u \in User : loggedIn(u)
    \/ loggedOut
    \/ \E c \in Chat : addChat(c) \/ removeChat(c)
    \/ \E c \in Chat, m \in Message : submitMessage(c, m)

Gui == handleEvent \/ \E c \in Chat : waitReturns(c)

Sender(c) ==
    processMessage(c) \/ seesConnection(c) \/ readsUser(c) \/ posts(c) \/ finishes(c)

Next == External \/ Gui \/ \E c \in Chat : Sender(c)

Spec == Init /\ [][Next]_vars

\* The event loop handles what is posted to it and every thread runs on.
\* Nothing is assumed of the user and of the network.
FairSpec == Spec /\ WF_vars(Gui) /\ \A c \in Chat : WF_vars(Sender(c))

-----------------------------------------------------------------------------
(* Correctness. *)

\* Every variable has its type.
SendingTypeOK ==
    /\ connected \in BOOLEAN
    /\ user \in User \cup {NoUser}
    /\ chat \in [Chat -> {"Absent", "Live", "Doomed", "Deleting", "Deleted"}]
    /\ status \in [Message -> {"None", "Loading", "Sent"}]
    /\ author \in [Message -> User \cup {NoUser}]
    /\ messages \in [Chat -> Seq(Message)]
    /\ inbox \in [Chat -> Seq(Message)]
    /\ thread \in [Chat -> Thread]
    /\ events \in Seq(Event)
    /\ waiting \in Chat \cup {NoChat}
    /\ written \in Seq([message : Message, sender : User \cup {NoUser}])
    /\ lost \subseteq Message

\* A sender thread never works on a message whose Chat, and with it the
\* message, has been deleted (MessageSender.cpp:26 reads message->content()).
NoUseAfterDelete ==
    \A c \in Chat : thread[c].message # NoMessage => chat[c] # "Deleted"

\* A message goes out under the user who wrote it or under none, whoever logs
\* in after it was submitted (the user is read again by the sender thread).
WrittenAsAuthor ==
    \A i \in DOMAIN written :
        written[i].sender \in {author[written[i].message], NoUser}

\* No message is written twice, and a message is marked as sent only after
\* the GUI thread has tried to write it.
MarkedAfterWriting ==
    /\ \A i, j \in DOMAIN written : written[i].message = written[j].message => i = j
    /\ \A m \in Message : status[m] = "Sent" =>
          m \in lost \/ \E i \in DOMAIN written : written[i].message = m

\* The message m stands before n in a chat's list.
Earlier(m, n) ==
    \E c \in Chat : \E i, j \in DOMAIN messages[c] :
        i < j /\ messages[c][i] = m /\ messages[c][j] = n

\* No message is written after one that its chat submitted later: they overtake
\* each other neither in the thread's queue nor in the GUI thread's, whatever
\* other chats, deletions and lost connections come between them.
InOrder ==
    \A i, j \in DOMAIN written : i < j => ~Earlier(written[j].message, written[i].message)

\* The connection is never down for good.
ConnectionReturns == []<>connected

\* As long as connections return, ~Chat returns too, and so does the GUI thread.
ChatsEnd ==
    ConnectionReturns => \A c \in Chat : chat[c] = "Doomed" ~> chat[c] = "Deleted"

\* As long as connections return, a submitted message is marked as sent or its
\* chat is deleted.
SubmittedIsSent ==
    ConnectionReturns =>
        \A c \in Chat, m \in Message :
            Contains(inbox[c], m) ~> status[m] = "Sent" \/ chat[c] = "Deleted"

\* "The chat object is deleted" (ChatManager.h:74) once it is removed.
RemovedChatIsDeleted == \A c \in Chat : chat[c] = "Doomed" ~> chat[c] = "Deleted"
=============================================================================
