------------------------------ MODULE Database ------------------------------
(***************************************************************************)
(* The database (server/src/Database.cpp and migrations/): its tables, the *)
(* statements of each method, and what PostgreSQL does of its own: keys,   *)
(* the ON DELETE actions and the triggers of migration 010 that keep       *)
(* user_stats.  A method is one statement and one action, but for          *)
(* updateUserProfile, a transaction of several; where the code only        *)
(* reports a failed statement, nothing changes and there is no action.     *)
(*                                                                         *)
(* Migrations starts the server process that calls the methods, and ends   *)
(* it at any time.  The tables start empty or as a release that had no     *)
(* user_stats left them.  Ids are UUIDs: none is handed out twice.         *)
(***************************************************************************)
EXTENDS Migrations, FiniteSets

CONSTANTS
    User, Name, Chat, Content, Message,         \* user names, and ids of the rest
    NoRow,                                      \* an id that is not in a table
    Null,                                       \* NULL in a column that holds an id
    NoTx,                                       \* no transaction is open
    Old           \* the tables an earlier release may have left, without user_stats

ASSUME NullAssumption == Null \notin User

\* Ids are UUIDs, of 128 bits.
ASSUME FiniteAssumption == IsFiniteSet(User) /\ IsFiniteSet(Chat) /\ IsFiniteSet(Message)

VARIABLES
    ids,       \* ids handed out so far
    users, chats, members, contents, messages, stats,
    tx         \* the open transaction of updateUserProfile

tables == <<ids, users, chats, members, contents, messages, stats>>
vars == <<tables, tx, migrationVars>>

-----------------------------------------------------------------------------
(* Rows. *)

\* Of a row of users the model keeps the name; display name and password are told
\* apart nowhere, and the e-mail address is unique as the name is.
ChatRow == [type : {"direct", "group"}, createdBy : User \cup {Null}]

MessageRow == [fromId : User \cup {Null}, toId : User \cup {Null},
               contentId : Content, chatId : Chat]

\* ex_usernames is a JSON array that may repeat a name; the model keeps its names.
StatsRow == [messagesSent : Int, chatsJoined : Int, exUsernames : SUBSET Name]

\* The columns that migration 009 gives user_stats.
StatsColumns == {"user_id", "messages_sent", "chats_joined", "ex_usernames"}

ASSUME RowAssumption ==
    /\ NoRow \notin Name \cup ChatRow \cup MessageRow
    /\ NoRow \notin StatsRow

\* What an earlier release has left obeys the constraints of migrations 001 to 004.
ASSUME OldAssumption ==
    /\ Old.users \in [User -> Name \cup {NoRow}]
    /\ \A u \in User : Old.users[u] # NoRow => u \in Old.ids
    /\ \A u, v \in User : Old.users[u] # NoRow /\ Old.users[u] = Old.users[v] => u = v
    /\ Old.chats \in [Chat -> ChatRow \cup {NoRow}]
    /\ \A c \in Chat : Old.chats[c] # NoRow => c \in Old.ids
    /\ \A c \in Chat : Old.chats[c] # NoRow /\ Old.chats[c].createdBy # Null =>
           Old.users[Old.chats[c].createdBy] # NoRow
    /\ Old.members \subseteq {m \in Chat \X User :
           Old.chats[m[1]] # NoRow /\ Old.users[m[2]] # NoRow}
    /\ Old.contents \subseteq Content
    /\ Old.messages \in [Message -> MessageRow \cup {NoRow}]
    /\ \A m \in Message : Old.messages[m] # NoRow =>
           /\ Old.chats[Old.messages[m].chatId] # NoRow
           /\ Old.messages[m].contentId \in Old.contents
           /\ \A id \in {Old.messages[m].fromId, Old.messages[m].toId} \ {Null} :
                  Old.users[id] # NoRow

Tx == [user : User, old : Name, new : Name,
       step : {"update", "history", "commit"},
       users : [User -> Name \cup {NoRow}],
       stats : [User -> StatsRow \cup {NoRow}]]

-----------------------------------------------------------------------------
(* The queries. *)

getAllUsers == {u \in User : users[u] # NoRow}
getAllMessages == {m \in Message : messages[m] # NoRow}
getAllContents == contents
getAllChatMembers == members
getAllUserStats == {u \in User : stats[u] # NoRow}

getUserById(id) == {u \in getAllUsers : u = id}
getUserByUsername(name) == {u \in getAllUsers : users[u] = name}
getPublicUserInfoByUserId(id) == {[id |-> u, username |-> users[u]] : u \in getUserById(id)}
getPublicUserInfoByUsername(name) ==
    {[id |-> u, username |-> users[u]] : u \in getUserByUsername(name)}

getChatById(id) == {c \in Chat : chats[c] # NoRow /\ c = id}
\* The JOIN of chats and chat_members.
getChatsByUserId(id) == {c \in Chat : chats[c] # NoRow /\ <<c, id>> \in members}
getUserIdsByChatId(id) == {u \in User : <<id, u>> \in members}
getChatMember(chat, user) == {m \in members : m = <<chat, user>>}

\* The pattern is matched against a column of type chat_type, for which
\* PostgreSQL has no ILIKE: the statement fails and the list is empty.
searchChats == {}

-----------------------------------------------------------------------------
(* The triggers of migration 010, on the statistics st. *)

NewStats == [messagesSent |-> 0, chatsJoined |-> 0, exUsernames |-> {}]

StatsOrNew(st, u) == IF st[u] = NoRow THEN NewStats ELSE st[u]

stats_chat_join(st, u) ==
    [st EXCEPT ![u] = [StatsOrNew(st, u) EXCEPT !.chatsJoined = @ + 1]]

\* Once for each of the deleted rows of chat_members, cascades included.
stats_chat_leave(st, gone) ==
    [u \in User |-> IF st[u] = NoRow THEN NoRow
                    ELSE [st[u] EXCEPT !.chatsJoined =
                             @ - Cardinality({m \in gone : m[2] = u})]]

\* It writes a column last_activity that no migration creates, and a user_id
\* that must not be NULL.
stats_message_insert_Fails(from) == "last_activity" \notin StatsColumns \/ from = Null

stats_message_insert(st, u) ==
    [st EXCEPT ![u] = [StatsOrNew(st, u) EXCEPT !.messagesSent = @ + 1]]

\* Once for each deleted row of messages.
stats_message_delete_Receiver(st, gone) ==
    [u \in User |-> IF st[u] = NoRow THEN NoRow
                    ELSE [st[u] EXCEPT !.messagesSent =
                             @ - Cardinality({m \in gone : messages[m].toId = u})]]
stats_message_delete(st, gone) ==
    [u \in User |-> IF st[u] = NoRow THEN NoRow
                    ELSE [st[u] EXCEPT !.messagesSent =
                             @ - Cardinality({m \in gone : messages[m].fromId = u})]]

\* For every UPDATE that sets username, also to what it was.
track_old_username(st, u, old) ==
    IF st[u] = NoRow THEN st ELSE [st EXCEPT ![u].exUsernames = @ \cup {old}]

-----------------------------------------------------------------------------
(* The methods that write, each called by the serving process. *)

Ready == tx = NoTx /\ \E p \in Process : Serving(p)

Calls == Ready /\ UNCHANGED <<tx, migrationVars>>

Fresh(id) == id \notin ids /\ ids' = ids \cup {id}

\* The UNIQUE constraints of users, on the rows t.
Unique_OwnRow(t, u, name) == t[u] # name
Unique(t, u, name) == \A v \in User \ {u} : t[v] # name

createUser(u, name) ==
    /\ Calls /\ Fresh(u)
    /\ Unique(users, u, name)
    /\ users' = [users EXCEPT ![u] = name]
    /\ UNCHANGED <<chats, members, contents, messages, stats>>

\* ON DELETE SET NULL of a message's sender and receiver, and of a chat's creator.
Forget(id, u) == IF id = u THEN Null ELSE id

messagesWithout(u) ==
    [m \in Message |-> IF messages[m] = NoRow THEN NoRow
        ELSE [messages[m] EXCEPT !.fromId = Forget(@, u), !.toId = Forget(@, u)]]

chatsWithout_Kept(u) == chats
chatsWithout(u) ==
    [c \in Chat |-> IF chats[c] = NoRow THEN NoRow
                    ELSE [chats[c] EXCEPT !.createdBy = Forget(@, u)]]

\* DELETE FROM chat_members of the rows "gone", by a statement or a cascade.
LeaveChats_NoTrigger(gone) == members' = members \ gone /\ stats' = stats
LeaveChats(gone) == members' = members \ gone /\ stats' = stats_chat_leave(stats, gone)

\* The user's statistics stay: user_stats has no foreign key.
deleteUser(u) ==
    /\ Calls /\ u \in getAllUsers
    /\ users' = [users EXCEPT ![u] = NoRow]
    /\ chats' = chatsWithout(u)
    /\ LeaveChats({m \in members : m[2] = u})
    /\ messages' = messagesWithout(u)
    /\ UNCHANGED <<ids, contents>>

createContent(k) ==
    /\ Calls /\ Fresh(k)
    /\ contents' = contents \cup {k}
    /\ UNCHANGED <<users, chats, members, messages, stats>>

Cleared(gone) == [m \in Message |-> IF m \in gone THEN NoRow ELSE messages[m]]

\* ON DELETE CASCADE of the messages of a chat, or of a content.
MessagesOf(chat, content) ==
    {m \in getAllMessages : messages[m].chatId = chat \/ messages[m].contentId = content}

deleteContent(k) ==
    LET gone == MessagesOf(Null, k) IN
    /\ Calls /\ k \in contents
    /\ contents' = contents \ {k}
    /\ messages' = Cleared(gone)
    /\ stats' = stats_message_delete(stats, gone)
    /\ UNCHANGED <<ids, users, chats, members>>

\* The creator must be a user: a null id is written as zeros, not as NULL.
createChat(c, row) ==
    /\ Calls /\ Fresh(c)
    /\ row.createdBy \in getAllUsers
    /\ chats' = [chats EXCEPT ![c] = row]
    /\ UNCHANGED <<users, members, contents, messages, stats>>

deleteChat(c) ==
    LET gone == MessagesOf(c, Null) left == {m \in members : m[1] = c} IN
    /\ Calls /\ c \in getChatById(c)
    /\ chats' = [chats EXCEPT ![c] = NoRow]
    /\ members' = members \ left
    /\ messages' = Cleared(gone)
    /\ stats' = stats_message_delete(stats_chat_leave(stats, left), gone)
    /\ UNCHANGED <<ids, users, contents>>

createChatMember(c, u) ==
    /\ Calls
    /\ c \in getChatById(c) /\ u \in getUserById(u) /\ getChatMember(c, u) = {}
    /\ members' = members \cup {<<c, u>>}
    /\ stats' = stats_chat_join(stats, u)
    /\ UNCHANGED <<ids, users, chats, contents, messages>>

deleteChatMember(c, u) ==
    /\ Calls /\ getChatMember(c, u) # {}
    /\ LeaveChats({<<c, u>>})
    /\ UNCHANGED <<ids, users, chats, contents, messages>>

\* The procedure of migrations 008 and 011, when there is no such chat yet.
create_or_get_private_chat(u, v, c) ==
    /\ Calls /\ Fresh(c)
    /\ {u, v} \subseteq getAllUsers /\ u # v
    /\ \A d \in getChatsByUserId(u) \cap getChatsByUserId(v) : chats[d].type # "direct"
    /\ chats' = [chats EXCEPT ![c] = [type |-> "direct", createdBy |-> u]]
    /\ members' = members \cup {<<c, u>>, <<c, v>>}
    /\ stats' = stats_chat_join(stats_chat_join(stats, u), v)
    /\ UNCHANGED <<users, contents, messages>>

\* Foreign keys, and the trigger of migration 006.
MayInsert(row) ==
    /\ row.chatId \in getChatById(row.chatId) /\ row.contentId \in contents
    /\ {row.fromId, row.toId} \subseteq getAllUsers \cup {Null}

\* The caller has taken an id for the message, stored or not.
createMessage(m, row) ==
    /\ Calls /\ Fresh(m)
    /\ MayInsert(row)
    /\ IF stats_message_insert_Fails(row.fromId)
       THEN UNCHANGED <<messages, stats>>
       ELSE /\ messages' = [messages EXCEPT ![m] = row]
            /\ stats' = stats_message_insert(stats, row.fromId)
    /\ UNCHANGED <<users, chats, members, contents>>

deleteMessage(m) ==
    /\ Calls /\ m \in getAllMessages
    /\ messages' = Cleared({m})
    /\ stats' = stats_message_delete(stats, {m})
    /\ UNCHANGED <<ids, users, chats, members, contents>>

createUserStats(u, row) ==
    /\ Calls /\ u \notin getAllUserStats
    /\ stats' = [stats EXCEPT ![u] = row]
    /\ UNCHANGED <<ids, users, chats, members, contents, messages>>

deleteUserStats(u) ==
    /\ Calls /\ u \in getAllUserStats
    /\ stats' = [stats EXCEPT ![u] = NoRow]
    /\ UNCHANGED <<ids, users, chats, members, contents, messages>>

-----------------------------------------------------------------------------
(* updateUserProfile: what the transaction sees is in tx until it commits. *)

\* The row is read before transaction(); what the caller leaves out stays as read.
updateUserProfile(u, new) ==
    /\ Ready
    /\ u \in getUserById(u)
    /\ tx' = [user |-> u, old |-> users[u], new |-> new, step |-> "update",
              users |-> users, stats |-> stats]
    /\ UNCHANGED <<tables, migrationVars>>

At(step) == tx # NoTx /\ tx.step = step

\* The statements of the transaction that change nothing but it.
Inside == UNCHANGED <<tables, migrationVars>>

Renamed == tx.new # tx.old

\* UPDATE users, always with the column username.
updateUsers ==
    /\ At("update") /\ Inside
    /\ Unique(tx.users, tx.user, tx.new)
    /\ tx' = [tx EXCEPT !.users[tx.user] = tx.new,
                        !.stats = track_old_username(@, tx.user, tx.old),
                        !.step = IF Renamed THEN "history" ELSE "commit"]

WithHistory_UserId(st, u, name) ==
    [st EXCEPT ![u] = [StatsOrNew(st, u) EXCEPT !.exUsernames = @ \cup {u}]]
WithHistory_UpdateOnly(st, u, name) == track_old_username(st, u, name)
WithHistory(st, u, name) ==
    [st EXCEPT ![u] = [StatsOrNew(st, u) EXCEPT !.exUsernames = @ \cup {name}]]

\* Reads ex_usernames, and updates or inserts the row with the old name in it.
writeHistory ==
    /\ At("history") /\ Inside
    /\ tx' = [tx EXCEPT !.stats = WithHistory(@, tx.user, tx.old),
                        !.step = "commit"]

\* A statement fails, as the UPDATE does when the name is taken.
rollback ==
    /\ tx # NoTx /\ Inside
    /\ tx' = NoTx

CommittedProfile ==
    /\ At("commit")
    /\ users' = tx.users
    /\ stats' = tx.stats
    /\ tx' = NoTx
    /\ UNCHANGED <<ids, chats, members, contents, messages>>

commitProfile == CommittedProfile /\ UNCHANGED migrationVars

\* The connection ends during the commit: it counts as failed, but is done.
commitProfileUnanswered(p) == CommittedProfile /\ connectionLost(p)

-----------------------------------------------------------------------------

NoTables ==
    [ids |-> {}, users |-> [u \in User |-> NoRow], chats |-> [c \in Chat |-> NoRow],
     members |-> {}, contents |-> {}, messages |-> [m \in Message |-> NoRow]]

Init ==
    /\ MigrationInit
    /\ LET was == IF versions = {} THEN NoTables ELSE Old IN
           /\ ids = was.ids /\ users = was.users /\ chats = was.chats
           /\ members = was.members /\ contents = was.contents
           /\ messages = was.messages
    /\ stats = [u \in User |-> NoRow]
    /\ tx = NoTx

\* A process starts, or one ends that does not serve: the rows stay as they are.
\* Of what the files do to rows, 012 sets every username to lower case: a Name
\* stands for the spellings of one name, and Old for tables in which no two users
\* differ by case only (012 fails on the others).  Old has no rows in user_stats, to
\* which the trigger of 010 would then add the old spelling.
Starting == StartNext /\ UNCHANGED <<tables, tx>>

\* An open transaction is rolled back with its connection.
ServerLeaves ==
    /\ \E p \in Process : connectionLost(p) \/ stop(p)
    /\ tx' = NoTx
    /\ UNCHANGED tables

\* createUserStats would insert any counters (Database.cpp:1107) and has no caller;
\* it is taken to be called with those of a new user.  StatsNotAhead rests on that.
UserCalls == \E u \in User :
    \/ \E name \in Name : createUser(u, name) \/ updateUserProfile(u, name)
    \/ deleteUser(u)
    \/ createUserStats(u, NewStats) \/ deleteUserStats(u)

ChatCalls == \E c \in Chat :
    \/ \E row \in ChatRow : createChat(c, row)
    \/ deleteChat(c)
    \/ \E u \in User : createChatMember(c, u) \/ deleteChatMember(c, u)
    \/ \E u, v \in User : create_or_get_private_chat(u, v, c)

MessageCalls ==
    \/ \E k \in Content : createContent(k) \/ deleteContent(k)
    \/ \E m \in Message : \/ \E row \in MessageRow : createMessage(m, row)
                          \/ deleteMessage(m)

ProfileSteps ==
    \/ updateUsers \/ writeHistory \/ rollback \/ commitProfile
    \/ \E p \in Process : commitProfileUnanswered(p)

Next ==
    \/ Starting \/ ServerLeaves
    \/ UserCalls \/ ChatCalls \/ MessageCalls \/ ProfileSteps

Spec == Init /\ [][Next]_vars

-----------------------------------------------------------------------------
(* Properties. *)

TypeOK ==
    /\ MigrationTypeOK
    /\ users \in [User -> Name \cup {NoRow}]
    /\ chats \in [Chat -> ChatRow \cup {NoRow}]
    /\ members \subseteq Chat \X User
    /\ contents \subseteq Content
    /\ messages \in [Message -> MessageRow \cup {NoRow}]
    /\ stats \in [User -> StatsRow \cup {NoRow}]
    /\ tx \in Tx \cup {NoTx}

\* No row refers to a row that is gone: members to their chat and user, chats to
\* their creator, messages to their chat, content, sender and receiver
\* (the foreign keys of migrations 003 and 004 against every delete method).
References ==
    /\ \A m \in getAllChatMembers : m[1] \in getChatById(m[1]) /\ m[2] \in getAllUsers
    /\ \A c \in Chat : chats[c] # NoRow => chats[c].createdBy \in getAllUsers \cup {Null}
    /\ \A m \in getAllMessages : MayInsert(messages[m])

\* The queries agree: a user is found by id and name alike, and a
\* membership from the chat and from the user (Database.cpp's SELECTs, of which
\* getChatsByUserId joins two tables and the others read one).
LookupsAgree ==
    /\ \A u \in getAllUsers :
           /\ getUserByUsername(users[u]) = {u}
           /\ getPublicUserInfoByUserId(u) = getPublicUserInfoByUsername(users[u])
    /\ \A c \in Chat, u \in User :
           (u \in getUserIdsByChatId(c)) = (c \in getChatsByUserId(u))

Joined(u) == Cardinality(getChatsByUserId(u))
SentBy(u) == Cardinality({m \in getAllMessages : messages[m].fromId = u})

\* The statistics never claim a chat or a message that is not there
\* (migration 010): they may lag behind, where they start late, but not lead.
StatsNotAhead == \A u \in getAllUserStats \cap getAllUsers :
    /\ stats[u].chatsJoined <= Joined(u)
    /\ stats[u].messagesSent <= SentBy(u)

\* In every step chats_joined of a user changes as the user's chats do, through
\* whichever method or cascade members come and go, and messages_sent as the messages.
StatsFollow == [][
    \A u \in getAllUserStats \cap getAllUserStats' :
        /\ stats'[u].chatsJoined - stats[u].chatsJoined = Joined(u)' - Joined(u)
        /\ u \in getAllUsers' =>
               stats'[u].messagesSent - stats[u].messagesSent = SentBy(u)' - SentBy(u)]_vars

\* A rename is committed together with the old name in ex_usernames, and a
\* transaction that fails or is cut off leaves neither (updateUserProfile).
RenamesRecorded == [][
    \A u \in getAllUsers \cap getAllUsers' :
        users'[u] # users[u] =>
            u \in getAllUserStats' /\ users[u] \in stats'[u].exUsernames]_vars

\* createMessage stores nothing, whatever it is given: the trigger of migration 010
\* writes a column that migration 009 has not created, and the INSERT fails.
NoMessageStored == [][getAllMessages' \subseteq getAllMessages]_vars

=============================================================================
