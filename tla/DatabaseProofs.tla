--------------------------- MODULE DatabaseProofs ---------------------------
(***************************************************************************)
(* Proofs about Database, for any number of processes, files, users and    *)
(* chats: the schema, the references between tables, the look-ups, the     *)
(* history of names, and user_stats, which the triggers of migration 010   *)
(* keep in step with chat_members and messages through every method,       *)
(* cascade and transaction.                                                *)
(***************************************************************************)
EXTENDS Database, MigrationsProofs, FiniteSetTheorems, FunctionTheorems

-----------------------------------------------------------------------------
(* Database runs Migrations. *)

\* Every step is one of Migrations, or leaves its variables alone.
LEMMA StepsMigrate == ASSUME [Next]_vars PROVE [MigrationNext]_migrationVars
  BY DEF Next, vars, Starting, ServerLeaves, MigrationNext, UserCalls, ChatCalls,
         MessageCalls, ProfileSteps, Calls, createUser, deleteUser, createUserStats,
         deleteUserStats, createChat, deleteChat, createChatMember, deleteChatMember,
         create_or_get_private_chat, createContent, deleteContent, createMessage,
         deleteMessage, updateUserProfile, updateUsers, writeHistory, rollback, Inside,
         commitProfile, commitProfileUnanswered

\* What Migrations promises holds in the composition: the files run once and in
\* order, recorded, and the methods of Database are called on the full schema by
\* one process at a time (main.cpp, Database::init).
THEOREM DatabaseMigrates ==
    Spec => [](SchemaRecorded /\ ServesFullSchema /\ OneServer)
<1>1. Init => MigrationInit
  BY DEF Init
<1>2. [Next]_vars => [MigrationNext]_migrationVars
  BY StepsMigrate
<1>3. Spec => MigrationSpec
  BY <1>1, <1>2, PTL DEF Spec, MigrationSpec
<1> QED
  BY <1>3, SchemaStaysRecorded, PTL

-----------------------------------------------------------------------------
(* The rows. *)

TablesTyped ==
    /\ users \in [User -> Name \cup {NoRow}]
    /\ chats \in [Chat -> ChatRow \cup {NoRow}]
    /\ members \subseteq Chat \X User
    /\ contents \subseteq Content
    /\ messages \in [Message -> MessageRow \cup {NoRow}]
    /\ stats \in [User -> StatsRow \cup {NoRow}]

NamesUnique == \A u, v \in User : users[u] # NoRow /\ users[u] = users[v] => u = v

\* An open transaction differs from the tables in the name of its user and in
\* what the statistics gain, and has the old name there before it commits another.
TxTyped == tx \in Tx \cup {NoTx}

TxOK == tx # NoTx =>
    /\ users[tx.user] = tx.old
    /\ \A u \in User \ {tx.user} : tx.users[u] = users[u]
    /\ \A v \in User \ {tx.user} : tx.users[tx.user] # users[v]
    /\ tx.users[tx.user] # NoRow
    /\ tx.step = "commit" /\ tx.users[tx.user] # tx.old =>
           tx.stats[tx.user] # NoRow /\ tx.old \in tx.stats[tx.user].exUsernames
    /\ tx.step = "update" => tx.users = users

-----------------------------------------------------------------------------
(* The references between rows, read off the tables themselves. *)

Refs(us, cs, ms, ks, ts) ==
    /\ \A m \in ms : cs[m[1]] # NoRow /\ us[m[2]] # NoRow
    /\ \A c \in Chat : cs[c] # NoRow =>
           cs[c].createdBy = Null \/ us[cs[c].createdBy] # NoRow
    /\ \A m \in Message : ts[m] # NoRow =>
           /\ cs[ts[m].chatId] # NoRow /\ ts[m].contentId \in ks
           /\ ts[m].fromId = Null \/ us[ts[m].fromId] # NoRow
           /\ ts[m].toId = Null \/ us[ts[m].toId] # NoRow

RefsHold == Refs(users, chats, members, contents, messages)

\* The fields of a row of chats and of messages.
LEMMA RowFields ==
    /\ \A row \in ChatRow : row.createdBy \in User \cup {Null}
    /\ \A row \in MessageRow :
           /\ row.chatId \in Chat /\ row.contentId \in Content
           /\ row.fromId \in User \cup {Null} /\ row.toId \in User \cup {Null}
  BY DEF ChatRow, MessageRow

\* Refs says of the tables what References says through the queries.
LEMMA ReferencesAreRefs ==
    TablesTyped => (References <=> RefsHold)
<1> SUFFICES ASSUME TablesTyped PROVE References <=> RefsHold
  OBVIOUS
<1>1. \A c \in Chat : chats[c] # NoRow => chats[c] \in ChatRow
  BY DEF TablesTyped
<1>2. \A m \in Message : messages[m] # NoRow => messages[m] \in MessageRow
  BY DEF TablesTyped
<1>3. \A m \in members : m[1] \in Chat /\ m[2] \in User
  BY DEF TablesTyped
<1>4. (\A m \in getAllChatMembers : m[1] \in getChatById(m[1]) /\ m[2] \in getAllUsers)
      <=> \A m \in members : chats[m[1]] # NoRow /\ users[m[2]] # NoRow
  BY <1>3 DEF getAllChatMembers, getChatById, getAllUsers
<1>5. ASSUME NEW c \in Chat, chats[c] # NoRow
      PROVE  chats[c].createdBy \in getAllUsers \cup {Null}
             <=> chats[c].createdBy = Null \/ users[chats[c].createdBy] # NoRow
  BY <1>1, <1>5, RowFields, NullAssumption DEF getAllUsers
<1>6. ASSUME NEW m \in Message, messages[m] # NoRow
      PROVE  MayInsert(messages[m])
             <=> /\ chats[messages[m].chatId] # NoRow /\ messages[m].contentId \in contents
                 /\ messages[m].fromId = Null \/ users[messages[m].fromId] # NoRow
                 /\ messages[m].toId = Null \/ users[messages[m].toId] # NoRow
  BY <1>2, <1>6, RowFields, NullAssumption DEF MayInsert, getChatById, getAllUsers
<1> QED
  BY <1>4, <1>5, <1>6 DEF References, RefsHold, Refs, getAllMessages

\* The same after a step.
LEMMA ReferencesAreRefsNext ==
    TablesTyped' => (References' <=> RefsHold')
  BY ReferencesAreRefs, PTL

-----------------------------------------------------------------------------
(* The triggers keep the statistics rows of statistics. *)

StatsTable == [User -> StatsRow \cup {NoRow}]

\* A trigger that changes the row of one user, and writeHistory.
LEMMA RowChanges ==
    ASSUME NEW st \in StatsTable, NEW u \in User, NEW name \in Name
    PROVE  /\ stats_chat_join(st, u) \in StatsTable
           /\ stats_message_insert(st, u) \in StatsTable
           /\ track_old_username(st, u, name) \in StatsTable
           /\ WithHistory(st, u, name) \in StatsTable
<1>1. StatsOrNew(st, u) \in StatsRow
  BY DEF StatsTable, StatsOrNew, NewStats, StatsRow
<1>2. [StatsOrNew(st, u) EXCEPT !.chatsJoined = @ + 1] \in StatsRow
  BY <1>1 DEF StatsRow
<1>3. [StatsOrNew(st, u) EXCEPT !.messagesSent = @ + 1] \in StatsRow
  BY <1>1 DEF StatsRow
<1>4. [StatsOrNew(st, u) EXCEPT !.exUsernames = @ \cup {name}] \in StatsRow
  BY <1>1 DEF StatsRow
<1>5. track_old_username(st, u, name) \in StatsTable
  <2>1. CASE st[u] = NoRow
    BY <2>1 DEF track_old_username
  <2>2. CASE st[u] # NoRow
    <3>1. track_old_username(st, u, name)
          = [st EXCEPT ![u] = [StatsOrNew(st, u) EXCEPT !.exUsernames = @ \cup {name}]]
      BY <2>2 DEF track_old_username, StatsOrNew
    <3> QED BY <1>4, <3>1 DEF StatsTable
  <2> QED BY <2>1, <2>2
<1> QED
  BY <1>2, <1>3, <1>4, <1>5 DEF StatsTable, stats_chat_join, stats_message_insert, WithHistory

\* A subset of the memberships, or of the messages, can be counted.
LEMMA Countable ==
    /\ \A gone \in SUBSET (Chat \X User) : Cardinality(gone) \in Nat
    /\ \A gone \in SUBSET Message : Cardinality(gone) \in Nat
<1>1. IsFiniteSet(Chat \X User) /\ IsFiniteSet(Message)
  BY FiniteAssumption, FS_Product
<1> QED
  BY <1>1, FS_Subset, FS_CardinalityType

\* The triggers that count deleted rows.
LEMMA LeavesCounted ==
    ASSUME NEW st \in StatsTable, NEW gone \in SUBSET (Chat \X User)
    PROVE  stats_chat_leave(st, gone) \in StatsTable
<1>1. \A u \in User : Cardinality({m \in gone : m[2] = u}) \in Int
  BY Countable
<1>2. ASSUME NEW u \in User, st[u] # NoRow
      PROVE  [st[u] EXCEPT !.chatsJoined = @ - Cardinality({m \in gone : m[2] = u})] \in StatsRow
  BY <1>1, <1>2 DEF StatsTable, StatsRow
<1> QED BY <1>2 DEF StatsTable, stats_chat_leave

\* The same for messages.
LEMMA DeletionsCounted ==
    ASSUME NEW st \in StatsTable, NEW gone \in SUBSET Message
    PROVE  stats_message_delete(st, gone) \in StatsTable
<1>1. \A u \in User : Cardinality({m \in gone : messages[m].fromId = u}) \in Int
  BY Countable
<1>2. ASSUME NEW u \in User, st[u] # NoRow
      PROVE  [st[u] EXCEPT !.messagesSent =
                 @ - Cardinality({m \in gone : messages[m].fromId = u})] \in StatsRow
  BY <1>1, <1>2 DEF StatsTable, StatsRow
<1> QED BY <1>2 DEF StatsTable, stats_message_delete

-----------------------------------------------------------------------------
(* Each method keeps the tables typed, their references whole and the names unique. *)

TablesInv == TablesTyped /\ RefsHold /\ NamesUnique

\* A new user's name is nobody else's.
LEMMA CreateUserKeeps ==
    ASSUME TablesInv, NEW u \in User, NEW name \in Name, createUser(u, name) PROVE TablesInv'
<1>1. TablesTyped'
  BY DEF createUser, TablesInv, TablesTyped
<1>2. users' = [users EXCEPT ![u] = name] /\ name # NoRow /\ users \in [User -> Name \cup {NoRow}]
  BY RowAssumption DEF createUser, TablesInv, TablesTyped
<1>3. NamesUnique'
  BY <1>2 DEF createUser, TablesInv, NamesUnique, Unique
<1>4. \A x : users[x] # NoRow => users'[x] # NoRow
  BY <1>2
<1>5. RefsHold'
  BY <1>4 DEF createUser, TablesInv, RefsHold, Refs
<1> QED BY <1>1, <1>3, <1>5 DEF TablesInv

\* The cascades of deleteUser leave nothing that refers to the user.
LEMMA DeleteUserKeeps ==
    ASSUME TablesInv, NEW u \in User, deleteUser(u) PROVE TablesInv'
<1> DEFINE gone == {m \in members : m[2] = u}
<1>1. TablesTyped /\ RefsHold /\ NamesUnique
  BY DEF TablesInv
<1>2. /\ users' = [users EXCEPT ![u] = NoRow] /\ chats' = chatsWithout(u)
      /\ members' = members \ gone /\ stats' = stats_chat_leave(stats, gone)
      /\ messages' = messagesWithout(u) /\ contents' = contents
  BY DEF deleteUser, LeaveChats
<1>3. ASSUME NEW c \in Chat, chats[c] # NoRow
      PROVE  /\ chats'[c] \in ChatRow
             /\ chats'[c].createdBy = Null \/ users'[chats'[c].createdBy] # NoRow
  <2>1. chats'[c] = [chats[c] EXCEPT !.createdBy = Forget(@, u)] /\ chats[c] \in ChatRow
    BY <1>1, <1>2, <1>3 DEF chatsWithout, TablesTyped
  <2>2. chats[c].createdBy = Null \/ users[chats[c].createdBy] # NoRow
    BY <1>1, <1>3 DEF RefsHold, Refs
  <2> QED BY <1>1, <1>2, <2>1, <2>2 DEF Forget, ChatRow, TablesTyped
<1>4. ASSUME NEW m \in Message, messages[m] # NoRow
      PROVE  /\ messages'[m] \in MessageRow
             /\ messages'[m].fromId = Null \/ users'[messages'[m].fromId] # NoRow
             /\ messages'[m].toId = Null \/ users'[messages'[m].toId] # NoRow
             /\ messages'[m].chatId = messages[m].chatId
             /\ messages'[m].contentId = messages[m].contentId
  <2>1. /\ messages'[m] = [messages[m] EXCEPT !.fromId = Forget(@, u), !.toId = Forget(@, u)]
        /\ messages[m] \in MessageRow
    BY <1>1, <1>2, <1>4 DEF messagesWithout, TablesTyped
  <2>2. /\ messages[m].fromId = Null \/ users[messages[m].fromId] # NoRow
        /\ messages[m].toId = Null \/ users[messages[m].toId] # NoRow
    BY <1>1, <1>4 DEF RefsHold, Refs
  <2>3. /\ messages'[m].fromId = Forget(messages[m].fromId, u)
        /\ messages'[m].toId = Forget(messages[m].toId, u)
        /\ messages'[m].chatId = messages[m].chatId
        /\ messages'[m].contentId = messages[m].contentId
        /\ messages[m].fromId \in User \cup {Null} /\ messages[m].toId \in User \cup {Null}
    BY <2>1 DEF MessageRow
  <2>4. messages'[m] \in MessageRow
    BY <2>1 DEF MessageRow, Forget
  <2> QED BY <1>1, <1>2, <2>2, <2>3, <2>4 DEF Forget, TablesTyped
<1>5. \A c \in Chat : chats[c] = NoRow <=> chats'[c] = NoRow
  BY <1>1, <1>2, <1>3, RowAssumption DEF chatsWithout, TablesTyped
<1>6. \A m \in Message : messages[m] = NoRow => messages'[m] = NoRow
  BY <1>2 DEF messagesWithout
<1>7. TablesTyped'
  <2>1. stats' \in StatsTable
    BY <1>1, <1>2, LeavesCounted DEF TablesTyped, StatsTable
  <2>2. chats' \in [Chat -> ChatRow \cup {NoRow}]
    BY <1>2, <1>3, <1>5 DEF chatsWithout
  <2>3. messages' \in [Message -> MessageRow \cup {NoRow}]
    BY <1>2, <1>4, <1>6 DEF messagesWithout
  <2> QED BY <1>1, <1>2, <2>1, <2>2, <2>3 DEF TablesTyped, StatsTable
<1>8. RefsHold'
  <2>1. \A m \in members' : chats'[m[1]] # NoRow /\ users'[m[2]] # NoRow
    BY <1>1, <1>2, <1>5 DEF RefsHold, Refs, TablesTyped
  <2>2. \A m \in Message : messages'[m] # NoRow => messages[m] # NoRow
    BY <1>6
  <2>3. \A m \in Message : messages'[m] # NoRow =>
          chats'[messages'[m].chatId] # NoRow /\ messages'[m].contentId \in contents'
    BY <1>1, <1>2, <1>4, <1>5, <2>2, RowFields DEF RefsHold, Refs, TablesTyped
  <2> QED BY <1>3, <1>4, <1>5, <2>1, <2>2, <2>3 DEF RefsHold, Refs
<1>9. NamesUnique'
  BY <1>1, <1>2 DEF NamesUnique, TablesTyped
<1> QED BY <1>7, <1>8, <1>9 DEF TablesInv

\* A new content.
LEMMA CreateContentKeeps ==
    ASSUME TablesInv, NEW k \in Content, createContent(k) PROVE TablesInv'
  BY DEF createContent, TablesInv, TablesTyped, RefsHold, Refs, NamesUnique

\* Deleting messages leaves the others as they are.
LEMMA ClearingKeeps ==
    ASSUME TablesTyped, NEW gone \in SUBSET Message
    PROVE  /\ Cleared(gone) \in [Message -> MessageRow \cup {NoRow}]
           /\ \A m \in Message : Cleared(gone)[m] # NoRow =>
                  m \notin gone /\ Cleared(gone)[m] = messages[m]
  BY DEF TablesTyped, Cleared

\* The messages of a content go with it.
LEMMA DeleteContentKeeps ==
    ASSUME TablesInv, NEW k \in Content, deleteContent(k) PROVE TablesInv'
<1> DEFINE gone == MessagesOf(Null, k)
<1>1. TablesTyped /\ RefsHold /\ NamesUnique
  BY DEF TablesInv
<1>2. gone \in SUBSET Message
  BY DEF MessagesOf, getAllMessages
<1>3. /\ contents' = contents \ {k} /\ messages' = Cleared(gone)
      /\ stats' = stats_message_delete(stats, gone)
      /\ users' = users /\ chats' = chats /\ members' = members
  BY DEF deleteContent
<1>4. TablesTyped'
  BY <1>1, <1>2, <1>3, ClearingKeeps, DeletionsCounted DEF TablesTyped, StatsTable
<1>5. \A m \in Message : messages'[m] # NoRow =>
          messages'[m] = messages[m] /\ messages[m].contentId # k
  BY <1>1, <1>2, <1>3, ClearingKeeps DEF MessagesOf, getAllMessages
<1>6. RefsHold'
  BY <1>1, <1>3, <1>5 DEF RefsHold, Refs
<1> QED BY <1>1, <1>3, <1>4, <1>6 DEF TablesInv, NamesUnique

\* The creator of a new chat is a user.
LEMMA CreateChatKeeps ==
    ASSUME TablesInv, NEW c \in Chat, NEW row \in ChatRow, createChat(c, row) PROVE TablesInv'
<1>1. /\ chats' = [chats EXCEPT ![c] = row] /\ users[row.createdBy] # NoRow
      /\ users' = users /\ members' = members /\ contents' = contents
      /\ messages' = messages /\ stats' = stats /\ row # NoRow
  BY RowAssumption DEF createChat, getAllUsers
<1>2. TablesTyped'
  BY <1>1 DEF TablesInv, TablesTyped
<1>3. \A x : chats[x] # NoRow => chats'[x] # NoRow
  BY <1>1 DEF TablesInv, TablesTyped
<1>4. RefsHold'
  BY <1>1, <1>3 DEF TablesInv, TablesTyped, RefsHold, Refs
<1> QED BY <1>1, <1>2, <1>4 DEF TablesInv, NamesUnique

\* The members and messages of a chat go with it.
LEMMA DeleteChatKeeps ==
    ASSUME TablesInv, NEW c \in Chat, deleteChat(c) PROVE TablesInv'
<1> DEFINE gone == MessagesOf(c, Null)
           left == {m \in members : m[1] = c}
<1>1. TablesTyped /\ RefsHold /\ NamesUnique
  BY DEF TablesInv
<1>2. gone \in SUBSET Message /\ left \in SUBSET (Chat \X User)
  BY <1>1 DEF MessagesOf, getAllMessages, TablesTyped
<1>3. /\ chats' = [chats EXCEPT ![c] = NoRow] /\ members' = members \ left
      /\ messages' = Cleared(gone)
      /\ stats' = stats_message_delete(stats_chat_leave(stats, left), gone)
      /\ users' = users /\ contents' = contents
  BY DEF deleteChat
<1>4. stats' \in StatsTable
  BY <1>1, <1>2, <1>3, LeavesCounted, DeletionsCounted DEF TablesTyped, StatsTable
<1>5. TablesTyped'
  BY <1>1, <1>2, <1>3, <1>4, ClearingKeeps DEF TablesTyped, StatsTable
<1>6. \A m \in Message : messages'[m] # NoRow =>
          messages'[m] = messages[m] /\ messages[m].chatId # c
  BY <1>1, <1>2, <1>3, ClearingKeeps DEF MessagesOf, getAllMessages
<1>7. \A x \in Chat : x # c => chats'[x] = chats[x]
  BY <1>1, <1>3 DEF TablesTyped
<1>8. \A m \in members' : m \in members /\ m[1] \in Chat /\ m[1] # c
  BY <1>1, <1>3 DEF TablesTyped
<1>9. \A x \in Chat : chats'[x] # NoRow => chats'[x] = chats[x]
  BY <1>1, <1>3 DEF TablesTyped
<1>10. \A m \in Message : messages'[m] # NoRow => messages[m].chatId \in Chat
  BY <1>1, <1>6, RowFields DEF TablesTyped
<1>11. RefsHold'
  BY <1>1, <1>3, <1>6, <1>7, <1>8, <1>9, <1>10 DEF RefsHold, Refs
<1> QED BY <1>1, <1>3, <1>5, <1>11 DEF TablesInv, NamesUnique

\* A new member is a user, and the chat is there.
LEMMA CreateMemberKeeps ==
    ASSUME TablesInv, NEW c \in Chat, NEW u \in User, createChatMember(c, u) PROVE TablesInv'
<1>1. /\ members' = members \cup {<<c, u>>} /\ stats' = stats_chat_join(stats, u)
      /\ users' = users /\ chats' = chats /\ contents' = contents /\ messages' = messages
      /\ chats[c] # NoRow /\ users[u] # NoRow
  BY DEF createChatMember, getChatById, getUserById, getAllUsers
<1>2. stats' \in StatsTable
  <2>1. stats \in StatsTable
    BY DEF TablesInv, TablesTyped, StatsTable
  <2>2. PICK name \in Name \cup {NoRow} : users[u] = name
    BY DEF TablesInv, TablesTyped
  <2> QED BY <1>1, <2>1, <2>2, RowChanges
<1>3. TablesTyped'
  BY <1>1, <1>2 DEF TablesInv, TablesTyped, StatsTable
<1> QED BY <1>1, <1>3 DEF TablesInv, RefsHold, Refs, NamesUnique

\* A member who leaves.
LEMMA DeleteMemberKeeps ==
    ASSUME TablesInv, NEW c \in Chat, NEW u \in User, deleteChatMember(c, u) PROVE TablesInv'
<1>1. stats_chat_leave(stats, {<<c, u>>}) \in StatsTable
  BY LeavesCounted DEF TablesInv, TablesTyped, StatsTable
<1> QED
  BY <1>1 DEF deleteChatMember, LeaveChats, TablesInv, TablesTyped, StatsTable,
              RefsHold, Refs, NamesUnique

\* The chat of the procedure, with its two members.
LEMMA PrivateChatKeeps ==
    ASSUME TablesInv, NEW u \in User, NEW v \in User, NEW c \in Chat,
           create_or_get_private_chat(u, v, c)
    PROVE  TablesInv'
<1> DEFINE row == [type |-> "direct", createdBy |-> u]
<1>1. /\ chats' = [chats EXCEPT ![c] = row]
      /\ members' = members \cup {<<c, u>>, <<c, v>>}
      /\ stats' = stats_chat_join(stats_chat_join(stats, u), v)
      /\ users' = users /\ contents' = contents /\ messages' = messages
      /\ users[u] # NoRow /\ users[v] # NoRow
  BY DEF create_or_get_private_chat, getAllUsers
<1>2. row \in ChatRow /\ row # NoRow
  BY RowAssumption DEF ChatRow
<1>3. stats' \in StatsTable
  <2>1. stats \in StatsTable
    BY DEF TablesInv, TablesTyped, StatsTable
  <2>2. users[u] \in Name
    BY <1>1 DEF TablesInv, TablesTyped
  <2>3. stats_chat_join(stats, u) \in StatsTable
    BY <2>1, <2>2, RowChanges
  <2> QED BY <1>1, <2>2, <2>3, RowChanges
<1>4. TablesTyped'
  BY <1>1, <1>2, <1>3 DEF TablesInv, TablesTyped, StatsTable
<1>5. \A x : chats[x] # NoRow => chats'[x] # NoRow
  BY <1>1, <1>2 DEF TablesInv, TablesTyped
<1>6. chats'[c] = row
  BY <1>1 DEF TablesInv, TablesTyped
<1>7. \A x \in Chat : x # c => chats'[x] = chats[x]
  BY <1>1 DEF TablesInv, TablesTyped
<1>8. \A m \in members' : chats'[m[1]] # NoRow /\ users'[m[2]] # NoRow
  BY <1>1, <1>2, <1>5, <1>6 DEF TablesInv, RefsHold, Refs
<1>9. RefsHold'
  BY <1>1, <1>5, <1>6, <1>7, <1>8 DEF TablesInv, RefsHold, Refs
<1> QED BY <1>1, <1>4, <1>9 DEF TablesInv, NamesUnique

\* The trigger refuses every row: migration 009 gives the column it writes no place.
LEMMA InsertFails == \A from : stats_message_insert_Fails(from)
  BY DEF stats_message_insert_Fails, StatsColumns

\* A message that is not stored.
LEMMA CreateMessageKeeps ==
    ASSUME TablesInv, NEW m \in Message, NEW row \in MessageRow, createMessage(m, row)
    PROVE  TablesInv'
  BY InsertFails DEF createMessage, TablesInv, TablesTyped, RefsHold, Refs, NamesUnique

\* A message that is deleted.
LEMMA DeleteMessageKeeps ==
    ASSUME TablesInv, NEW m \in Message, deleteMessage(m) PROVE TablesInv'
<1>1. /\ messages' = Cleared({m}) /\ stats' = stats_message_delete(stats, {m})
      /\ users' = users /\ chats' = chats /\ members' = members /\ contents' = contents
  BY DEF deleteMessage
<1>2. TablesTyped'
  BY <1>1, ClearingKeeps, DeletionsCounted DEF TablesInv, TablesTyped, StatsTable
<1>3. \A x \in Message : messages'[x] # NoRow => messages'[x] = messages[x]
  BY <1>1, ClearingKeeps DEF TablesInv
<1> QED BY <1>1, <1>2, <1>3 DEF TablesInv, RefsHold, Refs, NamesUnique

\* The statistics come and go without the rest.
LEMMA StatsRowsKeep ==
    ASSUME TablesInv, NEW u \in User,
           createUserStats(u, NewStats) \/ deleteUserStats(u)
    PROVE  TablesInv'
<1>1. NewStats \in StatsRow
  BY DEF NewStats, StatsRow
<1> QED
  BY <1>1 DEF createUserStats, deleteUserStats, TablesInv, TablesTyped, RefsHold, Refs,
              NamesUnique

-----------------------------------------------------------------------------
(* The transaction of updateUserProfile. *)

\* It starts with the tables as they are, and with the user's name.
LEMMA ProfileStarts ==
    ASSUME TablesInv, NEW u \in User, NEW name \in Name, updateUserProfile(u, name)
    PROVE  TxTyped' /\ TxOK'
<1>1. /\ tx' = [user |-> u, old |-> users[u], new |-> name, step |-> "update",
                users |-> users, stats |-> stats]
      /\ users[u] # NoRow /\ users' = users
  BY DEF updateUserProfile, getUserById, getAllUsers, tables
<1>2. users[u] \in Name
  BY <1>1 DEF TablesInv, TablesTyped
<1>3. tx' \in Tx
  BY <1>1, <1>2 DEF Tx, TablesInv, TablesTyped
<1>4. TxOK'
  BY <1>1, <1>2 DEF TxOK, TablesInv, TablesTyped, NamesUnique
<1> QED BY <1>3, <1>4 DEF TxTyped

\* The UPDATE renames the user in the transaction to a name nobody has.
LEMMA UpdateKeepsTx ==
    ASSUME TablesInv, TxTyped, TxOK, updateUsers
    PROVE  TxTyped' /\ TxOK'
<1> DEFINE u == tx.user
           st == track_old_username(tx.stats, u, tx.old)
<1>1. /\ tx # NoTx /\ tx.step = "update" /\ users' = users /\ tx \in Tx
      /\ Unique(tx.users, u, tx.new)
      /\ tx' = [tx EXCEPT !.users[u] = tx.new, !.stats = st,
                          !.step = IF Renamed THEN "history" ELSE "commit"]
  BY DEF updateUsers, At, Inside, tables, TxTyped
<1>2. /\ u \in User /\ tx.old \in Name /\ tx.new \in Name
      /\ tx.users \in [User -> Name \cup {NoRow}]
      /\ tx.stats \in StatsTable
  BY <1>1 DEF Tx, StatsTable
<1>3. st \in StatsTable
  BY <1>2, RowChanges
<1>4. /\ tx'.user = u /\ tx'.old = tx.old /\ tx'.new = tx.new
      /\ tx'.users = [tx.users EXCEPT ![u] = tx.new] /\ tx'.stats = st
      /\ tx'.step = IF Renamed THEN "history" ELSE "commit"
  BY <1>1 DEF Tx
<1>5. tx' \in Tx
  BY <1>1, <1>2, <1>3 DEF Tx, StatsTable
<1>6. /\ users[u] = tx.old /\ tx.users = users
  BY <1>1 DEF TxOK
<1>7. tx'.users[u] = tx.new /\ \A v \in User \ {u} : tx'.users[v] = users[v]
  BY <1>2, <1>4, <1>6
<1>8. \A v \in User \ {u} : tx.new # users[v]
  BY <1>1, <1>6 DEF Unique
<1>9. tx.new # NoRow
  BY <1>2, RowAssumption
<1>10. tx'.step # "update" /\ (tx'.step = "commit" => tx.new = tx.old)
  BY <1>4 DEF Renamed
<1>11. TxOK'
  BY <1>1, <1>4, <1>6, <1>7, <1>8, <1>9, <1>10 DEF TxOK
<1> QED BY <1>5, <1>11 DEF TxTyped

\* The old name is in the history before the transaction commits.
LEMMA HistoryKeepsTx ==
    ASSUME TablesInv, TxTyped, TxOK, writeHistory
    PROVE  TxTyped' /\ TxOK'
<1> DEFINE u == tx.user
           st == WithHistory(tx.stats, u, tx.old)
           row == [StatsOrNew(tx.stats, u) EXCEPT !.exUsernames = @ \cup {tx.old}]
<1>1. /\ tx # NoTx /\ tx.step = "history" /\ users' = users /\ tx \in Tx
      /\ tx' = [tx EXCEPT !.stats = st, !.step = "commit"]
  BY DEF writeHistory, At, Inside, tables, TxTyped
<1>2. /\ u \in User /\ tx.old \in Name /\ tx.stats \in StatsTable
  BY <1>1 DEF Tx, StatsTable
<1>3. st \in StatsTable
  BY <1>2, RowChanges
<1>4. /\ tx'.user = u /\ tx'.old = tx.old /\ tx'.users = tx.users /\ tx'.stats = st
      /\ tx'.step = "commit"
  BY <1>1 DEF Tx
<1>5. tx' \in Tx
  BY <1>1, <1>3 DEF Tx, StatsTable
<1>6. st[u] # NoRow /\ tx.old \in st[u].exUsernames
  <2>1. StatsOrNew(tx.stats, u) \in StatsRow
    BY <1>2 DEF StatsTable, StatsOrNew, NewStats, StatsRow
  <2>2. row \in StatsRow /\ tx.old \in row.exUsernames
    BY <1>2, <2>1 DEF StatsRow
  <2>3. st[u] = row
    BY <1>2 DEF WithHistory, StatsTable
  <2> QED BY <2>2, <2>3, RowAssumption
<1>7. TxOK'
  BY <1>1, <1>4, <1>6 DEF TxOK
<1> QED BY <1>5, <1>7 DEF TxTyped

\* What is committed is a table with unique names and no user more or less.
LEMMA CommitKeepsTables ==
    ASSUME TablesInv, TxTyped, TxOK, CommittedProfile
    PROVE  TablesInv' /\ TxTyped' /\ TxOK'
<1>1. /\ tx # NoTx /\ tx \in Tx /\ users' = tx.users /\ stats' = tx.stats /\ tx' = NoTx
      /\ chats' = chats /\ members' = members /\ contents' = contents /\ messages' = messages
  BY DEF CommittedProfile, At, TxTyped
<1>2. TablesTyped'
  BY <1>1 DEF Tx, TablesInv, TablesTyped
<1>3. /\ \A v \in User \ {tx.user} : users'[v] = users[v] /\ users'[tx.user] # users[v]
      /\ users'[tx.user] # NoRow /\ tx.user \in User
  BY <1>1 DEF TxOK, Tx
<1>4. NamesUnique'
  BY <1>3 DEF TablesInv, NamesUnique
<1>5. \A x \in User : users[x] # NoRow => users'[x] # NoRow
  BY <1>3
<1>6. RefsHold'
  <2>1. \A c \in Chat : chats[c] # NoRow => chats[c].createdBy \in User \cup {Null}
    BY RowFields DEF TablesInv, TablesTyped
  <2>2. \A m \in Message : messages[m] # NoRow =>
          messages[m].fromId \in User \cup {Null} /\ messages[m].toId \in User \cup {Null}
    BY RowFields DEF TablesInv, TablesTyped
  <2>3. \A m \in members : m[2] \in User
    BY DEF TablesInv, TablesTyped
  <2> QED BY <1>1, <1>5, <2>1, <2>2, <2>3 DEF TablesInv, RefsHold, Refs
<1> QED BY <1>1, <1>2, <1>4, <1>6 DEF TablesInv, TxTyped, TxOK

-----------------------------------------------------------------------------
(* Together. *)

RowsInv == TablesInv /\ TxTyped /\ TxOK

\* The rows a start finds satisfy the invariant.
LEMMA RowsInit == Init => RowsInv
<1>1. SUFFICES ASSUME Init PROVE RowsInv
  OBVIOUS
<1>2. TablesTyped
  <2>1. stats \in [User -> StatsRow \cup {NoRow}]
    BY <1>1 DEF Init
  <2>2. CASE versions = {}
    BY <1>1, <2>1, <2>2 DEF Init, NoTables, TablesTyped
  <2>3. CASE versions # {}
    BY <1>1, <2>1, <2>3, OldAssumption DEF Init, TablesTyped
  <2> QED BY <2>2, <2>3
<1>3. NamesUnique
  BY <1>1, OldAssumption DEF Init, NoTables, NamesUnique
<1>4. References
  <2>1. CASE versions = {}
    BY <1>1, <2>1 DEF Init, NoTables, References, getAllChatMembers, getAllMessages
  <2>2. CASE versions # {}
    <3>1. /\ users = Old.users /\ chats = Old.chats /\ members = Old.members
          /\ contents = Old.contents /\ messages = Old.messages
      BY <1>1, <2>2 DEF Init
    <3>2. \A m \in getAllChatMembers : m[1] \in getChatById(m[1]) /\ m[2] \in getAllUsers
      BY <3>1, OldAssumption DEF getAllChatMembers, getChatById, getAllUsers
    <3>3. \A c \in Chat : chats[c] # NoRow => chats[c].createdBy \in getAllUsers \cup {Null}
      BY <3>1, OldAssumption DEF getAllUsers, ChatRow
    <3>4. \A m \in getAllMessages : MayInsert(messages[m])
      <4>1. SUFFICES ASSUME NEW m \in Message, messages[m] # NoRow
                     PROVE  MayInsert(messages[m])
        BY DEF getAllMessages
      <4>2. messages[m] \in MessageRow
        BY <3>1, <4>1, OldAssumption
      <4>3. /\ messages[m].chatId \in Chat /\ messages[m].contentId \in Content
            /\ messages[m].fromId \in User \cup {Null} /\ messages[m].toId \in User \cup {Null}
        BY <4>2 DEF MessageRow
      <4> QED
        BY <3>1, <4>1, <4>3, OldAssumption DEF MayInsert, getChatById, getAllUsers
    <3> QED BY <3>2, <3>3, <3>4 DEF References
  <2> QED BY <2>1, <2>2
<1>5. tx = NoTx
  BY <1>1 DEF Init
<1> QED BY <1>2, <1>3, <1>4, <1>5, ReferencesAreRefs DEF RowsInv, TablesInv, TxTyped, TxOK

\* A method that is one statement leaves no transaction open.
LEMMA CallsKeepTx == Calls => TxTyped' /\ TxOK'
  BY DEF Calls, Ready, TxTyped, TxOK

\* A step that leaves the tables alone and ends the transaction or leaves it alone.
LEMMA OutsideKeeps ==
    ASSUME RowsInv, UNCHANGED tables, tx' \in {tx, NoTx} PROVE RowsInv'
<1>1. TablesInv'
  BY DEF RowsInv, TablesInv, TablesTyped, RefsHold, NamesUnique, tables
<1> QED BY <1>1 DEF RowsInv, TxTyped, TxOK, tables

\* Every step keeps the invariant.
LEMMA RowsStep == ASSUME RowsInv, [Next]_vars PROVE RowsInv'
<1>1. TablesInv /\ TxTyped /\ TxOK
  BY DEF RowsInv
<1>2. CASE UNCHANGED vars \/ Starting \/ ServerLeaves
  BY <1>2, OutsideKeeps DEF vars, Starting, ServerLeaves
<1>3. CASE UserCalls
  <2>1. PICK u \in User :
          \/ \E name \in Name : createUser(u, name) \/ updateUserProfile(u, name)
          \/ deleteUser(u) \/ createUserStats(u, NewStats) \/ deleteUserStats(u)
    BY <1>3 DEF UserCalls
  <2>2. ASSUME NEW name \in Name, createUser(u, name) PROVE RowsInv'
    BY <1>1, <2>2, CreateUserKeeps, CallsKeepTx DEF RowsInv, createUser
  <2>3. ASSUME NEW name \in Name, updateUserProfile(u, name) PROVE RowsInv'
    <3>1. TxTyped' /\ TxOK'
      BY <1>1, <2>3, ProfileStarts
    <3> QED BY <1>1, <2>3, <3>1 DEF RowsInv, updateUserProfile, tables, TablesInv,
                                    TablesTyped, RefsHold, NamesUnique
  <2>4. CASE deleteUser(u)
    BY <1>1, <2>4, DeleteUserKeeps, CallsKeepTx DEF RowsInv, deleteUser
  <2>5. CASE createUserStats(u, NewStats) \/ deleteUserStats(u)
    BY <1>1, <2>5, StatsRowsKeep, CallsKeepTx DEF RowsInv, createUserStats, deleteUserStats
  <2> QED BY <2>1, <2>2, <2>3, <2>4, <2>5
<1>4. CASE ChatCalls
  <2>1. PICK c \in Chat :
          \/ \E row \in ChatRow : createChat(c, row)
          \/ deleteChat(c)
          \/ \E u \in User : createChatMember(c, u) \/ deleteChatMember(c, u)
          \/ \E u, v \in User : create_or_get_private_chat(u, v, c)
    BY <1>4 DEF ChatCalls
  <2>2. ASSUME NEW row \in ChatRow, createChat(c, row) PROVE RowsInv'
    BY <1>1, <2>2, CreateChatKeeps, CallsKeepTx DEF RowsInv, createChat
  <2>3. CASE deleteChat(c)
    BY <1>1, <2>3, DeleteChatKeeps, CallsKeepTx DEF RowsInv, deleteChat
  <2>4. ASSUME NEW u \in User, createChatMember(c, u) PROVE RowsInv'
    BY <1>1, <2>4, CreateMemberKeeps, CallsKeepTx DEF RowsInv, createChatMember
  <2>5. ASSUME NEW u \in User, deleteChatMember(c, u) PROVE RowsInv'
    BY <1>1, <2>5, DeleteMemberKeeps, CallsKeepTx DEF RowsInv, deleteChatMember
  <2>6. ASSUME NEW u \in User, NEW v \in User, create_or_get_private_chat(u, v, c)
        PROVE  RowsInv'
    BY <1>1, <2>6, PrivateChatKeeps, CallsKeepTx DEF RowsInv, create_or_get_private_chat
  <2> QED BY <2>1, <2>2, <2>3, <2>4, <2>5, <2>6
<1>5. CASE MessageCalls
  <2>1. ASSUME NEW k \in Content, createContent(k) PROVE RowsInv'
    BY <1>1, <2>1, CreateContentKeeps, CallsKeepTx DEF RowsInv, createContent
  <2>2. ASSUME NEW k \in Content, deleteContent(k) PROVE RowsInv'
    BY <1>1, <2>2, DeleteContentKeeps, CallsKeepTx DEF RowsInv, deleteContent
  <2>3. ASSUME NEW m \in Message, NEW row \in MessageRow, createMessage(m, row) PROVE RowsInv'
    BY <1>1, <2>3, CreateMessageKeeps, CallsKeepTx DEF RowsInv, createMessage
  <2>4. ASSUME NEW m \in Message, deleteMessage(m) PROVE RowsInv'
    BY <1>1, <2>4, DeleteMessageKeeps, CallsKeepTx DEF RowsInv, deleteMessage
  <2> QED BY <1>5, <2>1, <2>2, <2>3, <2>4 DEF MessageCalls
<1>6. CASE ProfileSteps
  <2>1. CASE updateUsers
    <3>1. TxTyped' /\ TxOK'
      BY <1>1, <2>1, UpdateKeepsTx
    <3> QED BY <1>1, <2>1, <3>1 DEF RowsInv, updateUsers, Inside, tables, TablesInv,
                                    TablesTyped, RefsHold, NamesUnique
  <2>2. CASE writeHistory
    <3>1. TxTyped' /\ TxOK'
      BY <1>1, <2>2, HistoryKeepsTx
    <3> QED BY <1>1, <2>2, <3>1 DEF RowsInv, writeHistory, Inside, tables, TablesInv,
                                    TablesTyped, RefsHold, NamesUnique
  <2>3. CASE rollback
    BY <2>3, OutsideKeeps DEF rollback, Inside
  <2>4. CASE CommittedProfile
    BY <1>1, <2>4, CommitKeepsTables DEF RowsInv
  <2> QED BY <1>6, <2>1, <2>2, <2>3, <2>4 DEF ProfileSteps, commitProfile, commitProfileUnanswered
<1> QED BY <1>2, <1>3, <1>4, <1>5, <1>6 DEF Next

\* The invariant of the rows holds of every reachable state.
LEMMA RowsAlways == Spec => []RowsInv
  BY RowsInit, RowsStep, PTL DEF Spec

\* The tables, the transaction and the start of the processes keep their types.
THEOREM TypesStay == Spec => []TypeOK
<1>1. Init => MigrationInv
  BY MigrationInitInv DEF Init
<1>2. MigrationInv /\ [Next]_vars => MigrationInv'
  BY StepsMigrate, MigrationStep
<1>3. MigrationInv /\ RowsInv => TypeOK
  BY DEF MigrationInv, RowsInv, TablesInv, TablesTyped, TxTyped, TypeOK
<1>4. Spec => []MigrationInv
  BY <1>1, <1>2, PTL DEF Spec
<1> QED
  BY <1>3, <1>4, RowsAlways, PTL

\* No statement, cascade or transaction leaves a row that refers to a row that is
\* gone (the foreign keys of migrations 003 and 004).
THEOREM ReferencesStay == Spec => []References
<1>1. RowsInv => References
  BY ReferencesAreRefs DEF RowsInv, TablesInv
<1> QED BY <1>1, RowsAlways, PTL

\* The queries by id and by name find the same user, and those by chat and by
\* user the same memberships (Database.cpp).
THEOREM LookupsStayEqual == Spec => []LookupsAgree
<1>1. RowsInv => LookupsAgree
  <2>1. SUFFICES ASSUME RowsInv PROVE LookupsAgree
    OBVIOUS
  <2>2. TablesTyped /\ RefsHold /\ NamesUnique
    BY <2>1 DEF RowsInv, TablesInv
  <2>3. ASSUME NEW u \in getAllUsers PROVE getUserByUsername(users[u]) = {u}
    BY <2>2, <2>3 DEF NamesUnique, getAllUsers, getUserByUsername
  <2>4. ASSUME NEW u \in getAllUsers
        PROVE  getPublicUserInfoByUserId(u) = getPublicUserInfoByUsername(users[u])
    <3>1. getUserById(u) = {u}
      BY <2>4 DEF getUserById
    <3> QED BY <2>3, <2>4, <3>1 DEF getPublicUserInfoByUserId, getPublicUserInfoByUsername
  <2>5. ASSUME NEW c \in Chat, NEW u \in User
        PROVE  (u \in getUserIdsByChatId(c)) = (c \in getChatsByUserId(u))
    <3>1. <<c, u>> \in members => chats[c] # NoRow
      BY <2>2 DEF RefsHold, Refs
    <3> QED BY <3>1 DEF getUserIdsByChatId, getChatsByUserId
  <2> QED BY <2>3, <2>4, <2>5 DEF LookupsAgree
<1> QED BY <1>1, RowsAlways, PTL

-----------------------------------------------------------------------------
(* Ids. *)

\* The id of a user or chat that is or was there is not handed out again.
IdsTaken ==
    /\ \A u \in User : users[u] # NoRow => u \in ids
    /\ \A c \in Chat : chats[c] # NoRow => c \in ids

\* IdsTaken holds of every reachable state.
LEMMA IdsAlwaysTaken == Spec => []IdsTaken
<1>1. Init => IdsTaken
  BY OldAssumption DEF Init, NoTables, IdsTaken
<1>2. RowsInv /\ IdsTaken /\ [Next]_vars => IdsTaken'
  <2>1. SUFFICES ASSUME RowsInv, IdsTaken, Next PROVE IdsTaken'
    BY DEF vars, tables, IdsTaken
  <2>2. /\ users \in [User -> Name \cup {NoRow}] /\ chats \in [Chat -> ChatRow \cup {NoRow}]
        /\ tx \in Tx \cup {NoTx} /\ TxOK
    BY <2>1 DEF RowsInv, TablesInv, TablesTyped, TxTyped
  <2>3. CASE UNCHANGED <<ids, users, chats>>
    BY <2>1, <2>3 DEF IdsTaken
  <2>4. CASE UserCalls
    <3>1. ASSUME NEW u \in User, NEW name \in Name, createUser(u, name) PROVE IdsTaken'
      BY <2>1, <2>2, <3>1 DEF createUser, Fresh, IdsTaken
    <3>2. ASSUME NEW u \in User, deleteUser(u) PROVE IdsTaken'
      BY <2>1, <2>2, <3>2 DEF deleteUser, chatsWithout, IdsTaken
    <3> QED BY <2>3, <2>4, <3>1, <3>2 DEF UserCalls, updateUserProfile, createUserStats,
                                          deleteUserStats, tables
  <2>5. CASE ChatCalls
    <3>1. ASSUME NEW c \in Chat, NEW row \in ChatRow, createChat(c, row) PROVE IdsTaken'
      BY <2>1, <2>2, <3>1 DEF createChat, Fresh, IdsTaken
    <3>2. ASSUME NEW c \in Chat, deleteChat(c) PROVE IdsTaken'
      BY <2>1, <2>2, <3>2 DEF deleteChat, IdsTaken
    <3>3. ASSUME NEW u \in User, NEW v \in User, NEW c \in Chat,
                 create_or_get_private_chat(u, v, c)
          PROVE  IdsTaken'
      BY <2>1, <2>2, <3>3 DEF create_or_get_private_chat, Fresh, IdsTaken
    <3> QED BY <2>3, <2>5, <3>1, <3>2, <3>3 DEF ChatCalls, createChatMember, deleteChatMember
  <2>6. CASE MessageCalls
    BY <2>1, <2>6 DEF MessageCalls, createContent, deleteContent, createMessage,
                      deleteMessage, Fresh, IdsTaken
  <2>7. CASE CommittedProfile
    <3>1. /\ users' = tx.users /\ ids' = ids /\ chats' = chats /\ tx.user \in User
          /\ tx # NoTx
      BY <2>2, <2>7 DEF CommittedProfile, At, Tx
    <3>2. \A u \in User \ {tx.user} : users'[u] = users[u]
      BY <2>2, <3>1 DEF TxOK
    <3>3. users[tx.user] # NoRow
      BY <2>2, <3>1, RowAssumption DEF TxOK, Tx
    <3> QED BY <2>1, <3>1, <3>2, <3>3 DEF IdsTaken
  <2> QED BY <2>1, <2>3, <2>4, <2>5, <2>6, <2>7
          DEF Next, Starting, ServerLeaves, tables, ProfileSteps, updateUsers, writeHistory,
              rollback, Inside, commitProfile, commitProfileUnanswered
<1> QED BY <1>1, <1>2, RowsAlways, PTL DEF Spec

\* A rename is committed with the old name in the history, whatever fails or ends
\* on the way (Database::updateUserProfile).
THEOREM RenamesStayRecorded == Spec => RenamesRecorded
<1> DEFINE Recorded == \A u \in getAllUsers \cap getAllUsers' :
               users'[u] # users[u] =>
                   u \in getAllUserStats' /\ users[u] \in stats'[u].exUsernames
<1>1. RowsInv /\ IdsTaken /\ [Next]_vars => [Recorded]_vars
  <2>1. SUFFICES ASSUME RowsInv, IdsTaken, Next, NEW u \in User,
                        users[u] # NoRow, users'[u] # NoRow, users'[u] # users[u]
                 PROVE  stats'[u] # NoRow /\ users[u] \in stats'[u].exUsernames
    BY DEF getAllUsers, getAllUserStats
  <2>2. TxOK /\ tx \in Tx \cup {NoTx} /\ users \in [User -> Name \cup {NoRow}]
    BY <2>1 DEF RowsInv, TxTyped, TablesInv, TablesTyped
  <2>3. ~ UserCalls
    <3>1. ASSUME NEW v \in User, NEW name \in Name, createUser(v, name) PROVE FALSE
      BY <2>1, <2>2, <3>1 DEF createUser, Fresh, IdsTaken
    <3>2. ASSUME NEW v \in User, deleteUser(v) PROVE FALSE
      BY <2>1, <2>2, <3>2 DEF deleteUser
    <3> QED BY <2>1, <3>1, <3>2 DEF UserCalls, updateUserProfile, createUserStats,
                                    deleteUserStats, tables
  <2>4. CommittedProfile
    BY <2>1, <2>3
       DEF Next, Starting, ServerLeaves, tables, ChatCalls, createChat, deleteChat,
           createChatMember, deleteChatMember, create_or_get_private_chat, MessageCalls,
           createContent, deleteContent, createMessage, deleteMessage, ProfileSteps,
           updateUsers, writeHistory, rollback, Inside, commitProfile, commitProfileUnanswered
  <2> QED BY <2>1, <2>2, <2>4 DEF CommittedProfile, At, TxOK
<1> QED BY <1>1, RowsAlways, IdsAlwaysTaken, PTL DEF Spec, RenamesRecorded

\* createMessage stores nothing: its trigger writes a column that is not there
\* (migrations 009 and 010).
THEOREM MessagesAreNotStored == Spec => NoMessageStored
<1> DEFINE NoneAdded == getAllMessages' \subseteq getAllMessages
<1>1. ASSUME NEW gone \in SUBSET Message, messages' = Cleared(gone) PROVE NoneAdded
  BY <1>1 DEF Cleared, getAllMessages
<1>2. ASSUME NEW u \in User, messages' = messagesWithout(u) PROVE NoneAdded
  BY <1>2 DEF messagesWithout, getAllMessages
<1>3. [Next]_vars => [NoneAdded]_vars
  <2>1. SUFFICES ASSUME Next, messages' # messages PROVE NoneAdded
    BY DEF getAllMessages
  <2>2. ~ Starting /\ ~ ServerLeaves /\ ~ ProfileSteps
    BY <2>1 DEF Starting, ServerLeaves, ProfileSteps, tables, updateUsers, writeHistory,
                rollback, Inside, commitProfile, commitProfileUnanswered, CommittedProfile
  <2>3. CASE UserCalls
    BY <1>2, <2>1, <2>3 DEF UserCalls, createUser, updateUserProfile, deleteUser,
                            createUserStats, deleteUserStats, tables
  <2>4. CASE ChatCalls
    <3>1. PICK c \in Chat : deleteChat(c)
      BY <2>1, <2>4 DEF ChatCalls, createChat, createChatMember, deleteChatMember,
                        create_or_get_private_chat
    <3>2. messages' = Cleared(MessagesOf(c, Null)) /\ MessagesOf(c, Null) \in SUBSET Message
      BY <3>1 DEF deleteChat, MessagesOf, getAllMessages
    <3> QED BY <1>1, <3>2
  <2>5. CASE MessageCalls
    <3>1. ASSUME NEW k \in Content, deleteContent(k) PROVE NoneAdded
      <4>1. messages' = Cleared(MessagesOf(Null, k)) /\ MessagesOf(Null, k) \in SUBSET Message
        BY <3>1 DEF deleteContent, MessagesOf, getAllMessages
      <4> QED BY <1>1, <4>1
    <3>2. ASSUME NEW m \in Message, deleteMessage(m) PROVE NoneAdded
      BY <1>1, <3>2 DEF deleteMessage
    <3> QED
      BY <2>1, <2>5, <3>1, <3>2, InsertFails DEF MessageCalls, createContent, createMessage
  <2> QED BY <2>1, <2>2, <2>3, <2>4, <2>5 DEF Next
<1> QED BY <1>3, PTL DEF Spec, NoMessageStored

-----------------------------------------------------------------------------
(* user_stats counts the memberships and the messages of each user. *)

OfUser(ms, u) == {m \in ms : m[2] = u}

From(ts, u) == {m \in ts : messages[m].fromId = u}

\* The chats of a user are as many as the user's memberships.
JoinedCounted == \A u \in User :
    /\ Joined(u) = Cardinality(OfUser(members, u))
    /\ Joined(u) \in Nat

\* The join with chats finds each membership's chat, once.
LEMMA JoinedIsCounted == RowsInv => JoinedCounted
<1> SUFFICES ASSUME RowsInv, NEW u \in User
             PROVE  Joined(u) = Cardinality(OfUser(members, u)) /\ Joined(u) \in Nat
  BY DEF JoinedCounted
<1> DEFINE f == [c \in getChatsByUserId(u) |-> <<c, u>>]
<1>1. /\ members \subseteq Chat \X User
      /\ \A m \in members : chats[m[1]] # NoRow
  BY DEF RowsInv, TablesInv, TablesTyped, RefsHold, Refs
<1>2. \A c \in getChatsByUserId(u) : f[c] = <<c, u>> /\ f[c] \in OfUser(members, u)
  BY DEF OfUser, getChatsByUserId
<1>3. \A m \in OfUser(members, u) : \E c \in getChatsByUserId(u) : m = f[c]
  <2>1. SUFFICES ASSUME NEW m \in members, m[2] = u
                 PROVE  \E c \in getChatsByUserId(u) : m = f[c]
    BY DEF OfUser
  <2>2. m = <<m[1], u>> /\ m[1] \in Chat /\ chats[m[1]] # NoRow
    BY <1>1, <2>1
  <2>3. m[1] \in getChatsByUserId(u)
    BY <2>1, <2>2 DEF getChatsByUserId
  <2> QED BY <2>2, <2>3
<1>6. f \in Bijection(getChatsByUserId(u), OfUser(members, u))
  <2>1. f \in [getChatsByUserId(u) -> OfUser(members, u)]
    BY <1>2
  <2>2. \A c, d \in getChatsByUserId(u) : f[c] = f[d] => c = d
    BY <1>2
  <2>3. \A m \in OfUser(members, u) : \E c \in getChatsByUserId(u) : f[c] = m
    BY <1>3
  <2> HIDE DEF f
  <2>4. f \in Injection(getChatsByUserId(u), OfUser(members, u))
    BY <2>1, <2>2, Fun_IsInj
  <2>5. f \in Surjection(getChatsByUserId(u), OfUser(members, u))
    BY <2>1, <2>3, Fun_IsSurj
  <2> QED BY <2>4, <2>5 DEF Bijection
<1>4. IsFiniteSet(getChatsByUserId(u))
  BY FiniteAssumption, FS_Subset DEF getChatsByUserId
<1>5. ExistsBijection(getChatsByUserId(u), OfUser(members, u))
  BY <1>6 DEF ExistsBijection
<1> QED
  BY <1>4, <1>5, FS_Bijection, FS_CardinalityType DEF Joined

\* The memberships of a user can be counted.
LEMMA MembersFinite ==
    ASSUME NEW ms \in SUBSET (Chat \X User), NEW u \in User
    PROVE  IsFiniteSet(OfUser(ms, u)) /\ Cardinality(OfUser(ms, u)) \in Nat
<1>1. IsFiniteSet(Chat \X User)
  BY FiniteAssumption, FS_Product
<1>2. IsFiniteSet(ms)
  BY <1>1, FS_Subset
<1> QED BY <1>2, FS_Subset, FS_CardinalityType DEF OfUser

\* Members who leave no longer count.
LEMMA MembersLess ==
    ASSUME NEW ms \in SUBSET (Chat \X User), NEW u \in User, NEW gone \in SUBSET ms
    PROVE  Cardinality(OfUser(ms \ gone, u))
           = Cardinality(OfUser(ms, u)) - Cardinality(OfUser(gone, u))
<1>1. OfUser(ms \ gone, u) = OfUser(ms, u) \ OfUser(gone, u)
  BY DEF OfUser
<1>2. OfUser(ms, u) \cap OfUser(gone, u) = OfUser(gone, u)
  BY DEF OfUser
<1>3. IsFiniteSet(OfUser(ms, u)) /\ Cardinality(OfUser(ms, u)) \in Nat
  BY MembersFinite
<1>4. PICK all, less : all = OfUser(ms, u) /\ less = OfUser(gone, u)
  OBVIOUS
<1>5. IsFiniteSet(all) /\ all \cap less = less
  BY <1>2, <1>3, <1>4
<1>6. IsFiniteSet(all \ less) /\ Cardinality(all \ less) = Cardinality(all) - Cardinality(all \cap less)
  BY <1>5, FS_Difference
<1> QED BY <1>1, <1>4, <1>5, <1>6

\* A member who joins counts once, for the user who joins.
LEMMA MembersMore ==
    ASSUME NEW ms \in SUBSET (Chat \X User), NEW u \in User,
           NEW c \in Chat, NEW v \in User, <<c, v>> \notin ms
    PROVE  Cardinality(OfUser(ms \cup {<<c, v>>}, u))
           = Cardinality(OfUser(ms, u)) + IF v = u THEN 1 ELSE 0
<1>1. CASE v = u
  <2>1. OfUser(ms \cup {<<c, v>>}, u) = OfUser(ms, u) \cup {<<c, v>>}
    BY <1>1 DEF OfUser
  <2>2. <<c, v>> \notin OfUser(ms, u)
    BY DEF OfUser
  <2> QED BY <1>1, <2>1, <2>2, MembersFinite, FS_AddElement
<1>2. CASE v # u
  <2>1. OfUser(ms \cup {<<c, v>>}, u) = OfUser(ms, u)
    BY <1>2 DEF OfUser
  <2> QED BY <1>2, <2>1, MembersFinite
<1> QED BY <1>1, <1>2

\* SentBy is a number.
LEMMA SentByType == \A u \in User : SentBy(u) \in Nat
<1> SUFFICES ASSUME NEW u \in User PROVE SentBy(u) \in Nat
  OBVIOUS
<1>1. {m \in getAllMessages : messages[m].fromId = u} \in SUBSET Message
  BY DEF getAllMessages
<1> QED BY <1>1, Countable DEF SentBy

\* Deleted messages no longer count for their senders.
LEMMA SentCounted ==
    ASSUME NEW gone \in SUBSET getAllMessages, NEW u \in User, messages' = Cleared(gone)
    PROVE  SentBy(u)' = SentBy(u) - Cardinality(From(gone, u))
<1> DEFINE sent == {m \in getAllMessages : messages[m].fromId = u}
<1>1. (getAllMessages)' = getAllMessages \ gone
  BY DEF getAllMessages, Cleared
<1>2. \A m \in getAllMessages \ gone : messages'[m] = messages[m]
  BY DEF getAllMessages, Cleared
<1>3. {m \in getAllMessages : messages[m].fromId = u}' = sent \ From(gone, u)
  BY <1>1, <1>2 DEF From
<1>4. sent \cap From(gone, u) = From(gone, u)
  BY DEF From
<1>5. IsFiniteSet(sent)
  BY FiniteAssumption, FS_Subset DEF getAllMessages
<1> QED BY <1>3, <1>4, <1>5, FS_Difference DEF SentBy

\* JoinedIsCounted after a step, and its types.
LEMMA JoinedIsCountedNext == RowsInv' => JoinedCounted'
  BY JoinedIsCounted, PTL

\* The number of messages by a user after a step.
SentCountedType == \A u \in User : SentBy(u) \in Nat

\* It is a number too.
LEMMA SentByTypeNext == SentCountedType /\ SentCountedType'
<1>1. SentCountedType
  BY SentByType DEF SentCountedType
<1> QED BY <1>1, PTL

-----------------------------------------------------------------------------
(* The counters. *)

JoinedIn(st, u) == StatsOrNew(st, u).chatsJoined
SentIn(st, u) == StatsOrNew(st, u).messagesSent

\* The counters of a table of statistics are numbers.
LEMMA CountersType ==
    ASSUME NEW st \in StatsTable, NEW u \in User
    PROVE  /\ StatsOrNew(st, u) \in StatsRow
           /\ JoinedIn(st, u) \in Int /\ SentIn(st, u) \in Int
<1>1. StatsOrNew(st, u) \in StatsRow
  BY DEF StatsTable, StatsOrNew, NewStats, StatsRow
<1> QED BY <1>1 DEF JoinedIn, SentIn, StatsRow

\* A join adds one to the user's chats, with a row made where there was none.
LEMMA JoinCounts ==
    ASSUME NEW st \in StatsTable, NEW v \in User, NEW u \in User
    PROVE  LET to == stats_chat_join(st, v) IN
           /\ JoinedIn(to, u) = JoinedIn(st, u) + IF v = u THEN 1 ELSE 0
           /\ SentIn(to, u) = SentIn(st, u)
<1> DEFINE row == [StatsOrNew(st, v) EXCEPT !.chatsJoined = @ + 1]
           to == stats_chat_join(st, v)
<1>1. StatsOrNew(st, v) \in StatsRow /\ StatsOrNew(st, u) \in StatsRow
  BY CountersType
<1>2. /\ row \in StatsRow /\ row # NoRow
      /\ row.chatsJoined = StatsOrNew(st, v).chatsJoined + 1
      /\ row.messagesSent = StatsOrNew(st, v).messagesSent
  BY <1>1, RowAssumption DEF StatsRow
<1>3. to[v] = row /\ (v # u => to[u] = st[u])
  BY DEF stats_chat_join, StatsTable
<1>4. StatsOrNew(to, v) = row /\ (v # u => StatsOrNew(to, u) = StatsOrNew(st, u))
  BY <1>2, <1>3 DEF StatsOrNew
<1>5. CASE v = u
  BY <1>2, <1>4, <1>5 DEF JoinedIn, SentIn
<1>6. CASE v # u
  BY <1>4, <1>6, CountersType DEF JoinedIn, SentIn
<1> QED BY <1>5, <1>6

\* Deleted memberships are taken off, where there is a row.
LEMMA LeaveCounts ==
    ASSUME NEW st \in StatsTable, NEW gone \in SUBSET (Chat \X User), NEW u \in User,
           stats_chat_leave(st, gone)[u] # NoRow
    PROVE  LET to == stats_chat_leave(st, gone) IN
           /\ st[u] # NoRow
           /\ JoinedIn(to, u) = JoinedIn(st, u) - Cardinality(OfUser(gone, u))
           /\ SentIn(to, u) = SentIn(st, u)
<1> DEFINE n == Cardinality({m \in gone : m[2] = u})
           to == stats_chat_leave(st, gone)
<1>1. st[u] # NoRow /\ to[u] = [st[u] EXCEPT !.chatsJoined = @ - n]
  BY DEF stats_chat_leave
<1>2. st[u] \in StatsRow
  BY <1>1 DEF StatsTable
<1>3. to[u].chatsJoined = st[u].chatsJoined - n /\ to[u].messagesSent = st[u].messagesSent
  BY <1>1, <1>2 DEF StatsRow
<1> QED BY <1>1, <1>3 DEF JoinedIn, SentIn, StatsOrNew, OfUser

\* Deleted messages are taken off their sender, where there is a row.
LEMMA DeleteCounts ==
    ASSUME NEW st \in StatsTable, NEW gone \in SUBSET Message, NEW u \in User,
           stats_message_delete(st, gone)[u] # NoRow
    PROVE  LET to == stats_message_delete(st, gone) IN
           /\ st[u] # NoRow
           /\ JoinedIn(to, u) = JoinedIn(st, u)
           /\ SentIn(to, u) = SentIn(st, u) - Cardinality(From(gone, u))
<1> DEFINE n == Cardinality({m \in gone : messages[m].fromId = u})
           to == stats_message_delete(st, gone)
<1>1. st[u] # NoRow /\ to[u] = [st[u] EXCEPT !.messagesSent = @ - n]
  BY DEF stats_message_delete
<1>2. st[u] \in StatsRow
  BY <1>1 DEF StatsTable
<1>3. to[u].chatsJoined = st[u].chatsJoined /\ to[u].messagesSent = st[u].messagesSent - n
  BY <1>1, <1>2 DEF StatsRow
<1> QED BY <1>1, <1>3 DEF JoinedIn, SentIn, StatsOrNew, From

\* The history of names leaves the counters alone.
LEMMA HistoryCounts ==
    ASSUME NEW st \in StatsTable, NEW v \in User, NEW u \in User, NEW name \in Name,
           NEW to \in {track_old_username(st, v, name), WithHistory(st, v, name)}
    PROVE  JoinedIn(to, u) = JoinedIn(st, u) /\ SentIn(to, u) = SentIn(st, u)
<1> DEFINE row == [StatsOrNew(st, v) EXCEPT !.exUsernames = @ \cup {name}]
<1>1. StatsOrNew(st, v) \in StatsRow
  BY CountersType
<1>2. /\ row # NoRow /\ row \in StatsRow
      /\ row.chatsJoined = StatsOrNew(st, v).chatsJoined
      /\ row.messagesSent = StatsOrNew(st, v).messagesSent
  BY <1>1, RowAssumption DEF StatsRow
<1>3. to = st \/ to = [st EXCEPT ![v] = row]
  BY DEF track_old_username, WithHistory, StatsOrNew
<1>4. CASE to = [st EXCEPT ![v] = row] /\ v = u
  <2>1. to[u] = row
    BY <1>4 DEF StatsTable
  <2> QED BY <1>2, <1>4, <2>1 DEF JoinedIn, SentIn, StatsOrNew
<1>5. CASE to[u] = st[u]
  BY <1>5 DEF JoinedIn, SentIn, StatsOrNew
<1> QED BY <1>3, <1>4, <1>5 DEF StatsTable

-----------------------------------------------------------------------------
(* Each method changes the counters as it changes what they count. *)

Follows == \A u \in User : stats'[u] # NoRow =>
    /\ JoinedIn(stats', u) - JoinedIn(stats, u) = Joined(u)' - Joined(u)
    /\ users[u] = NoRow \/ users'[u] # NoRow =>
           SentIn(stats', u) - SentIn(stats, u) = SentBy(u)' - SentBy(u)

\* The transaction has not changed the counters.
TxCounts == tx # NoTx => \A u \in User :
    JoinedIn(tx.stats, u) = JoinedIn(stats, u) /\ SentIn(tx.stats, u) = SentIn(stats, u)

\* The messages are counted alike while they stay.
LEMMA SentStays ==
    messages' = messages => \A u \in User : SentBy(u)' = SentBy(u)
  BY DEF SentBy, getAllMessages

\* What the steps below start from.
LEMMA StatsFacts ==
    ASSUME RowsInv, RowsInv'
    PROVE  /\ stats \in StatsTable /\ stats' \in StatsTable
           /\ members \in SUBSET (Chat \X User) /\ members' \in SUBSET (Chat \X User)
           /\ JoinedCounted /\ JoinedCounted' /\ SentCountedType /\ SentCountedType'
           /\ \A u \in User : /\ JoinedIn(stats, u) \in Int /\ JoinedIn(stats', u) \in Int
                              /\ SentIn(stats, u) \in Int /\ SentIn(stats', u) \in Int
<1>1. stats \in StatsTable /\ stats' \in StatsTable
  BY DEF RowsInv, TablesInv, TablesTyped, StatsTable
<1>2. members \in SUBSET (Chat \X User) /\ members' \in SUBSET (Chat \X User)
  BY DEF RowsInv, TablesInv, TablesTyped
<1>3. JoinedCounted /\ JoinedCounted' /\ SentCountedType /\ SentCountedType'
  BY JoinedIsCounted, JoinedIsCountedNext, SentByTypeNext
<1> QED BY <1>1, <1>2, <1>3, CountersType

\* A step that neither counts nor changes what is counted.
LEMMA QuietFollows ==
    ASSUME RowsInv, RowsInv', members' = members, messages' = messages,
           \A u \in User : stats'[u] # NoRow =>
               JoinedIn(stats', u) = JoinedIn(stats, u) /\ SentIn(stats', u) = SentIn(stats, u)
    PROVE  Follows
<1> SUFFICES ASSUME NEW u \in User, stats'[u] # NoRow
             PROVE  /\ JoinedIn(stats', u) - JoinedIn(stats, u) = Joined(u)' - Joined(u)
                    /\ SentIn(stats', u) - SentIn(stats, u) = SentBy(u)' - SentBy(u)
  BY DEF Follows
<1>1. Joined(u)' = Joined(u) /\ Joined(u) \in Nat
  BY StatsFacts DEF JoinedCounted
<1>2. SentBy(u)' = SentBy(u) /\ SentBy(u) \in Nat
  BY StatsFacts, SentStays DEF SentCountedType
<1> QED BY <1>1, <1>2, StatsFacts

\* The cascades of deleteUser.
LEMMA DeleteUserFollows ==
    ASSUME RowsInv, RowsInv', NEW v \in User, deleteUser(v) PROVE Follows
<1> DEFINE gone == {m \in members : m[2] = v}
<1>1. /\ members' = members \ gone /\ stats' = stats_chat_leave(stats, gone)
      /\ messages' = messagesWithout(v) /\ users' = [users EXCEPT ![v] = NoRow]
      /\ users[v] # NoRow
  BY DEF deleteUser, LeaveChats, getAllUsers
<1>2. gone \in SUBSET members /\ gone \in SUBSET (Chat \X User)
  BY StatsFacts
<1> HIDE DEF gone
<1>3. ASSUME NEW u \in User, stats'[u] # NoRow
      PROVE  JoinedIn(stats', u) - JoinedIn(stats, u) = Joined(u)' - Joined(u)
  <2>1. JoinedIn(stats', u) = JoinedIn(stats, u) - Cardinality(OfUser(gone, u))
    BY <1>1, <1>2, <1>3, LeaveCounts, StatsFacts
  <2>2. Joined(u)' = Joined(u) - Cardinality(OfUser(gone, u))
    BY <1>1, <1>2, MembersLess, StatsFacts DEF JoinedCounted
  <2>3. Cardinality(OfUser(gone, u)) \in Int
    BY <1>2, Countable DEF OfUser
  <2>4. Joined(u) \in Int
    BY StatsFacts DEF JoinedCounted
  <2> QED BY <2>1, <2>2, <2>3, <2>4, StatsFacts
<1>4. ASSUME NEW u \in User, stats'[u] # NoRow, users[u] = NoRow \/ users'[u] # NoRow
      PROVE  SentIn(stats', u) - SentIn(stats, u) = SentBy(u)' - SentBy(u)
  <2>1. SentIn(stats', u) = SentIn(stats, u)
    BY <1>1, <1>2, <1>4, LeaveCounts, StatsFacts
  <2>2. u # v
    BY <1>1, <1>4 DEF RowsInv, TablesInv, TablesTyped
  <2>3. ASSUME NEW m \in Message, messages[m] # NoRow
        PROVE  messages'[m] # NoRow /\ (messages'[m].fromId = u <=> messages[m].fromId = u)
    <3>1. /\ messages'[m] = [messages[m] EXCEPT !.fromId = Forget(@, v), !.toId = Forget(@, v)]
          /\ messages[m] \in MessageRow
      BY <1>1, <2>3 DEF messagesWithout, RowsInv, TablesInv, TablesTyped
    <3>2. /\ messages'[m] \in MessageRow
          /\ messages'[m].fromId = Forget(messages[m].fromId, v)
      BY <3>1 DEF MessageRow, Forget
    <3> QED BY <2>2, <3>2, RowAssumption, NullAssumption DEF Forget
  <2>4. \A m \in Message : messages[m] = NoRow => messages'[m] = NoRow
    BY <1>1 DEF messagesWithout
  <2>5. {m \in getAllMessages : messages[m].fromId = u}'
        = {m \in getAllMessages : messages[m].fromId = u}
    BY <2>3, <2>4 DEF getAllMessages
  <2>6. SentBy(u)' = SentBy(u)
    BY <2>5 DEF SentBy
  <2>7. SentBy(u) \in Int
    BY StatsFacts DEF SentCountedType
  <2> QED BY <2>1, <2>6, <2>7, StatsFacts
<1> QED BY <1>3, <1>4 DEF Follows

\* Messages that are deleted with a content or by themselves.
LEMMA DeleteMessagesFollow ==
    ASSUME RowsInv, RowsInv', members' = members,
           NEW gone \in SUBSET getAllMessages,
           messages' = Cleared(gone), stats' = stats_message_delete(stats, gone)
    PROVE  Follows
<1> SUFFICES ASSUME NEW u \in User, stats'[u] # NoRow
             PROVE  /\ JoinedIn(stats', u) - JoinedIn(stats, u) = Joined(u)' - Joined(u)
                    /\ SentIn(stats', u) - SentIn(stats, u) = SentBy(u)' - SentBy(u)
  BY DEF Follows
<1>1. gone \in SUBSET Message
  BY DEF getAllMessages
<1>2. /\ JoinedIn(stats', u) = JoinedIn(stats, u)
      /\ SentIn(stats', u) = SentIn(stats, u) - Cardinality(From(gone, u))
  BY <1>1, DeleteCounts, StatsFacts
<1>3. SentBy(u)' = SentBy(u) - Cardinality(From(gone, u)) /\ SentBy(u) \in Int
  BY SentCounted, StatsFacts DEF SentCountedType
<1>4. Joined(u)' = Joined(u) /\ Joined(u) \in Int
  BY StatsFacts DEF JoinedCounted
<1>5. Cardinality(From(gone, u)) \in Int
  BY <1>1, Countable DEF From
<1> QED BY <1>2, <1>3, <1>4, <1>5, StatsFacts

\* Members and messages that go with their chat, and a member who leaves.
LEMMA DeleteChatFollows ==
    ASSUME RowsInv, RowsInv', NEW c \in Chat, deleteChat(c) PROVE Follows
<1> DEFINE gone == MessagesOf(c, Null)
           left == {m \in members : m[1] = c}
           st == stats_chat_leave(stats, left)
<1> SUFFICES ASSUME NEW u \in User, stats'[u] # NoRow
             PROVE  /\ JoinedIn(stats', u) - JoinedIn(stats, u) = Joined(u)' - Joined(u)
                    /\ SentIn(stats', u) - SentIn(stats, u) = SentBy(u)' - SentBy(u)
  BY DEF Follows
<1>1. /\ gone \in SUBSET getAllMessages /\ gone \in SUBSET Message
      /\ left \in SUBSET members /\ left \in SUBSET (Chat \X User)
  BY StatsFacts DEF MessagesOf, getAllMessages
<1>2. members' = members \ left /\ messages' = Cleared(gone) /\ stats' = stats_message_delete(st, gone)
  BY DEF deleteChat
<1> HIDE DEF gone, left, st
<1>3. st \in StatsTable
  BY <1>1, LeavesCounted, StatsFacts DEF st
<1>4. /\ st[u] # NoRow /\ JoinedIn(stats', u) = JoinedIn(st, u)
      /\ SentIn(stats', u) = SentIn(st, u) - Cardinality(From(gone, u))
  BY <1>1, <1>2, <1>3, DeleteCounts
<1>5. /\ JoinedIn(st, u) = JoinedIn(stats, u) - Cardinality(OfUser(left, u))
      /\ SentIn(st, u) = SentIn(stats, u)
  BY <1>1, <1>4, LeaveCounts, StatsFacts DEF st
<1>6. /\ Joined(u)' = Joined(u) - Cardinality(OfUser(left, u)) /\ Joined(u) \in Int
  BY <1>1, <1>2, MembersLess, StatsFacts DEF JoinedCounted
<1>7. SentBy(u)' = SentBy(u) - Cardinality(From(gone, u)) /\ SentBy(u) \in Int
  BY <1>1, <1>2, SentCounted, StatsFacts DEF SentCountedType
<1>8. Cardinality(OfUser(left, u)) \in Int /\ Cardinality(From(gone, u)) \in Int
  BY <1>1, Countable DEF OfUser, From
<1> QED BY <1>4, <1>5, <1>6, <1>7, <1>8, StatsFacts

\* One member joins or leaves.
LEMMA MemberFollows ==
    ASSUME RowsInv, RowsInv', NEW c \in Chat, NEW v \in User,
           createChatMember(c, v) \/ deleteChatMember(c, v)
    PROVE  Follows
<1> SUFFICES ASSUME NEW u \in User, stats'[u] # NoRow
             PROVE  /\ JoinedIn(stats', u) - JoinedIn(stats, u) = Joined(u)' - Joined(u)
                    /\ SentIn(stats', u) - SentIn(stats, u) = SentBy(u)' - SentBy(u)
  BY DEF Follows
<1>1. SentBy(u)' = SentBy(u) /\ SentBy(u) \in Int
  BY SentStays, StatsFacts DEF SentCountedType, createChatMember, deleteChatMember
<1>2. Joined(u) \in Int
  BY StatsFacts DEF JoinedCounted
<1>3. CASE createChatMember(c, v)
  <2>1. /\ members' = members \cup {<<c, v>>} /\ <<c, v>> \notin members
        /\ stats' = stats_chat_join(stats, v)
    BY <1>3 DEF createChatMember, getChatMember
  <2>2. Joined(u)' = Joined(u) + IF v = u THEN 1 ELSE 0
    BY <2>1, MembersMore, StatsFacts DEF JoinedCounted
  <2>3. /\ JoinedIn(stats', u) = JoinedIn(stats, u) + IF v = u THEN 1 ELSE 0
        /\ SentIn(stats', u) = SentIn(stats, u)
    BY <2>1, JoinCounts, StatsFacts
  <2> QED BY <1>1, <1>2, <2>2, <2>3, StatsFacts
<1>4. CASE deleteChatMember(c, v)
  <2>1. /\ members' = members \ {<<c, v>>} /\ <<c, v>> \in members
        /\ stats' = stats_chat_leave(stats, {<<c, v>>})
    BY <1>4 DEF deleteChatMember, LeaveChats, getChatMember
  <2>2. Joined(u)' = Joined(u) - Cardinality(OfUser({<<c, v>>}, u))
    BY <2>1, MembersLess, StatsFacts DEF JoinedCounted
  <2>3. /\ JoinedIn(stats', u) = JoinedIn(stats, u) - Cardinality(OfUser({<<c, v>>}, u))
        /\ SentIn(stats', u) = SentIn(stats, u)
    BY <2>1, LeaveCounts, StatsFacts
  <2>4. Cardinality(OfUser({<<c, v>>}, u)) \in Int
    BY Countable DEF OfUser
  <2> QED BY <1>1, <1>2, <2>2, <2>3, <2>4, StatsFacts
<1> QED BY <1>3, <1>4

\* Both members of a private chat join it; its id was not used before.
LEMMA PrivateChatFollows ==
    ASSUME RowsInv, RowsInv', IdsTaken, NEW a \in User, NEW b \in User, NEW c \in Chat,
           create_or_get_private_chat(a, b, c)
    PROVE  Follows
<1> SUFFICES ASSUME NEW u \in User, stats'[u] # NoRow
             PROVE  /\ JoinedIn(stats', u) - JoinedIn(stats, u) = Joined(u)' - Joined(u)
                    /\ SentIn(stats', u) - SentIn(stats, u) = SentBy(u)' - SentBy(u)
  BY DEF Follows
<1> DEFINE st == stats_chat_join(stats, a)
           ms == members \cup {<<c, a>>}
<1>1. SentBy(u)' = SentBy(u) /\ SentBy(u) \in Int
  BY SentStays, StatsFacts DEF SentCountedType, create_or_get_private_chat
<1>2. /\ members' = ms \cup {<<c, b>>} /\ stats' = stats_chat_join(st, b)
      /\ chats[c] = NoRow /\ a # b /\ users[a] \in Name
  BY DEF create_or_get_private_chat, Fresh, IdsTaken, getAllUsers, RowsInv, TablesInv, TablesTyped
<1>3. <<c, a>> \notin members /\ <<c, b>> \notin ms /\ ms \in SUBSET (Chat \X User)
  BY <1>2 DEF RowsInv, TablesInv, TablesTyped, RefsHold, Refs
<1>4. st \in StatsTable
  BY <1>2, RowChanges, StatsFacts
<1> HIDE DEF st, ms
<1>5. Cardinality(OfUser(ms, u)) = Joined(u) + IF a = u THEN 1 ELSE 0
  <2>1. Cardinality(OfUser(members \cup {<<c, a>>}, u))
        = Cardinality(OfUser(members, u)) + IF a = u THEN 1 ELSE 0
    BY <1>3, StatsFacts, MembersMore
  <2> QED BY <2>1, StatsFacts DEF JoinedCounted, ms
<1>6. Joined(u)' = Cardinality(OfUser(ms, u)) + IF b = u THEN 1 ELSE 0
  <2>1. Cardinality(OfUser(ms \cup {<<c, b>>}, u))
        = Cardinality(OfUser(ms, u)) + IF b = u THEN 1 ELSE 0
    BY <1>3, MembersMore
  <2>2. Joined(u)' = Cardinality(OfUser(members', u))
    BY StatsFacts DEF JoinedCounted
  <2> QED BY <1>2, <2>1, <2>2
<1>7. /\ JoinedIn(st, u) = JoinedIn(stats, u) + IF a = u THEN 1 ELSE 0
      /\ SentIn(st, u) = SentIn(stats, u)
  BY JoinCounts, StatsFacts DEF st
<1>8. /\ JoinedIn(stats', u) = JoinedIn(st, u) + IF b = u THEN 1 ELSE 0
      /\ SentIn(stats', u) = SentIn(st, u)
  BY <1>2, <1>4, JoinCounts
<1>9. Joined(u) \in Int
  BY StatsFacts DEF JoinedCounted
<1> QED BY <1>1, <1>5, <1>6, <1>7, <1>8, <1>9, StatsFacts

\* Every step changes the counters as it changes what they count.
LEMMA StepFollows ==
    ASSUME RowsInv, RowsInv', IdsTaken, TxCounts, Next PROVE Follows
<1>1. CASE UNCHANGED tables
  BY <1>1, QuietFollows DEF tables
<1>2. CASE UserCalls
  <2>1. ASSUME NEW u \in User, NEW name \in Name, createUser(u, name) PROVE Follows
    BY <2>1, QuietFollows DEF createUser
  <2>2. ASSUME NEW u \in User, deleteUser(u) PROVE Follows
    BY <2>2, DeleteUserFollows
  <2>3. ASSUME NEW u \in User, createUserStats(u, NewStats) PROVE Follows
    <3>1. /\ stats' = [stats EXCEPT ![u] = NewStats] /\ stats[u] = NoRow
          /\ members' = members /\ messages' = messages
      BY <2>3 DEF createUserStats, getAllUserStats
    <3>2. \A v \in User : StatsOrNew(stats', v) = StatsOrNew(stats, v)
      BY <3>1, StatsFacts DEF StatsOrNew, StatsTable
    <3> QED BY <3>1, <3>2, QuietFollows DEF JoinedIn, SentIn
  <2>4. ASSUME NEW u \in User, deleteUserStats(u) PROVE Follows
    <3>1. /\ stats' = [stats EXCEPT ![u] = NoRow]
          /\ members' = members /\ messages' = messages
      BY <2>4 DEF deleteUserStats
    <3>2. \A v \in User : stats'[v] # NoRow => StatsOrNew(stats', v) = StatsOrNew(stats, v)
      BY <3>1, StatsFacts DEF StatsOrNew, StatsTable
    <3> QED BY <3>1, <3>2, QuietFollows DEF JoinedIn, SentIn
  <2> QED BY <1>1, <1>2, <2>1, <2>2, <2>3, <2>4 DEF UserCalls, updateUserProfile
<1>3. CASE ChatCalls
  <2>1. ASSUME NEW c \in Chat, NEW row \in ChatRow, createChat(c, row) PROVE Follows
    BY <2>1, QuietFollows DEF createChat
  <2>2. ASSUME NEW c \in Chat, deleteChat(c) PROVE Follows
    BY <2>2, DeleteChatFollows
  <2>3. ASSUME NEW c \in Chat, NEW u \in User,
               createChatMember(c, u) \/ deleteChatMember(c, u)
        PROVE  Follows
    BY <2>3, MemberFollows
  <2>4. ASSUME NEW c \in Chat, NEW u \in User, NEW v \in User,
               create_or_get_private_chat(u, v, c)
        PROVE  Follows
    BY <2>4, PrivateChatFollows
  <2> QED BY <1>3, <2>1, <2>2, <2>3, <2>4 DEF ChatCalls
<1>4. CASE MessageCalls
  <2>1. ASSUME NEW k \in Content, createContent(k) PROVE Follows
    BY <2>1, QuietFollows DEF createContent
  <2>2. ASSUME NEW k \in Content, deleteContent(k) PROVE Follows
    BY <2>2, DeleteMessagesFollow DEF deleteContent, MessagesOf
  <2>3. ASSUME NEW m \in Message, NEW row \in MessageRow, createMessage(m, row) PROVE Follows
    BY <2>3, InsertFails, QuietFollows DEF createMessage
  <2>4. ASSUME NEW m \in Message, deleteMessage(m) PROVE Follows
    BY <2>4, DeleteMessagesFollow DEF deleteMessage
  <2> QED BY <1>4, <2>1, <2>2, <2>3, <2>4 DEF MessageCalls
<1>5. CASE CommittedProfile
  <2>1. stats' = tx.stats /\ members' = members /\ messages' = messages /\ tx # NoTx
    BY <1>5 DEF CommittedProfile, At
  <2> QED BY <2>1, QuietFollows DEF TxCounts
<1> QED
  BY <1>1, <1>2, <1>3, <1>4, <1>5
     DEF Next, Starting, ServerLeaves, ProfileSteps, updateUsers, writeHistory, rollback,
         Inside, commitProfile, commitProfileUnanswered

\* The transaction gains names only.
LEMMA TxCountsStep ==
    ASSUME RowsInv, RowsInv', TxCounts, [Next]_vars PROVE TxCounts'
<1>1. CASE tx' = NoTx \/ (tx' = tx /\ stats' = stats)
  BY <1>1 DEF TxCounts
<1>2. CASE Calls
  BY <1>1, <1>2 DEF Calls, Ready
<1>3. ASSUME NEW u \in User, NEW name \in Name, updateUserProfile(u, name) PROVE TxCounts'
  BY <1>3 DEF updateUserProfile, tables, TxCounts
<1>4. ASSUME updateUsers \/ writeHistory PROVE TxCounts'
  <2>1. /\ tx # NoTx /\ tx \in Tx /\ stats' = stats
    BY <1>4 DEF updateUsers, writeHistory, At, Inside, tables, RowsInv, TxTyped
  <2>2. /\ tx.stats \in StatsTable /\ tx.user \in User /\ tx.old \in Name
    BY <2>1 DEF Tx, StatsTable
  <2>3. tx'.stats \in {track_old_username(tx.stats, tx.user, tx.old),
                       WithHistory(tx.stats, tx.user, tx.old)}
    BY <1>4, <2>1 DEF updateUsers, writeHistory, Tx
  <2>4. \A u \in User : /\ JoinedIn(tx'.stats, u) = JoinedIn(tx.stats, u)
                        /\ SentIn(tx'.stats, u) = SentIn(tx.stats, u)
    BY <2>2, <2>3, HistoryCounts
  <2> QED BY <2>1, <2>4 DEF TxCounts
<1>5. CASE UserCalls
  BY <1>2, <1>3, <1>5 DEF UserCalls, createUser, deleteUser, createUserStats, deleteUserStats
<1>6. CASE ChatCalls
  BY <1>2, <1>6 DEF ChatCalls, createChat, deleteChat, createChatMember, deleteChatMember,
                    create_or_get_private_chat
<1>7. CASE MessageCalls
  BY <1>2, <1>7 DEF MessageCalls, createContent, deleteContent, createMessage, deleteMessage
<1>8. CASE ProfileSteps
  BY <1>1, <1>4, <1>8 DEF ProfileSteps, rollback, commitProfile, commitProfileUnanswered,
                          CommittedProfile
<1> QED BY <1>1, <1>5, <1>6, <1>7, <1>8 DEF Next, vars, tables, Starting, ServerLeaves

\* TxCounts holds of every reachable state.
LEMMA TxCountsAlways == Spec => []TxCounts
<1>1. Init => TxCounts
  BY DEF Init, TxCounts
<1>2. RowsInv /\ RowsInv' /\ TxCounts /\ [Next]_vars => TxCounts'
  BY TxCountsStep
<1> QED BY <1>1, <1>2, RowsAlways, PTL DEF Spec

-----------------------------------------------------------------------------

\* In every step chats_joined changes as the user's chats do and messages_sent as
\* the user's messages, through every method and cascade (migration 010).
THEOREM StatsAlwaysFollow == Spec => StatsFollow
<1> DEFINE InStep == \A u \in getAllUserStats \cap getAllUserStats' :
        /\ stats'[u].chatsJoined - stats[u].chatsJoined = Joined(u)' - Joined(u)
        /\ u \in getAllUsers' =>
               stats'[u].messagesSent - stats[u].messagesSent = SentBy(u)' - SentBy(u)
<1>1. RowsInv /\ RowsInv' /\ IdsTaken /\ TxCounts /\ [Next]_vars => [InStep]_vars
  <2>1. SUFFICES ASSUME RowsInv, RowsInv', IdsTaken, TxCounts, Next, NEW u \in User,
                        stats[u] # NoRow, stats'[u] # NoRow
                 PROVE  /\ stats'[u].chatsJoined - stats[u].chatsJoined = Joined(u)' - Joined(u)
                        /\ users'[u] # NoRow =>
                               stats'[u].messagesSent - stats[u].messagesSent
                               = SentBy(u)' - SentBy(u)
    BY DEF getAllUserStats, getAllUsers
  <2>2. Follows
    BY <2>1, StepFollows
  <2> QED BY <2>1, <2>2 DEF Follows, JoinedIn, SentIn, StatsOrNew
<1> QED BY <1>1, RowsAlways, IdsAlwaysTaken, TxCountsAlways, PTL DEF Spec, StatsFollow

\* What the counters of a row are bounded by; those of a deleted user's messages
\* are not, as the messages have lost their sender and the row stays.
Bounded == \A u \in User : stats[u] # NoRow =>
    /\ JoinedIn(stats, u) <= Joined(u)
    /\ users[u] # NoRow \/ u \notin ids => SentIn(stats, u) <= SentBy(u)

\* Ids are only ever added, and a user who appears has one that is new.
LEMMA NewUsersFresh ==
    ASSUME RowsInv, Next
    PROVE  /\ ids \subseteq ids'
           /\ \A u \in User : users'[u] # NoRow /\ users[u] = NoRow => u \notin ids
<1>1. users \in [User -> Name \cup {NoRow}] /\ tx \in Tx \cup {NoTx} /\ TxOK
  BY DEF RowsInv, TablesInv, TablesTyped, TxTyped
<1>2. CASE ids \subseteq ids' /\ users' = users
  BY <1>2
<1>3. CASE UserCalls
  <2>1. ASSUME NEW v \in User, NEW name \in Name, createUser(v, name)
        PROVE  /\ ids \subseteq ids'
               /\ \A u \in User : users'[u] # NoRow /\ users[u] = NoRow => u \notin ids
    BY <1>1, <2>1 DEF createUser, Fresh
  <2>2. ASSUME NEW v \in User, deleteUser(v)
        PROVE  /\ ids \subseteq ids'
               /\ \A u \in User : users'[u] # NoRow /\ users[u] = NoRow => u \notin ids
    BY <1>1, <2>2 DEF deleteUser
  <2> QED BY <1>2, <1>3, <2>1, <2>2 DEF UserCalls, updateUserProfile, createUserStats,
                                        deleteUserStats, tables
<1>4. CASE ChatCalls \/ MessageCalls
  BY <1>2, <1>4 DEF ChatCalls, createChat, deleteChat, createChatMember, deleteChatMember,
       create_or_get_private_chat, MessageCalls, createContent, deleteContent, createMessage,
       deleteMessage, Fresh
<1>5. CASE CommittedProfile
  <2>1. /\ users' = tx.users /\ ids' = ids /\ tx.user \in User /\ tx # NoTx /\ tx.old \in Name
    BY <1>1, <1>5 DEF CommittedProfile, At, Tx
  <2>2. \A u \in User : users[u] = NoRow => users'[u] = NoRow
    BY <1>1, <2>1, RowAssumption DEF TxOK
  <2> QED BY <2>1, <2>2
<1> QED
  BY <1>2, <1>3, <1>4, <1>5
     DEF Next, Starting, ServerLeaves, tables, ProfileSteps, updateUsers, writeHistory,
         rollback, Inside, commitProfile, commitProfileUnanswered

\* The statistics never claim a chat or a message that is not there, however the
\* rows came and went (migration 010).
THEOREM StatsNeverAhead == Spec => []StatsNotAhead
<1>1. Init => Bounded
  BY DEF Init, Bounded
<1>2. RowsInv /\ RowsInv' /\ IdsTaken /\ TxCounts /\ Bounded /\ [Next]_vars => Bounded'
  <2>1. SUFFICES ASSUME RowsInv, RowsInv', IdsTaken, TxCounts, Bounded, Next PROVE Bounded'
    BY DEF Bounded, vars, tables, JoinedIn, SentIn, Joined, SentBy, StatsOrNew,
           getChatsByUserId, getAllMessages
  <2>2. ids \subseteq ids' /\ \A u \in User : users'[u] # NoRow /\ users[u] = NoRow => u \notin ids
    BY <2>1, NewUsersFresh
  <2>3. SUFFICES ASSUME NEW u \in User, stats'[u] # NoRow
                 PROVE  /\ JoinedIn(stats', u) <= Joined(u)'
                        /\ users'[u] # NoRow \/ u \notin ids' => SentIn(stats', u) <= SentBy(u)'
    BY DEF Bounded, JoinedIn, SentIn, StatsOrNew
  <2>4. Follows
    BY <2>1, StepFollows
  <2>5. /\ Joined(u) \in Nat /\ Joined(u)' \in Nat /\ SentBy(u) \in Nat /\ SentBy(u)' \in Nat
        /\ JoinedIn(stats, u) \in Int /\ JoinedIn(stats', u) \in Int
        /\ SentIn(stats, u) \in Int /\ SentIn(stats', u) \in Int
    BY <2>1, StatsFacts DEF JoinedCounted, SentCountedType
  <2>6. stats[u] = NoRow => JoinedIn(stats, u) = 0 /\ SentIn(stats, u) = 0
    BY DEF JoinedIn, SentIn, StatsOrNew, NewStats
  <2>7. JoinedIn(stats', u) <= Joined(u)'
    BY <2>1, <2>3, <2>4, <2>5, <2>6 DEF Follows, Bounded
  <2>8. ASSUME users'[u] # NoRow \/ u \notin ids' PROVE SentIn(stats', u) <= SentBy(u)'
    <3>1. users[u] # NoRow \/ u \notin ids
      BY <2>2, <2>8
    <3>2. users[u] = NoRow \/ users'[u] # NoRow
      BY <2>1, <2>2, <2>8 DEF IdsTaken
    <3>3. SentIn(stats, u) <= SentBy(u)
      BY <2>1, <2>5, <2>6, <3>1 DEF Bounded
    <3> QED BY <2>3, <2>4, <2>5, <3>2, <3>3 DEF Follows
  <2> QED BY <2>7, <2>8
<1>3. Bounded => StatsNotAhead
  BY DEF Bounded, StatsNotAhead, getAllUserStats, getAllUsers, JoinedIn, SentIn, StatsOrNew
<1> QED BY <1>1, <1>2, <1>3, RowsAlways, IdsAlwaysTaken, TxCountsAlways, PTL DEF Spec
=============================================================================
