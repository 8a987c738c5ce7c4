----------------------------- MODULE MCDatabase -----------------------------
(* A small instance of Database. *)
EXTENDS Database, TLC

CONSTANTS u1, u2, n1, n2, c1, k1, m1

\* An earlier release left two users in a chat, with a message in it.
MCOld ==
    [ids |-> {u1, u2, c1, k1, m1},
     users |-> (u1 :> n1) @@ (u2 :> n2),
     chats |-> [c \in Chat |-> IF c = c1 THEN [type |-> "direct", createdBy |-> u1] ELSE NoRow],
     members |-> {<<c1, u1>>, <<c1, u2>>},
     contents |-> {k1},
     messages |-> [m \in Message |->
         IF m = m1 THEN [fromId |-> u1, toId |-> u2, contentId |-> k1, chatId |-> c1] ELSE NoRow]]

Symmetry == Permutations(Process)

=============================================================================
