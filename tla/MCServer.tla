------------------------------ MODULE MCServer ------------------------------
(* Small instances of Server for TLC. *)
EXTENDS Server, TLC

Symmetry ==
    Permutations(Session) \cup Permutations(Socket) \cup Permutations(User)
        \cup Permutations(Name)

\* Users and names stand in a fixed order in the runs that start registered.
ConnectionSymmetry == Permutations(Session) \cup Permutations(Socket)

\* The server is restarted on a database that already holds every user, each
\* under a name of its own: what is left to happen is between them.
InitRegistered ==
    /\ listening = FALSE
    /\ peer = [k \in Socket |-> NoSession]
    /\ clients = [s \in Session |-> NoConnection]
    /\ account = CHOOSE f \in [User -> Name] : \A u, v \in User : u # v => f[u] # f[v]
    /\ chats = [c \in Chat |-> NoChatRow]
    /\ sent = Nothing

SpecRegistered == InitRegistered /\ [][Next]_vars
=============================================================================
