-------------------------- MODULE MCAccountSession --------------------------
(* Small instances of AccountSession for TLC. *)
EXTENDS AccountSession

\* "sent" only carries what a handler wrote to the queues in the same step.
View == <<server, database, client>>

Symmetry ==
    Permutations(Session) \cup Permutations(Socket) \cup Permutations(User)
        \cup Permutations(Name)
=============================================================================
