--------------------------- MODULE ExclusiveLogin ---------------------------
(***************************************************************************)
(* What the server promises about logins, without connections or packets:  *)
(* a user is held by at most one session.  A session that takes a user     *)
(* lets go of the one it held; a user is never taken over from a session   *)
(* that still holds it.                                                    *)
(***************************************************************************)
CONSTANTS Session, User

VARIABLE holder   \* the sessions that hold each user: none or one

Init == holder = [u \in User |-> {}]

Take(s, u) ==
    /\ holder[u] \subseteq {s}
    /\ holder' = [v \in User |-> IF v = u THEN {s} ELSE holder[v] \ {s}]

\* Logout, disconnect (one session) or the end of the server (all of them).
LetGo(some) == holder' = [v \in User |-> holder[v] \ some]

Next ==
    \/ \E s \in Session, u \in User : Take(s, u)
    \/ \E some \in SUBSET Session : LetGo(some)

Spec == Init /\ [][Next]_holder
=============================================================================
