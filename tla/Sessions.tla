------------------------------ MODULE Sessions ------------------------------
(***************************************************************************)
(* What the service promises about accounts and login sessions: an account *)
(* is created once and stays; a session is opened for an account, on an id *)
(* that no session is open on, and belongs to that account until it is     *)
(* closed.  AuthService, the handlers of the code running on several       *)
(* threads, is shown to implement it.                                      *)
(***************************************************************************)
CONSTANTS
    Ids,      \* session ids
    Names,    \* usernames
    NoUser    \* no session

VARIABLES
    sessions,   \* sessions[s] is the account session s is open for
    accounts    \* the usernames taken

vars == <<sessions, accounts>>

Init ==
    /\ sessions = [s \in Ids |-> NoUser]
    /\ accounts = {}

Enroll(n) ==
    /\ n \notin accounts
    /\ accounts' = accounts \cup {n}
    /\ UNCHANGED sessions

Open(s, n) ==
    /\ n \in accounts
    /\ sessions[s] = NoUser
    /\ sessions' = [sessions EXCEPT ![s] = n]
    /\ UNCHANGED accounts

Close(s) ==
    /\ sessions[s] # NoUser
    /\ sessions' = [sessions EXCEPT ![s] = NoUser]
    /\ UNCHANGED accounts

Next ==
    \/ \E n \in Names : Enroll(n)
    \/ \E s \in Ids, n \in Names : Open(s, n)
    \/ \E s \in Ids : Close(s)

Spec == Init /\ [][Next]_vars
=============================================================================
