---------------------------- MODULE AuthService ----------------------------
(***************************************************************************)
(* The four use cases of use-cases/auth run by the threads of the server   *)
(* over one Redis store and one users table.  A step is one round trip to  *)
(* Redis or Postgres with the computation up to the next one, so a handler *)
(* on one thread interleaves with the handlers of the others between any   *)
(* two of its calls.  The process may die at any point: a NULL reply of    *)
(* hiredis is dereferenced.  The store and the table outlive it.           *)
(***************************************************************************)
EXTENDS Naturals, FiniteSets

CONSTANTS
    Workers,      \* the threads of the server
    Sids,         \* the session ids that logins draw
    Stray,        \* an id that no login ever draws
    Names,        \* usernames, trimmed
    NoUser,       \* nil: the key does not exist
    FreshDraws,   \* getrandom() never gives the same id twice
    StoreErrors   \* Redis may answer a command with an error

ASSUME IdsAssumption == Stray \notin Sids

ASSUME NamesAssumption == NoUser \notin Names

ASSUME SwitchAssumption == FreshDraws \in BOOLEAN /\ StoreErrors \in BOOLEAN

Ids == Sids \cup {Stray}

VARIABLES
    store,     \* Redis: store[s] is the user in key sess:<s>, or NoUser
    accounts,  \* Postgres: the usernames of table users
    pc,        \* the next call of each worker's handler
    method,    \* the use case
    sid,       \* req.session_id
    name,      \* the username of the body, or of the user read from the store
    status,    \* res.status
    known,     \* the ids that reached a client in a Set-Cookie header
    drawn,     \* history: the ids that a login has drawn
    issued,    \* history: the user for whom an id was last put in a cookie
    revoked    \* history: the ids a logout has deleted

stored == <<store, accounts>>
history == <<drawn, issued, revoked>>
vars == <<stored, pc, method, sid, name, status, known, history>>

Methods == {"user", "login", "logout", "register"}

Labels == {"idle", "is_auth", "find_user", "new_id", "set", "get", "del",
           "log", "insert", "respond"}

Statuses == {0, 200, 201, 204, 400, 401, 403, 500}

Init ==
    /\ store = [s \in Ids |-> NoUser]
    /\ accounts = {}
    /\ pc = [w \in Workers |-> "idle"]
    /\ method = [w \in Workers |-> "user"]
    /\ sid = [w \in Workers |-> Stray]
    /\ name = [w \in Workers |-> NoUser]
    /\ status = [w \in Workers |-> 0]
    /\ known = {}
    /\ drawn = {}
    /\ issued = [s \in Ids |-> NoUser]
    /\ revoked = {}

-----------------------------------------------------------------------------
(* Helpers *)

Goto(w, from, to) ==
    /\ pc[w] = from
    /\ pc' = [pc EXCEPT ![w] = to]

\* The handler sets the status and returns.
Answer(w, from, code) ==
    /\ Goto(w, from, "respond")
    /\ status' = [status EXCEPT ![w] = code]

\* The handler goes on.
Continue(w, from, to) ==
    /\ Goto(w, from, to)
    /\ UNCHANGED status

\* get_session_id: the id in the cookie, one the client was given or made up,
\* or else random characters
RequestIds == known \cup {Stray} \cup (IF FreshDraws THEN {} ELSE Sids)

\* What get_new_session_id may draw
NewIds == IF FreshDraws THEN Sids \ drawn ELSE Sids

\* store->exists(key): an error reply counts as "does not exist"
ExistsReply(s) == {store[s] # NoUser} \cup (IF StoreErrors THEN {FALSE} ELSE {})

\* What a command may do: be executed, or be refused with an error reply
Executed == IF StoreErrors THEN BOOLEAN ELSE {TRUE}

\* Bound: logins stop before the fresh ids run out.
IdsLeft ==
    FreshDraws =>
        Cardinality(drawn) + Cardinality({w \in Workers : pc[w] # "idle" /\ method[w] = "login"})
            < Cardinality(Sids)

-----------------------------------------------------------------------------
(* A request reaches a worker. *)

Begin(w) ==
    /\ Goto(w, "idle", "is_auth")
    /\ \E m \in Methods, s \in RequestIds :
        /\ m = "login" => IdsLeft
        /\ method' = [method EXCEPT ![w] = m]
        /\ sid' = [sid EXCEPT ![w] = s]
        /\ IF m \in {"login", "register"}
           THEN \E n \in Names : name' = [name EXCEPT ![w] = n]
           ELSE name' = [name EXCEPT ![w] = NoUser]
    /\ UNCHANGED <<stored, status, known, history>>

\* req.is_auth(), called first by every use case
IsAuth(w, auth) ==
    /\ auth \in ExistsReply(sid[w])
    /\ UNCHANGED <<stored, method, sid, name, known, history>>

\* 403 for a live session; 401 for a body that cannot be used
LoginStart(w) ==
    /\ method[w] = "login"
    /\ \/ IsAuth(w, TRUE) /\ Answer(w, "is_auth", 403)
       \/ IsAuth(w, FALSE) /\ Answer(w, "is_auth", 401)
       \/ IsAuth(w, FALSE) /\ Continue(w, "is_auth", "find_user")

\* 400 for a body, a username or a password that is refused, or a failed hash
RegisterStart(w) ==
    /\ method[w] = "register"
    /\ \/ IsAuth(w, TRUE) /\ Answer(w, "is_auth", 403)
       \/ IsAuth(w, FALSE) /\ Answer(w, "is_auth", 400)
       \/ IsAuth(w, FALSE) /\ Continue(w, "is_auth", "insert")

UserStart(w) ==
    /\ method[w] = "user"
    /\ \/ IsAuth(w, FALSE) /\ Answer(w, "is_auth", 401)
       \/ IsAuth(w, TRUE) /\ Continue(w, "is_auth", "get")

LogoutStart(w) ==
    /\ method[w] = "logout"
    /\ \/ IsAuth(w, FALSE) /\ Answer(w, "is_auth", 401)
       \/ IsAuth(w, TRUE) /\ Continue(w, "is_auth", "del")

-----------------------------------------------------------------------------
(* Login *)

\* get_user_by_username and verify_password: 401 if the query fails, there is
\* no such user or the password is wrong
FindUser(w) ==
    /\ \/ Answer(w, "find_user", 401)
       \/ name[w] \in accounts /\ Continue(w, "find_user", "new_id")
    /\ UNCHANGED <<stored, method, sid, name, known, history>>

\* Slip: the login keeps the id that came with the request.
KeepId(w) ==
    /\ Continue(w, "new_id", "set")
    /\ drawn' = drawn \cup (Sids \cap {sid[w]})
    /\ UNCHANGED <<stored, method, sid, name, known, issued, revoked>>

\* get_new_session_id: draw until EXISTS says no
NewId(w) ==
    /\ \E s \in NewIds :
        /\ \/ TRUE \in ExistsReply(s) /\ Continue(w, "new_id", "new_id")
           \/ FALSE \in ExistsReply(s) /\ Continue(w, "new_id", "set")
        /\ sid' = [sid EXCEPT ![w] = s]
        /\ drawn' = drawn \cup {s}
    /\ UNCHANGED <<stored, method, name, known, issued, revoked>>

\* set_byte_array: its result is ignored, the cookie is sent in any case
SetSession(w) ==
    /\ Answer(w, "set", 204)
    /\ \E done \in Executed :
        store' = IF done THEN [store EXCEPT ![sid[w]] = name[w]] ELSE store
    /\ issued' = [issued EXCEPT ![sid[w]] = name[w]]
    /\ UNCHANGED <<accounts, method, sid, name, known, drawn, revoked>>

-----------------------------------------------------------------------------
(* Register *)

\* add_user: the constraint users_username_key, or a query that fails before
\* or after the row is there
Insert(w) ==
    /\ \/ /\ name[w] \notin accounts
          /\ accounts' = accounts \cup {name[w]}
          /\ Answer(w, "insert", 201)
       \/ /\ accounts' \in {accounts, accounts \cup {name[w]}}
          /\ Answer(w, "insert", 400)
    /\ UNCHANGED <<store, method, sid, name, known, history>>

-----------------------------------------------------------------------------
(* User *)

\* Slip: the handler tells whoever the last login was for.
GetLast(w) ==
    /\ Answer(w, "get", 200)
    /\ \E s \in Sids :
        /\ store[s] # NoUser
        /\ name' = [name EXCEPT ![w] = store[s]]
    /\ UNCHANGED <<stored, method, sid, known, history>>

\* get_session_user: 500 if the session is gone by now or GET fails
GetSession(w) ==
    /\ pc[w] = "get"
    /\ \E done \in Executed :
        IF done /\ store[sid[w]] # NoUser
        THEN Answer(w, "get", 200) /\ name' = [name EXCEPT ![w] = store[sid[w]]]
        ELSE Answer(w, "get", 500) /\ UNCHANGED name
    /\ UNCHANGED <<stored, method, sid, known, history>>

-----------------------------------------------------------------------------
(* Logout *)

\* Slip: DEL counts as done whatever the number of keys it deleted.
DelAnyway(w) ==
    /\ Answer(w, "del", 204)
    /\ store' = [store EXCEPT ![sid[w]] = NoUser]
    /\ revoked' = revoked \cup {sid[w]}
    /\ UNCHANGED <<accounts, method, sid, name, known, drawn, issued>>

\* Slip: DEL is repeated until it deletes a key.
DelRetry(w) ==
    /\ pc[w] = "del"
    /\ IF store[sid[w]] # NoUser
       THEN /\ Answer(w, "del", 204)
            /\ store' = [store EXCEPT ![sid[w]] = NoUser]
            /\ revoked' = revoked \cup {sid[w]}
       ELSE Continue(w, "del", "del") /\ UNCHANGED <<store, revoked>>
    /\ UNCHANGED <<accounts, method, sid, name, known, drawn, issued>>

\* clear_session_user
DelSession(w) ==
    /\ pc[w] = "del"
    /\ \E done \in Executed :
        IF done /\ store[sid[w]] # NoUser
        THEN /\ Answer(w, "del", 204)
             /\ store' = [store EXCEPT ![sid[w]] = NoUser]
             /\ revoked' = revoked \cup {sid[w]}
        ELSE Continue(w, "del", "log") /\ UNCHANGED <<store, revoked>>
    /\ UNCHANGED <<accounts, method, sid, name, known, drawn, issued>>

\* The session is read once more, for the log: 500 whatever it holds.
LogFailure(w) ==
    /\ Answer(w, "log", 500)
    /\ UNCHANGED <<stored, method, sid, name, known, history>>

-----------------------------------------------------------------------------

\* Slip: every response carries the session id.
RespondWithId(w) ==
    /\ Goto(w, "respond", "idle")
    /\ known' = known \cup {sid[w]}
    /\ status' = [status EXCEPT ![w] = 0]
    /\ sid' = [sid EXCEPT ![w] = Stray]
    /\ name' = [name EXCEPT ![w] = NoUser]
    /\ method' = [method EXCEPT ![w] = "user"]
    /\ UNCHANGED <<stored, history>>

\* The response leaves; it may never arrive.
Respond(w) ==
    /\ Goto(w, "respond", "idle")
    /\ known' \in {known, known \cup (IF method[w] = "login" /\ status[w] = 204
                                      THEN {sid[w]} ELSE {})}
    /\ status' = [status EXCEPT ![w] = 0]
    /\ sid' = [sid EXCEPT ![w] = Stray]
    /\ name' = [name EXCEPT ![w] = NoUser]
    /\ method' = [method EXCEPT ![w] = "user"]
    /\ UNCHANGED <<stored, history>>

\* The process dies and is started again.
Crash ==
    /\ \E w \in Workers : pc[w] # "idle"
    /\ pc' = [w \in Workers |-> "idle"]
    /\ status' = [w \in Workers |-> 0]
    /\ sid' = [w \in Workers |-> Stray]
    /\ name' = [w \in Workers |-> NoUser]
    /\ method' = [w \in Workers |-> "user"]
    /\ UNCHANGED <<stored, known, history>>

Step(w) ==
    \/ LoginStart(w)
    \/ RegisterStart(w)
    \/ UserStart(w)
    \/ LogoutStart(w)
    \/ FindUser(w)
    \/ NewId(w)
    \/ SetSession(w)
    \/ Insert(w)
    \/ GetSession(w)
    \/ DelSession(w)
    \/ LogFailure(w)
    \/ Respond(w)

Next ==
    \/ \E w \in Workers : Begin(w) \/ Step(w)
    \/ Crash

\* A thread goes on with its handler; requests and crashes need not happen.
Fairness == \A w \in Workers : WF_vars(Step(w))

Spec == Init /\ [][Next]_vars /\ Fairness

-----------------------------------------------------------------------------

TypeOK ==
    /\ store \in [Ids -> Names \cup {NoUser}]
    /\ accounts \subseteq Names
    /\ pc \in [Workers -> Labels]
    /\ method \in [Workers -> Methods]
    /\ sid \in [Workers -> Ids]
    /\ name \in [Workers -> Names \cup {NoUser}]
    /\ status \in [Workers -> Statuses]
    /\ known \subseteq Sids
    /\ drawn \subseteq Sids
    /\ issued \in [Ids -> Names \cup {NoUser}]
    /\ revoked \subseteq Ids

\* A login never takes over a live session: the value of a session key changes
\* only from nothing to a user and from a user to nothing.
NoTakeover ==
    [][\A s \in Ids : store[s] # NoUser => store'[s] \in {store[s], NoUser}]_vars

\* GET /user tells the user for whose login the id was put in a cookie.
OwnSession ==
    \A w \in Workers :
        (pc[w] = "respond" /\ method[w] = "user" /\ status[w] = 200)
            => name[w] = issued[sid[w]]

\* No login brings a deleted session back to life, whatever it overlaps with.
RevokedStaysDead == \A s \in revoked : store[s] = NoUser

\* Of the logouts of one session, however they overlap, one is answered 204.
LogoutOnce ==
    [][\A w \in Workers :
          (method[w] = "logout" /\ status[w] # 204 /\ status'[w] = 204)
              => sid[w] \notin revoked]_vars

\* A login answered 204 opened a session, which lasts until a logout ends it.
LoginSticks ==
    \A s \in Ids : (issued[s] # NoUser /\ s \notin revoked) => store[s] = issued[s]

\* A logout fails only if the store has a problem.
LogoutFailsOnStoreErrorOnly ==
    \A w \in Workers : (method[w] = "logout" /\ status[w] = 500) => StoreErrors

\* Every request is answered, unless the process dies first.
Answered == \A w \in Workers : (pc[w] = "is_auth") ~> (pc[w] = "idle")

Abstract == INSTANCE Sessions WITH sessions <- store

\* Accounts and sessions change as Sessions allows.
ImplementsSessions == Abstract!Spec
=============================================================================
