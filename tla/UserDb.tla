------------------------------- MODULE UserDb -------------------------------
(***************************************************************************)
(* UserPostgres over Postgres (db/user/pg.cpp, db/core/pg.cpp): threads    *)
(* log users in and register them: they run the two statements of the      *)
(* users table on clients taken from the pool.  A statement is prepared on *)
(* a client only when executing it has failed (query_with_fallback), under *)
(* the name get_name gave it.  What the Postgres server does with a name,  *)
(* a number of parameters, the length of a column and the constraint       *)
(* users_username_key is external, and so is what libpq makes of a         *)
(* connection that is lost: the call that notices the loss ends in a       *)
(* result with an error, every later call in no result at all.             *)
(*                                                                         *)
(* The pool is the one ClientPool promises: see ContextPool for the deque. *)
(***************************************************************************)
EXTENDS UserEntity

CONSTANTS
    Threads,
    Clients,    \* the PGconn of the pool
    NoClient,
    Names,      \* usernames as they come
    Passwords   \* the lengths of passwords

ASSUME NoClientAssumption == NoClient \notin Clients

ASSUME NamesAssumption ==
    Names # {} /\ (\A u \in Names : u \in Strings) /\ (\A n \in Passwords : n \in Nat)

Queries == {"select", "insert"}

VARIABLES
    rows,       \* the usernames in the table
    prepared,   \* prepared[c][n]: what name n stands for on connection c
    broken,     \* the connections that were lost
    dead,       \* those of them whose loss libpq has noticed
    pc, query, client,  \* each thread's call of Postgres::query
    given,      \* the username the thread was given
    result,     \* the PGresult: an error, a success or none
    ran,        \* history: the query whose execution gave the result
    inserted,   \* history: the call has put a row in the table
    registered, \* history: the users whose registration was answered 201
    known       \* history: the user was one of them when the call began

connections == <<prepared, broken, dead>>
server == <<rows, connections>>
call == <<query, given, known>>
vars == <<server, call, pc, client, result, ran, inserted, registered>>

Labels == {"idle", "get", "exec", "prepare", "requery", "release"}

\* refused: by make_user, of the row found; missing: no such user; null: a
\* PGresult* that is NULL
Results == {"none", "ok", "taken", "missing", "refused", "error", "null"}

\* get_name, called the k-th time: statement_count, which nothing increments
GetName(k) == 0

\* UserPostgres::UserPostgres prepares the SELECT, then the INSERT.
StatementName(q) == IF q = "select" THEN GetName(1) ELSE GetName(2)

StatementNames == {StatementName(q) : q \in Queries}

\* Slip: the LIMIT of the SELECT becomes a parameter.
SameArity(q) == 2

\* The number of values bound to the statement
Arity(q) == IF q = "select" THEN 1 ELSE 2

\* The username of a thread without a call
Anybody == CHOOSE u \in Names : TRUE

Init ==
    /\ rows = {}
    /\ prepared = [c \in Clients |-> [n \in StatementNames |-> "none"]]
    /\ broken = {}
    /\ dead = {}
    /\ pc = [t \in Threads |-> "idle"]
    /\ query = [t \in Threads |-> "select"]
    /\ given = [t \in Threads |-> Anybody]
    /\ client = [t \in Threads |-> NoClient]
    /\ result = [t \in Threads |-> "none"]
    /\ ran = [t \in Threads |-> "none"]
    /\ inserted = [t \in Threads |-> FALSE]
    /\ registered = {}
    /\ known = [t \in Threads |-> FALSE]

Goto(t, from, to) ==
    /\ pc[t] = from
    /\ pc' = [pc EXCEPT ![t] = to]

\* The username that is sent to the server: a registration sends the user's, a
\* login looks up what it was given.
Arg(t) == IF query[t] = "insert" THEN MakeUser(given[t]).username ELSE given[t]

Free == Clients \ {client[t] : t \in Threads}

-----------------------------------------------------------------------------

\* A use case begins, with username u, the call of query.
Begin(t, q, u) ==
    /\ Length(u) > 0
    /\ Goto(t, "idle", "get")
    /\ query' = [query EXCEPT ![t] = q]
    /\ given' = [given EXCEPT ![t] = u]
    /\ known' = [known EXCEPT ![t] = Trim(u) \in registered]
    /\ UNCHANGED <<server, client, result, ran, inserted, registered>>

\* Login: get_user_by_username
Login(t) == \E u \in Names : Begin(t, "select", u)

\* Registration: add_user comes after make_user, set_password and hash_password,
\* of which each may refuse and nothing has been done.
Register(t) ==
    \E u \in Names, size \in Passwords :
        /\ MakeUser(u).error = "none"
        /\ SetPassword(size) = "none"
        /\ Begin(t, "insert", u)

\* get_client
GetClient(t) ==
    /\ Goto(t, "get", "exec")
    /\ \E c \in Free : client' = [client EXCEPT ![t] = c]
    /\ UNCHANGED <<server, call, result, ran, inserted, registered>>

\* What the connection has under the name of the thread's statement
Bound(t) == prepared[client[t]][StatementName(query[t])]

\* The server runs what the name stands for, if there is such a name, it takes
\* as many parameters and the connection is up.
Runs(t) ==
    /\ client[t] \notin broken
    /\ Bound(t) # "none"
    /\ Arity(Bound(t)) = Arity(query[t])

\* users.username is VARCHAR(50).
Fits(u) == Length(u) <= 50

\* A call on the thread's connection notices that it is lost.
Noticed(t) == dead \cup ({client[t]} \cap broken)

\* PQexecPrepared: the call goes on to ok or to fatal.
Refused(t, from, fatal) ==
    /\ Goto(t, from, fatal)
    /\ client[t] \notin dead
    /\ Runs(t) => Bound(t) = "insert" /\ ~Fits(Arg(t))
    /\ result' = [result EXCEPT ![t] = "error"]
    /\ dead' = Noticed(t)
    /\ UNCHANGED <<rows, prepared, broken, ran, inserted>>

\* PQexecPrepared returns NULL, which PQresultStatus calls a fatal error.
NoResult(t, from, fatal) ==
    /\ Goto(t, from, fatal)
    /\ client[t] \in dead
    /\ result' = [result EXCEPT ![t] = "null"]
    /\ UNCHANGED <<server, ran, inserted>>

\* get_user_by_username makes a user of the row, whose username is that of the
\* query.
Found(username) ==
    CASE username \notin rows -> "missing"
      [] username \in rows /\ MakeUser(username).error # "none" -> "refused"
      [] OTHER -> "ok"

Selected(t, from, ok) ==
    /\ Goto(t, from, ok)
    /\ Runs(t) /\ Bound(t) = "select"
    /\ result' = [result EXCEPT ![t] = Found(Arg(t))]
    /\ ran' = [ran EXCEPT ![t] = "select"]
    /\ UNCHANGED <<server, inserted>>

Inserted(t, from, ok) ==
    /\ Goto(t, from, ok)
    /\ Runs(t) /\ Bound(t) = "insert" /\ Fits(Arg(t)) /\ Arg(t) \notin rows
    /\ rows' = rows \cup {Arg(t)}
    /\ result' = [result EXCEPT ![t] = "ok"]
    /\ ran' = [ran EXCEPT ![t] = "insert"]
    /\ inserted' = [inserted EXCEPT ![t] = TRUE]
    /\ UNCHANGED connections

Taken(t, from, fatal) ==
    /\ Goto(t, from, fatal)
    /\ Runs(t) /\ Bound(t) = "insert" /\ Fits(Arg(t)) /\ Arg(t) \in rows
    /\ result' = [result EXCEPT ![t] = "taken"]
    /\ ran' = [ran EXCEPT ![t] = "insert"]
    /\ UNCHANGED <<server, inserted>>

\* The connection is lost between the commit and the answer.
AnswerLost(t, from, fatal) ==
    /\ Goto(t, from, fatal)
    /\ Runs(t) /\ Bound(t) = "insert" /\ Fits(Arg(t)) /\ Arg(t) \notin rows
    /\ rows' = rows \cup {Arg(t)}
    /\ broken' = broken \cup {client[t]}
    /\ dead' = dead \cup {client[t]}
    /\ result' = [result EXCEPT ![t] = "error"]
    /\ inserted' = [inserted EXCEPT ![t] = TRUE]
    /\ UNCHANGED <<prepared, ran>>

ExecPrepared(t, from, ok, fatal) ==
    /\ \/ Refused(t, from, fatal)
       \/ NoResult(t, from, fatal)
       \/ Selected(t, from, ok)
       \/ Inserted(t, from, ok)
       \/ Taken(t, from, fatal)
       \/ AnswerLost(t, from, fatal)
    /\ UNCHANGED <<call, client, registered>>

\* The first PQexecPrepared of query_with_fallback
Exec(t) == pc[t] = "exec" /\ ExecPrepared(t, "exec", "release", "prepare")

\* Slip: the fallback reconnects (PQreset) before it prepares.
PrepareReconnected(t) ==
    /\ Goto(t, "prepare", "requery")
    /\ broken' = broken \ {client[t]}
    /\ dead' = dead \ {client[t]}
    /\ prepared' = [prepared EXCEPT ![client[t]] =
                        [n \in StatementNames |->
                            IF n = StatementName(query[t]) THEN query[t] ELSE "none"]]
    /\ UNCHANGED <<rows, call, client, result, ran, inserted, registered>>

\* Slip: the failure of PQprepare returns early, without release_client.
PrepareLeaks(t) ==
    /\ pc[t] = "prepare"
    /\ IF client[t] \in broken \/ Bound(t) # "none"
       THEN Goto(t, "prepare", "idle") /\ UNCHANGED prepared
       ELSE /\ Goto(t, "prepare", "requery")
            /\ prepared' = [prepared EXCEPT ![client[t]][StatementName(query[t])] = query[t]]
    /\ dead' = Noticed(t)
    /\ UNCHANGED <<rows, broken, call, client, result, ran, inserted, registered>>

\* The fallback: PQprepare fails if the name is in use or the connection lost,
\* and then the first result stands.
Prepare(t) ==
    /\ pc[t] = "prepare"
    /\ IF client[t] \in broken \/ Bound(t) # "none"
       THEN Goto(t, "prepare", "release") /\ UNCHANGED prepared
       ELSE /\ Goto(t, "prepare", "requery")
            /\ prepared' = [prepared EXCEPT ![client[t]][StatementName(query[t])] = query[t]]
    /\ dead' = Noticed(t)
    /\ UNCHANGED <<rows, broken, call, client, result, ran, inserted, registered>>

\* The second PQexecPrepared
Requery(t) == pc[t] = "requery" /\ ExecPrepared(t, "requery", "release", "release")

\* Slip: the missing id of a NULL result is taken for an empty one.
ReportedBlank(t) ==
    CASE result[t] # "null" -> result[t]
      [] result[t] = "null" /\ query[t] = "select" -> "missing"
      [] OTHER -> "ok"

\* What query, get_user_by_username and add_user make of the PGresult.  NULL has
\* no error message and no rows: a login takes it for a user not found, and
\* add_user, which is noexcept, makes a string of its missing id.
Reported(t) ==
    CASE result[t] # "null" -> result[t]
      [] result[t] = "null" /\ query[t] = "select" -> "missing"
      [] OTHER -> "thrown"

\* release_client; query returns what was reported and the use case answers.
\* Nothing looks at the state of the connection.
ReleaseClient(t) ==
    /\ Goto(t, "release", "idle")
    /\ Reported(t) # "thrown"
    /\ client' = [client EXCEPT ![t] = NoClient]
    /\ query' = [query EXCEPT ![t] = "select"]
    /\ given' = [given EXCEPT ![t] = Anybody]
    /\ registered' = IF query[t] = "insert" /\ Reported(t) = "ok"
                     THEN registered \cup {Trim(given[t])} ELSE registered
    /\ result' = [result EXCEPT ![t] = "none"]
    /\ ran' = [ran EXCEPT ![t] = "none"]
    /\ inserted' = [inserted EXCEPT ![t] = FALSE]
    /\ known' = [known EXCEPT ![t] = FALSE]
    /\ UNCHANGED server

\* std::terminate: every thread's call is gone, and the process that is started
\* in its place has connections of its own.
Terminate(t) ==
    /\ pc[t] = "release"
    /\ Reported(t) = "thrown"
    /\ pc' = [s \in Threads |-> "idle"]
    /\ query' = [s \in Threads |-> "select"]
    /\ given' = [s \in Threads |-> Anybody]
    /\ client' = [s \in Threads |-> NoClient]
    /\ result' = [s \in Threads |-> "none"]
    /\ ran' = [s \in Threads |-> "none"]
    /\ inserted' = [s \in Threads |-> FALSE]
    /\ known' = [s \in Threads |-> FALSE]
    /\ prepared' = [c \in Clients |-> [n \in StatementNames |-> "none"]]
    /\ broken' = {}
    /\ dead' = {}
    /\ UNCHANGED <<rows, registered>>

\* A connection is lost; no code calls PQreset.
Disconnect(c) ==
    /\ c \notin broken
    /\ broken' = broken \cup {c}
    /\ UNCHANGED <<rows, prepared, dead, call, pc, client, result, ran, inserted, registered>>

Step(t) ==
    \/ GetClient(t)
    \/ Exec(t)
    \/ Prepare(t)
    \/ Requery(t)
    \/ ReleaseClient(t)
    \/ Terminate(t)

Next ==
    \/ \E t \in Threads : Login(t) \/ Register(t) \/ Step(t)
    \/ \E c \in Clients : Disconnect(c)

\* A thread inside query goes on when it can.  The semaphore is not fair.
Fairness == \A t \in Threads : WF_vars(Step(t))

Spec == Init /\ [][Next]_vars /\ Fairness

-----------------------------------------------------------------------------

\* The result stands.
Returned(t) == pc[t] = "release"

TypeOK ==
    /\ rows \subseteq Strings
    /\ prepared \in [Clients -> [StatementNames -> Queries \cup {"none"}]]
    /\ broken \subseteq Clients
    /\ dead \subseteq broken
    /\ pc \in [Threads -> Labels]
    /\ query \in [Threads -> Queries]
    /\ given \in [Threads -> Names]
    /\ client \in [Threads -> Clients \cup {NoClient}]
    /\ result \in [Threads -> Results]
    /\ ran \in [Threads -> Queries \cup {"none"}]
    /\ inserted \in [Threads -> BOOLEAN]
    /\ registered \subseteq Strings
    /\ known \in [Threads -> BOOLEAN]
    /\ \A t \in Threads : client[t] = NoClient <=> pc[t] \in {"idle", "get"}

\* A call that succeeds, or that reports the username as taken or unknown, ran
\* its own statement, although both statements have one name on every connection.
\* "User not found" on a connection known to be lost is the one exception.
RightStatement ==
    \A t \in Threads :
        Returned(t) /\ Reported(t) \in {"ok", "taken", "missing"} =>
            \/ ran[t] = query[t]
            \/ Reported(t) = "missing" /\ client[t] \in dead

\* add_user never reports as taken a username that the same call inserted: the
\* fallback does not repeat an INSERT that has gone through.
NotTakenByItself ==
    \A t \in Threads : (Returned(t) /\ Reported(t) = "taken") => ~inserted[t]

\* The check of usernames, made again of what a login has found, never refuses a
\* user whom a registration let in.
RowsMakeUsers ==
    \A t \in Threads : Returned(t) => Reported(t) # "refused"

\* When a registration has been answered 201, however the username was spaced,
\* a login finds the user; unless it has spaces around the name, which the
\* registration cut off and the login does not, or has got a connection known to
\* be lost.
UserFound ==
    \A t \in Threads :
        (Returned(t) /\ Reported(t) = "missing" /\ known[t]) =>
            given[t].pad > 0 \/ client[t] \in dead

\* A registration is answered 201 only when the row is in the table, whatever
\* becomes of the connection; and rows stay when the process is started again.
RegisteredStored == registered \subseteq rows

\* Every client taken from the pool returns to it, whatever fails.
ClientReturned ==
    \A t \in Threads : (client[t] # NoClient) ~> (client[t] = NoClient)

\* On a connection that is up, a query fails only on the constraint.
FallbackPrepares ==
    \A t \in Threads :
        (pc[t] = "release" /\ client[t] \notin broken) => result[t] # "error"

\* add_user is noexcept: it returns an id or an error, on a connection of any
\* history.
AddUserReturns ==
    \A t \in Threads : Returned(t) => Reported(t) # "thrown"
=============================================================================
