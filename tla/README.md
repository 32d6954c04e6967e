# TLA+ verification of the HTTP server

Specifications of the authentication server in `src/`: an asio HTTP server whose
handlers log users in and out over a Redis store of sessions and a Postgres table
of users. The modules are checked with TLC on small instances, and their safety
properties are proved with TLAPS for every value of the constants their
hypotheses allow.

## 1. The system

| Part | Source | State | Operations |
|---|---|---|---|
| start-up | `main.cpp` | none | read the environment, build the pools, the routes, the server |
| server | `wrappers/http/server.*` | acceptor, threads, stop signal | accept loop, `run` on `POOL` threads, stop on a signal |
| connection manager | `wrappers/http/connection_manager.*` | set of connections | `start`, `stop`, `stop_all` |
| connection | `wrappers/http/connection.*` | buffer, `header_buffer`, request, parser, response | `do_read`, `handle_header_buffer`, `handle_body_buffer`, `do_write` |
| request parser | `wrappers/http/request_parser.*` | automaton state | `consume`, `parse` |
| router | `wrappers/http/request_handler.*`, `router.hpp` | trie of routes | constructor, `handle_request` |
| routes | `api/auth.hpp` | none | four callbacks: user, login, logout, register |
| HTTP adapter | `adapters/http/*` | pointers into the connection | session functions, body, cookies |
| use cases | `use-cases/auth/*.hpp` | none | `execute` of each |
| singletons | `*/singleton.cpp` | lazily built objects | double-checked locking |
| store | `interfaces/store/redis.*` | pool of `redisContext` | GET, SET, EXISTS, DEL |
| database | `db/core/pg.*` | pool of `PGconn`, statement count | `query`, `prepare` |
| user table | `db/user/pg.*`, `sql.sql` | two statements; table `users` | `get_user_by_username`, `add_user` |
| user entity | `entities/user/*` | username, password, hash | validation, hashing |
| crypto, logger, utilities, responses | the rest | none of interest | formatting, argon2, output |

How they interact. A completion handler of asio runs on one of the `POOL` threads:
it parses, routes and calls the use case, and the use case blocks in Redis and
Postgres calls on that thread. All threads share the two connection pools, the
singletons and the set of connections. What outlives the process is the store
(keys `sess:<id>`) and the table.

What is hard, by part:

* **Pools**: threads share a `std::deque` guarded only by a counting semaphore.
  Correct means: exclusive use, no data race, replies matched to commands, nothing
  lost, waiters served.
* **Sessions**: each use case is a sequence of separate round trips (EXISTS, then
  GET, SET or DEL; SELECT; INSERT) that interleave between threads. Commands may be
  refused, responses lost, and the process can die between two of them. Correct
  means: a login never takes over a session, a logout ends it for good, GET tells
  the right user, an account is created once.
* **User table**: both prepared statements have the same name, preparing happens
  only as a fallback, and a lost connection stays in the pool. Correct means: the right
  statement runs, an INSERT is not repeated, a 201 means a row, clients come back.
* **Connection and manager**: reads that never come, state kept between requests,
  completions queued when everything is stopped. Correct means: a request is
  answered however it arrives, and a stop ends everything.
* **Parser, headers, router**: automata and cursors over text that a client cuts
  and spells as it likes. Correct means: the result is what the text as a whole says.
* **User entity**: limits that are checked in one place and a column in another;
  a username that is trimmed in place. Correct means: who registered can log in.
* **Singletons**: publication of pointers without synchronisation, one lock inside
  another. Correct means: built once, seen built, nobody locked out.
* **Start-up and exit**: constructors that fail half-way, sizes that are no numbers,
  static destructors, exceptions out of threads. Correct means: a connection is freed once
  and after its last use.
* **Responses**: several fields that must agree, and that outlive the request on a
  connection that is kept. Correct means: the length stated is the length sent.

`PROJECT.json` lists the hazards line by line.

## 2. Modules

| Module | Models | Kind |
|---|---|---|
| `ClientPool` | what a pool promises: take a free connection, give it back | abstract |
| `ContextPool` | `get_context`/`release_context` (also `get_client`/`release_client`) | detailed, implements `ClientPool` |
| `Sessions` | what the service promises: enroll, open, close | abstract |
| `AuthService` | the four use cases and the session functions | detailed, implements `Sessions` |
| `UserEntity` | `validate_username`, `make_user`, `set_password` | operators |
| `UserDb` | login and registration over `UserPostgres` and `Postgres::query` | detailed, takes its clients as `ClientPool` allows; extends `UserEntity` |
| `HttpServer` | accept loop, connections, `stop_all`, on one thread | detailed |
| `Texts` | splitting sequences of tokens | operators |
| `RequestParser` | `request_parser`, and what a complete request is | operators |
| `RequestHeaders` | the loop over the headers in `connection`, `parse_cookie` | operators, extends `RequestParser` |
| `Router` | `request_handler`: the tree and its walk; a look at the list of routes | operators |
| `Response` | the fields of a response and the bytes they are sent as | operators |
| `Environment` | `init_env`, `get_env` | operators |
| `Singletons` | double-checked locking of the six lazily built objects | state and actions |
| `Process` | `main` to its exit, the worker threads, a request from its first byte to its answer | composes the seven above |
| `MC*` | the modules above for TLC | |
| `*Proofs` | theorems of the detailed modules; `SingletonsProofs` and `RequestProofs` (parser, headers, router) hold what `ProcessProofs` needs, `TextsProofs` the inductions | |

### ContextPool

`permits` is the count of the semaphore; `slots`, `head`, `tail` are the deque as a
ring. A deque operation is split where another thread can come in: `PopRead` and
`PopWrite` are the read and the write of the begin index, `PushSlot` and `PushTail`
the construction of the element and the move of the end index. The race is undefined
behaviour; the interleavings of these accesses are the outcomes the model gives it.
`Send` and `Recv` are one command and its reply, `wire[c]` the commands a
connection has not answered. `ctx[t]` is the local variable of the thread. `Request`
is any command of the store; what it asks is not modelled.

### AuthService

A step is one round trip with the computation up to the next: `LoginStart` is
`is_auth()` and the parsing of the body, `FindUser` the SELECT and the check of the
password, `NewId` one turn of the loop of `get_new_session_id`, and so on. `pc`,
`method`, `sid`, `name`, `status` are the handler's local state (`sid` is
`req.session_id`); `store` and `accounts` are Redis and Postgres. `known` holds the ids
that reached a client, and limits which ids a request can carry. `drawn`,
`issued` and `revoked` are history variables that the properties use.
A refused command is `Executed` or `ExistsReply`: an error reply to EXISTS is
"does not exist", SET's result is ignored, GET and DEL fail. `Crash` is a NULL
reply of hiredis dereferenced by the code: every handler dies, the server is started
again, the store and the table stay.

How a request gets to the handler is `HttpServer`'s subject. That a connection serves
only one is why a handler here is one request of one worker.

Two switches state what the environment may do. `FreshDraws` says that
`getrandom` never gives the same 16 characters twice, and that clients
do not guess ids. `StoreErrors` says that Redis may refuse commands.

### UserEntity and UserDb

A string is what it says (`name`), the length of that (`size`) and the spaces around
it (`pad`). `MakeUser` trims: `validate_username` does so to the caller's string.
`Login` looks up the username as it came, `Register` sends the trimmed one after its
three checks; `given`, `query` are the call's arguments. `Fits` is the
VARCHAR(50) of the table; `Found` makes a user of the row, as `get_user_by_username`
does, and so checks the name again. `registered` and `known` are history: which users had
their 201, and whether the login's was among them when it began.

A connection is lost (`broken`) before libpq notices, and then `dead`: the call that notices
ends in a PGresult with an error (`Refused`, `AnswerLost`), every later one in NULL
(`NoResult`). `PQresultStatus(NULL)` is a fatal error, so the fallback is tried and fails;
but `PQresultErrorMessage(NULL)` is empty, and `Postgres::query` takes NULL for a success.
`Reported` is what comes of it: a login counts no rows and says "User not found", and
`add_user_impl` makes a string of a NULL pointer, which throws out of a `noexcept` function.
`Terminate` is the end of the process, with the calls of all threads, and the start of the
next, on connections of its own.

`prepared[c][n]` is what the name `n` stands for on connection `c`; both statements are
named by `GetName`, which is constant because nothing increments the counter.
`ExecPrepared` has the outcomes of `PQexecPrepared`; `Exec`, `Prepare`, `Requery`
are the three calls of `query_with_fallback`, in order, with its conditions.
The Postgres server is external.

### HttpServer

A completion handler is one step (`AcceptHandler`, `SignalHandler`, `ReadHandler`,
`ReadFailed`, `WriteHandler`, `AbortedHandler`), and so is the moment at which asio has
carried out an operation and its handler is queued (`AcceptReady`, `ReadReady`,
`ReadEof`, `WriteReady`). Handlers of other connections, more data and the
signal come in between. `op[c]` is where the one operation of a connection is; queued
handlers run in any order, which allows more than asio's queue does.

What travels are tokens: `h` a part of the headers, `e` their end, `n` a newline
of the body, `b` the rest. `Send` delivers any piece, so requests arrive cut in
every way; `BufferSize` tokens fit a read. `HeadersEnd` is the request parser:
in its state `start` it reads up to `e`, and since nothing resets it, it later takes
one more newline for an end of headers and everything else for an error. So a second
request on a connection is answered 400, or, after a read that begins with a
newline, the first request is handled again.
`TooLong` is the comparison with `content_len` as an unsigned number.

`stop_all` releases the connections while handlers with a plain `this` may be queued.
What such a handler does is undefined: `Destroyed` sets `undefined` and nothing else.
`handled` and `answered` count the calls of `handle_request` and the responses.

The handler of a request, which blocks its thread in the code, is part of the step;
what it does is `AuthService`. One thread is the default of `main.cpp`.

### RequestParser, RequestHeaders, Router, Response

A text is a sequence of tokens. A token is one character where the parser, the headers or
the router treat it apart, and otherwise a run of ordinary characters (`"user"`), which
none of them looks into; that the automaton takes such a run in one step is the only liberty.
Header names are compared without regard to case in the code, so a name stands for
its spellings. `MethodMoves`, `VersionMoves` and `HeaderMoves` are the automaton: for a
state, the characters it takes and where they lead. `Consume` adds what `consume` pushes to the
request, `Parse` is the loop over one read; the state and the request survive between
reads. `Complete`, `MethodOf`, `UriOf` and `HeadersOf` say what a request is without
the automaton: by lines, their words, their first colon, their folding.

`TakeHeaders` is the loop over the headers with its counter; `ParseCookie` the cursor that
moves two characters past a `;`, as `CutPair` does for each. `SessionIn` says what the value
of a cookie names without a cursor: by its pieces between the separators. `thrown` is an exception of `stoi` or `substr`.
`Stoi` is `std::stoi`: spaces, a sign, and digits up to what is none; without a digit, or beyond an int, it
throws. A length of -1, which a header can state, is the value of a length that is not set, as in the code.
`Tree` is built route by route as the constructor does and `Route` walks it; `Listed` looks the
path up in the list of routes.

A response is its fields, a text in it its length; `ToBuffers` gives the named parts of the
bytes in their order.

### Environment, Singletons, Process

`phase` is where `main` is: `pg` and `store` are the constructors of the pools, whose turns
are `Connected` and `ConnectFailed`; `Run` starts the threads; `Return` joins them;
`Destroy` is a static destructor; `terminated` is an exception that nobody catches.
`Size` and `Threaded` are the numbers that `main` reads, 0 for what is no number.

A worker serves a connection: `Accept`, `Feed` (a read of any number of tokens),
`Dispatch` (the headers), then one of `Throw`, `Stuck` (more is available and nothing is begun),
`BodyTooLong` and `HandleRequest`, and `CallBack`. `body` is what the last read brought after the
headers. After an answer the connection may go on (`Again`): with the parser, the fields, the callback
and the response as the last request left them, for nothing resets these. `conn[t]` tells
a `first` request from those on a connection that was `kept`. The use case is the order
in which it uses the store, the table and crypto (`Uses`), and the responses it can leave
after each part of that (`UserAnswers`, `LoginAnswers`, `LogoutAnswers`, `RegisterAnswers`); what it does with
them is `AuthService`'s, and a pool is its permits, for the deque is `ContextPool`'s. Writes, packets of
a body, and the registration of connections are `HttpServer`'s.

`Signal` runs on one thread while others may be in a handler: `stop_all` destroys the connections
of these (`dropped`), and what the handler reads of its connection from then on is anything. So it may take
any branch, call any callback, or end the process (`Fault`).

`at[t][o]` is where thread `t` is in the function that gets singleton `o`; `Argument` gets
the singleton that another needs, under the mutex of the latter. `ptr` and `whole` are what
other threads see: the first look at the pointer is not synchronised, so when the build does
not keep the order of its two stores (`ordered`), the pointer may be seen before the object.

## 3. Runs

| Run | Instance | Result |
|---|---|---|
| `pool_of_one` | 3 threads, 1 connection | all properties hold; 2,952 states |
| `pool_of_two` | 2 threads, 2 connections | `Exclusive` violated |
| `auth_workers` | 2 threads, 2 ids, 2 users, errors, crashes | all hold; 252,947 states |
| `login_lost` | 1 thread, errors | `LoginSticks` violated |
| `logout_race` | 2 threads, no errors | `LogoutFailsOnStoreErrorOnly` violated |
| `user_db` | 2 threads, 2 connections, 5 usernames of 3 users | all hold; 785,987 states |
| `user_db_fallback` | 1 thread, 1 connection | `FallbackPrepares` violated |
| `user_db_lost` | 1 thread, 1 connection | `AddUserReturns` violated |
| `http_server` | 2 clients, 3 kinds of request, reads of 3 tokens | all hold; 559,626 states |
| `process` | up to 2 workers, 8 configurations | all hold; 541,705 states |
| `http_stuck` | 1 client, a request with a body | `RequestAnswered` violated |
| `http_stop` | 1 client | `GracefulStop` violated |

Why the bounds suffice. The pool's hazards need two threads inside and one waiting:
three threads. Those of the sessions need two handlers on one id, and a second id and
user to confuse it with; each handler is one request, and a worker starts a
new one when it ends, so the runs hold any sequence of requests that the two
ids allow (`IdsLeft` stops logins when the fresh ids run out). `UserDb` needs two
names for a row that is taken by another, and two connections with different
histories. Its usernames are of 8 characters (the shortest that are accepted) with and without a
space around them, of 7 with and without, and of 60 (the longest accepted, and longer
than the column) with a space; none is of 50, 51 or 61. Its passwords are of 7, 8, 60 and 61 characters.

`Process` is checked in configurations that ask different questions. For the parser: one worker and
a request with a folded header, with every text that one token replaced, put in or
taken out makes of it, for one token of each kind the parser tells apart, cut into
reads of one token, of five, or all the rest, in any order. Every transition of the automaton is on
the way of one of these texts or next to it. For the router and the headers: 36 paths and
methods, and 48 combinations of lengths (signs, spaces, no number, above and below an int) and cookies.
For connections that are kept: requests with bodies of none, one and two tokens against lengths of 1, -1 (unset)
and -2 (above all, as an unsigned number), read with more available or not, and up to two further
texts on the same connection, which begin with a newline or with something else. For the threads: two workers, each with one request, which is what
double-checked locking needs to go wrong, with both orders of the stores; the login needs the table's
singleton under its own lock. For `main`: pools of none, one, two and three, each constructor failing
at each turn; no worker, one, two; a cost of argon2 that is no number; and the signal at any moment.
The process ends, so the run does not check for deadlock; `HandlerReturns` says that no
callback waits for ever.

`HttpServer` has two connections so that one may be stopped, left or served while the
other is at any point; texts of at most four tokens and reads of three, so that headers
and bodies are cut at every place and can be longer than a read; and a second
request on one connection (`MaxRequests`). A stopped server does nothing more, so its runs
do not check for deadlock; `StopDrains` and `AnsweredOrStuck` say what must have
happened before.

What the violations show is in `PROJECT.json` under "findings": the deque is not
safe when the pools are larger than one; a login whose SET is refused is
answered 204; the second of two overlapping logouts is answered 500; a connection
that has prepared one statement can never prepare the other; a registration on a connection
known to be lost ends the process; a client whose
body is still arriving when its headers are complete waits for ever; a handler queued
when the signal comes runs on a destroyed connection.

## 4. Fairness

In `HttpServer`, weak fairness of the accept, of the signal's handler and of each
connection's steps: `io_context::run` takes every queued handler in its turn.
In `Process` weak fairness of each thread's own steps from the callback to its answer, and of
nothing else: clients, signals and `main` owe nothing. It suffices although locks and permits are
contended, because each thread has one request to end and then competes no more.
Elsewhere weak fairness of each thread's own steps: the operating
system schedules threads that can run, Redis and Postgres answer or the call
fails. A thread that waits on the semaphore is only weakly fair and the
semaphore is not a queue, so `EveryWaiterServed` assumes that new handlers stop
coming from some moment on. Nothing obliges a client to send a request, a
connection to be lost or the process to die.

`EveryWaiterServed`, `ClientReturned` and `Answered` say respectively that no permit is
lost, that no error path keeps a client, and that no path of a use case loops
or gets stuck; `AnsweredOrStuck` that no way of cutting a request leaves a
connection without its next operation, and `StopDrains` that `run` returns. They are
checked by TLC only. `HandlerReturns` says that a callback ends: that no permit is kept, that
the nested locks of the singletons make no circle. It excepts an empty pool, on which the
first request does wait for ever.

## 5. Proofs

TLAPS proves (see "theorems" in `PROJECT.json`) all the safety properties of the passing runs, for every
value of the constants that the hypotheses named here allow:

* `ContextPoolProofs`, for any set of threads and `NumPool = 1`: the types,
  `Exclusive`, `RaceFree`, `OwnReply`, `Conserved` and the refinement of
  `ClientPool`. The hypothesis is the boundary found by `pool_of_two`. The
  inductive invariant `IInv` adds to the types: the permit is free exactly when no
  thread is past `Acquire` (so the threads past it exclude each other); the position of
  `head`, `tail` and the slot between them as a function of where that thread is; and
  the content of the wire. One lemma per part shows that every action preserves it.
* `AuthServiceProofs`, for any number of threads, ids and users: with `FreshDraws`,
  `RevokedStaysDead`, `OwnSession`, `NoTakeover`, `LogoutOnce` and the refinement of
  `Sessions`, even if the store refuses commands and the process crashes. The
  invariant says that an id was drawn before it is stored, issued or revoked, and that
  the ids two logins have in hand differ. Without `FreshDraws`, for one thread and
  a store that works, `NoTakeoverOneWorker`: from the last EXISTS to the SET nobody
  else can store. From the same invariant follows `OwnSessionOneWorker`; and the two
  disagreements found by runs are at their boundaries: `LoginSticksCorrect` (a store that refuses
  nothing; any number of threads) and `LogoutFailsOneWorker` (one thread).
* `UserDbProofs`, for any usernames, passwords and threads (`NamesAssumption`: they are
  strings and lengths, and there is one): the types, `RightStatement` (the number of
  parameters tells the statements apart, which is why `Arity` matters),
  `NotTakenByItself` (an INSERT that commits without an answer leaves the
  connection broken, so the fallback cannot prepare on it), `RowsMakeUsers`, `UserFound` and
  `RegisteredStored`. `RightStatement` and `UserFound` except a login on a connection known to be lost, which is told that a
  registered user is not found though no statement ran; `user_db_lost` shows what the same NULL does to
  a registration. `Progress` says that only such a connection gives no result, so nothing else is excepted. The last three rest on the rows: each is a trimmed name that
  passes the check, and the rows include all registered users, so that a login that began
  after its 201 finds the row. A registration without a result is not answered 201: it throws.
* `HttpServerProofs`, for any clients, requests, buffer size and bounds (`RequestsAssumption`: a
  request is a text of tokens with one end of headers, and its length a number or absent): the types,
  `Attended`, `StoppedForGood`, `FirstAnswer` and `WholeBody`. `SafetyInv` adds `Registered`: only
  registered connections have operations until `stop_all`, and only `stop_all` cancels any.
  Without it a cancelled operation, which ends with none, would break `Attended`, and
  an operation of an unregistered connection would outlive the stop. `FirstAnswer`
  and `WholeBody` follow from another invariant, `FlowInv`, which says where the first request of
  a connection is (`Stream`): until its headers are complete, a part of its text without the end
  of headers is handled, the next part is in the buffer, the next at the socket, and the rest
  with the client. What follows the end of headers in the buffer is then a part of the body, and
  the whole of it when nothing is left at the socket or with the client.
* `TextsProofs`, for any texts: induction. The library's theorems of
  induction take the property as an operator, which no prover here instantiates; `SetInduction`,
  `UpTo` and `SeqInduction` are about the set of numbers or sequences that have the property,
  and follow from the well-foundedness of the numbers. `Recursion` shows that a function
  defined by recursion over `0 .. n` exists; without it nothing is known of one.
  With them, what `Split` makes of a text and one more character (`SplitAppend`), and
  that it loses nothing (`SplitInjective`).
* `RequestProofs`, for any set of tokens that has those of the automaton
  (`CharsAssumption`) and any text:
  `GoodIsComplete` (what the parser accepts is a complete request, and its
  method, uri and headers are the ones written there), `CompleteIsGood` (it accepts every complete
  request, at its end), `UndecidedCanFinish` (while it wants more there is something that would
  make it a request). They rest on one relation between the parser and the text that it has
  read, `Fits`: the lines before the last are a request line and headers, the headers
  collected are those of these lines, and the state says what the last line begins with
  (`OnRequestLine`, `OnHeaderLine`). `FitsGrow` is its step: for each state and character
  the automaton has a move exactly if the line can go on so. Further `ParseOnwards` (two
  reads are one), `RouteIsListed` (the tree finds the route listed last, for any list of routes), and
  `HeadersTaken`. For the last, `CutAt` says that after each character of a cookie's value
  the cursor is at the last piece, past its space, and the session is that of
  the pieces before it; `TakenTo`, that the counter is the number of headers used, so the loop
  is left early only when there is nothing left to use.
* `ProcessProofs`, for any configuration, routes and number of threads
  (`ThreadsAssumption`: there are threads for every number the server may start;
  `TextsAssumption`: texts and routes are of the parser's characters, and no path is empty):
  `BuiltOnce`, `BuiltBeforeUse`, `FreedOnce`, `UsedAlive`, `TypeOK`, `ParsedAsWritten`, `WaitsForSense`,
  `HeadersRead`, `RoutedRight`, `AnswerFramed`. Also `CutsDoNotMatterCorrect`
  (however a text is cut into reads, the parser ends as if it had come at once) and
  `HeaderWithinCorrect` (`headers.back()` is never of an empty vector). The invariant has these parts.
  `Placing`: only workers that run have a request, and there are as many as the server
  started; so when the one worker throws, no other is in a handler when the pools are
  destroyed. `Freeing`: what was freed, by the constructor that failed and the
  destructor. `Calling`: which singletons a thread may be getting in which part of its
  request. `SingletonsInv`: who is past the lock of an object holds its mutex, and a pointer
  that is set belongs to a build; proved for one step in `SingletonsProofs`, without the rest of
  the process. `Counting`: permits and counters are
  numbers. `RequestTypes` and, for each worker, `RequestInv` are about its connection, and have a lemma
  for each action. Of a first request: its parser is what `Parse` makes of what it has read, taken as one
  read (`Parsed`); its fields are those of what was parsed, and its body is not too long
  (`Taken`); its response is new until it is answered (`Answered`). The theorems of `RequestProofs` say
  the rest. Of every request, the callback is that of the route listed (`Routed`). Of a connection that goes on
  and has refused nothing, the parser stands at the end of the first headers and the callback is
  still the first one's (`Repeated`): whatever comes next is refused or calls it again. Only therefore is the
  length of a later answer right: a callback that answers 204 never gives a body, so none is left
  from the answer before. `SizedParts` and `SizedFramed` go from the fields of a response to its bytes.

Only model-checked: the liveness properties, which need fairness and ENABLED; and the violations.
Weak fairness plays no part in the theorems above. The hypotheses are as weak as the runs say: each
one that is not about the types of the constants (`NumPool = 1`, `FreshDraws`, no `StoreErrors`,
one thread) is one without which a run finds a violation, or stands for what the code cannot prevent.

What the properties of `Process` say where the code is not as one would like: `HeadersRead`, that
a cookie header that ends in `;`, or a length that is no int, throws out of the handler and
ends the process; `RoutedRight`, that the character after the base path is not looked at;
`FreedOnce`, that a pool of several whose constructor fails is freed twice; `AnswerFramed`,
that the answer to a request that the parser refuses, or whose body is longer than it says, states two
lengths, and so may every answer after it on that connection. It does not say which cookies a kept
connection is sent: a login that is handled again, and finds the session of the first, is
answered 403 with that session's cookie once more. In `UserDb`, `UserFound` says that a
login with spaces around the name does not find it.

Where a property excuses a state, it is not a claim about that state: `HandlerReturns` excuses the
empty pool and counts the end of the process as an end; `BuiltBeforeUse` excuses the reader that
sees a pointer before the object when the stores are not ordered; `WholeBody` a body that has not arrived whole;
`Attended` and `AnsweredOrStuck` the connection that waits for a body nobody reads;
`StopDrains` the handler on a destroyed connection. The hazards in `PROJECT.json` name these.

## 6. Not modelled, and the plan

* Several threads in the connection manager: two changes of a `std::set` that overlap
  have no defined outcome, so there is nothing to say but that they must not; with one thread,
  the default, they cannot. Several threads in one connection's loop do not occur.
* The typed getters and setters of the store (`get_int32`, `set_float` ...): the tests call them,
  the system does not. Their common shape, with the pool, is `ContextPool`'s. The commands the
  system uses (GET and SET of bytes, EXISTS, DEL) are in `AuthService`.
* `url_decode`, `extension_to_type`, `request_parser::reset`, `clear_store`, `clear_postgres`: never
  called.
* The version numbers of a request, which nothing reads.
* Two logins that draw the same id at once: with several threads `AuthService` is checked and proved for
  ids that do not repeat. For ids that do, there are the theorems `NoTakeoverOneWorker` and `OwnSessionOneWorker`,
  for one thread, and `LoginSticksCorrect`, for any number.
* Texts: the attributes of cookies, log entries, what JSON and FlatBuffers say, argon2.
* A lack of memory.
* The mocks, the tests and the generated code.

What is left to prove: the lemmas behind the liveness properties that are safety (that a
handler that waits for a lock waits for one whose holder is not waiting, and that a permit not free is held
by a handler that can go on), and what the connections of `HttpServer` do after their first request.
