------------------------------- MODULE Process -------------------------------
(***************************************************************************)
(* The process from main to its exit: the environment, the two pools, the  *)
(* worker threads of the server, and what the handler of a request does    *)
(* before and after its use case.  A worker serves a connection read by    *)
(* read: it parses, takes the headers, finds the route, gets the           *)
(* singletons and executes the use case, which blocks it.                  *)
(*                                                                         *)
(* A connection that was answered goes on with its parser, its fields and  *)
(* its response.  Writes, the packets of a body and the registration of    *)
(* connections are HttpServer's subject.  A use case is the order of the   *)
(* things it uses; what it does with them is AuthService's.  A pool is its *)
(* permits: see ContextPool for the deque.                                 *)
(***************************************************************************)
EXTENDS Integers, RequestHeaders, Router, Singletons, Environment, Response

CONSTANTS
    NoPool,
    Cores,      \* hardware_concurrency()
    Configs     \* a sequence of what a process may start with: the variables and
                \* the .env file; the texts that come, first and after an answer;
                \* the sizes of reads, and a bound on the requests of a worker

Pools == {"pg", "store"}

ASSUME PoolsAssumption == NoPool \notin Pools /\ Cores \in Nat

\* There are threads for every number that the server may start.
ASSUME ThreadsAssumption ==
    /\ IsFiniteSet(Threads)
    /\ \A n \in 0 .. Cores : \E W \in SUBSET Threads : Cardinality(W) = n

\* Texts are of the characters that the parser knows, and no path is empty.
ASSUME TextsAssumption ==
    /\ Base \in Seq(Chars)
    /\ Routes \in Seq([method : Seq(Chars), path : Seq(Chars) \ {<<>>}, cb : UseCases])
    /\ \A i \in DOMAIN Configs :
        /\ Configs[i].texts \subseteq Seq(Chars) /\ Configs[i].more \subseteq Seq(Chars)
        /\ Configs[i].turns \in Nat

VARIABLES
    phase,      \* where main is
    config,
    environ,    \* the variables of the process
    workers,    \* the threads in io_context::run
    opened,     \* how many connections each pool has opened
    freed,      \* history: how often the pool's connections were freed
    failed,     \* the pool whose constructor failed
    destroyed,  \* the pools whose static destructor has run
    permits,    \* the semaphore of each pool
    pc,         \* where each worker is with its connection
    served,     \* the requests that it began
    conn,       \* its connection: none, at its first request or kept for
                \* another, or dropped by stop_all while its handler runs
    text,       \* what the client sends
    parser,     \* request_parser and the request
    body,       \* how much of the last read stands after the headers
    fields,     \* what the headers gave
    cb,         \* the callback that the router found
    res,        \* the response
    plan,       \* what the use case has yet to use
    hold        \* the pool whose connection the worker has

start == <<phase, config, environ, workers, opened, freed, failed, destroyed>>
request == <<served, conn, text, parser, body, fields, cb, res>>
work == <<plan, hold, permits>>
vars == <<start, request, work, pc, singletons>>

Phases == {"start", "pg", "store", "server", "serving", "stopping", "exiting",
           "exited", "terminated"}

Waiting == {"idle", "reading"}

WorkerLabels == {"idle", "reading", "parsed", "dispatched", "routed", "calling", "executing"}

\* What a use case uses, in order: is_auth, the user and his password, the
\* session; logout reads the session that it cannot delete.  Each step but the
\* first comes only if the one before allows it.  The id that login draws is free.
Uses(o) ==
    CASE o = "get_user_auth" -> <<"store", "store">>
      [] o = "logout_auth" -> <<"store", "store", "store">>
      [] o = "login_auth" -> <<"store", "pg", "crypto", "store", "store">>
      [] o = "register_auth" -> <<"store", "crypto", "pg">>

\* PG_POOL, REDIS_POOL and POOL, with the defaults of main
Size(p) == Strtoul(GetEnv(environ, IF p = "pg" THEN "PG_POOL" ELSE "REDIS_POOL", "1"))

Threaded == LET n == Strtoul(GetEnv(environ, "POOL", "1")) IN IF n > Cores THEN Cores ELSE n

Init ==
    /\ phase = "start"
    /\ config \in DOMAIN Configs
    /\ environ = Configs[config].environ
    /\ workers = {}
    /\ opened = [p \in Pools |-> 0]
    /\ freed = [p \in Pools |-> 0]
    /\ failed = NoPool
    /\ destroyed = {}
    /\ permits = [p \in Pools |-> 0]
    /\ pc = [t \in Threads |-> "idle"]
    /\ served = [t \in Threads |-> 0]
    /\ conn = [t \in Threads |-> "none"]
    /\ text = [t \in Threads |-> <<>>]
    /\ parser = [t \in Threads |-> NewParser]
    /\ body = [t \in Threads |-> 0]
    /\ fields = [t \in Threads |-> NoFields]
    /\ cb = [t \in Threads |-> NoCallback]
    /\ res = [t \in Threads |-> NewResponse]
    /\ plan = [t \in Threads |-> <<>>]
    /\ hold = [t \in Threads |-> NoPool]
    /\ SingletonsInit /\ ordered \in Configs[config].orders

-----------------------------------------------------------------------------
(* main *)

InitEnv ==
    /\ phase = "start"
    /\ phase' = "pg"
    /\ environ' = Load(environ, Configs[config].file)
    /\ UNCHANGED <<config, workers, opened, freed, failed, destroyed, request,
                   work, pc, singletons>>

\* The constructor of a pool: a turn of its loop that connects
Connected(p) ==
    /\ phase = p /\ opened[p] < Size(p)
    /\ opened' = [opened EXCEPT ![p] = @ + 1]
    /\ UNCHANGED <<phase, config, environ, workers, freed, failed, destroyed,
                   request, work, pc, singletons>>

\* Slip: the connection is put in the pool before its status is looked at.
ConnectFailedPushed(p) ==
    /\ phase = p /\ opened[p] < Size(p)
    /\ opened' = [opened EXCEPT ![p] = @ + 1]
    /\ freed' = [freed EXCEPT ![p] = @ + 1]
    /\ failed' = p
    /\ phase' = "exiting"
    /\ UNCHANGED <<config, environ, workers, destroyed, request, work, pc, singletons>>

\* A turn that does not: the connections are freed and stay in the pool, and
\* main returns -1.
ConnectFailed(p) ==
    /\ phase = p /\ opened[p] < Size(p)
    /\ freed' = [freed EXCEPT ![p] = IF opened[p] > 0 THEN @ + 1 ELSE @]
    /\ failed' = p
    /\ phase' = "exiting"
    /\ UNCHANGED <<config, environ, workers, opened, destroyed, request, work,
                   pc, singletons>>

\* The end of the loop
PoolReady(p) ==
    /\ phase = p /\ opened[p] = Size(p)
    /\ permits' = [permits EXCEPT ![p] = Size(p)]
    /\ phase' = IF p = "pg" THEN "store" ELSE "server"
    /\ UNCHANGED <<config, environ, workers, opened, freed, failed, destroyed,
                   request, plan, hold, pc, singletons>>

\* server::server, and run starts the threads.
Run ==
    /\ phase = "server"
    /\ phase' = "serving"
    /\ workers' = CHOOSE W \in SUBSET Threads : Cardinality(W) = Threaded
    /\ UNCHANGED <<config, environ, opened, freed, failed, destroyed, request,
                   work, pc, singletons>>

\* The address cannot be resolved or bound: server::server throws, and main
\* catches it and returns.
BindFailed ==
    /\ phase = "server"
    /\ phase' = "exiting"
    /\ UNCHANGED <<config, environ, workers, opened, freed, failed, destroyed,
                   request, work, pc, singletons>>

\* do_await_stop, on a worker that is in no handler: stop_all destroys every
\* connection, those with a handler on another thread too.
Signal ==
    /\ phase = "serving"
    /\ \E t \in workers : pc[t] \in Waiting
    /\ phase' = "stopping"
    /\ conn' = [t \in Threads |-> IF pc[t] \in Waiting THEN "none" ELSE "dropped"]
    /\ UNCHANGED <<config, environ, workers, opened, freed, failed, destroyed, served, text,
                   parser, body, fields, cb, res, work, pc, singletons>>

\* Slip: run does not wait for the threads.
ReturnEarly ==
    /\ phase = "stopping" \/ (phase = "serving" /\ workers = {})
    /\ phase' = "exiting"
    /\ UNCHANGED <<config, environ, workers, opened, freed, failed, destroyed,
                   request, work, pc, singletons>>

\* server::run returns when every thread is done; without threads it returns at
\* once.
Return ==
    /\ phase = "stopping" \/ (phase = "serving" /\ workers = {})
    /\ \A t \in workers : pc[t] = "idle"
    /\ phase' = "exiting"
    /\ UNCHANGED <<config, environ, workers, opened, freed, failed, destroyed,
                   request, work, pc, singletons>>

\* ~Postgres, ~RedisStore: the static objects are destroyed when main has
\* returned.  A pool that was not built, or is empty, frees nothing.
Destroy(p) ==
    /\ phase = "exiting" /\ p \notin destroyed
    /\ destroyed' = destroyed \cup {p}
    /\ freed' = [freed EXCEPT ![p] = IF opened[p] > 0 THEN @ + 1 ELSE @]
    /\ phase' = IF destroyed' = Pools THEN "exited" ELSE phase
    /\ UNCHANGED <<config, environ, workers, opened, failed, request, work, pc,
                   singletons>>

-----------------------------------------------------------------------------
(* The workers *)

Running == phase \in {"serving", "stopping"}

Goto(t, from, to) ==
    /\ Running
    /\ pc[t] = from
    /\ pc' = [pc EXCEPT ![t] = to]

Accept(t) ==
    /\ phase = "serving" /\ t \in workers /\ served[t] < Configs[config].turns
    /\ Goto(t, "idle", "reading")
    /\ \E x \in Configs[config].texts : text' = [text EXCEPT ![t] = x]
    /\ served' = [served EXCEPT ![t] = @ + 1]
    /\ conn' = [conn EXCEPT ![t] = "first"]
    /\ parser' = [parser EXCEPT ![t] = NewParser]
    /\ body' = [body EXCEPT ![t] = 0]
    /\ fields' = [fields EXCEPT ![t] = NoFields]
    /\ cb' = [cb EXCEPT ![t] = NoCallback]
    /\ res' = [res EXCEPT ![t] = NewResponse]
    /\ UNCHANGED <<start, work, singletons>>

\* The answer was sent: the connection reads what its client has sent since, with
\* the parser, the fields and the response that the last request has left.
Again(t) ==
    /\ phase = "serving" /\ t \in workers /\ served[t] < Configs[config].turns
    /\ conn[t] \in {"first", "kept"}
    /\ Goto(t, "idle", "reading")
    /\ \E x \in Configs[config].more :
        text' = [text EXCEPT ![t] = SubSeq(@, parser[t].at + body[t] + 1, Len(@)) \o x]
    /\ served' = [served EXCEPT ![t] = @ + 1]
    /\ conn' = [conn EXCEPT ![t] = "kept"]
    /\ parser' = [parser EXCEPT ![t] = [@ EXCEPT !.at = 0, !.result = "indeterminate"]]
    /\ body' = [body EXCEPT ![t] = 0]
    /\ UNCHANGED <<start, fields, cb, res, work, singletons>>

\* A read of n tokens: parse, and read again if it is not done
Feed(t) ==
    /\ phase = "serving"
    /\ \E n \in Configs[config].reads \cup {Len(text[t]) - parser[t].at} :
        /\ n \in 1 .. Len(text[t]) - parser[t].at
        /\ LET from == parser[t].at
               p == Parse(parser[t], SubSeq(text[t], from + 1, from + n))
           IN  /\ parser' = [parser EXCEPT ![t] = p]
               /\ body' = [body EXCEPT ![t] = from + n - p.at]
               /\ Goto(t, "reading", IF p.result = "indeterminate" THEN "reading" ELSE "parsed")
    /\ UNCHANGED <<start, served, conn, text, fields, cb, res, work, singletons>>

\* The client leaves, or the server stops.
Hangup(t) ==
    /\ Goto(t, "reading", "idle")
    /\ conn' = [conn EXCEPT ![t] = "none"]
    /\ UNCHANGED <<start, served, text, parser, body, fields, cb, res, work, singletons>>

\* bad: the answer is 400; good: the loop over the headers
Dispatch(t) ==
    /\ Goto(t, "parsed", IF parser[t].result = "good" THEN "dispatched" ELSE "idle")
    /\ fields' = [fields EXCEPT ![t] = IF parser[t].result = "good"
                                       THEN TakeHeaders(@, parser[t].headers) ELSE @]
    /\ res' = [res EXCEPT ![t] = IF parser[t].result = "good" THEN @ ELSE StockResponse(400)]
    /\ UNCHANGED <<start, served, conn, text, parser, body, cb, work, singletons>>

\* What is read from a connection that was dropped is anything: its handler may
\* take any branch.
Dropped(t) == conn[t] = "dropped"

\* An exception leaves the handler and run.  main catches it on its own thread,
\* which is the one worker; on any other it ends the process.
Throw(t) ==
    /\ fields[t].thrown \/ Dropped(t)
    /\ Goto(t, "dispatched", "idle")
    /\ conn' = [conn EXCEPT ![t] = "none"]
    /\ phase' = IF Threaded = 1 THEN "exiting" ELSE "terminated"
    /\ UNCHANGED <<config, environ, workers, opened, freed, failed, destroyed, served, text,
                   parser, body, fields, cb, res, work, singletons>>

\* available() is not 0, more of the text being there: nothing more is begun.
Stuck(t) ==
    /\ (~fields[t].thrown /\ Len(text[t]) > parser[t].at + body[t]) \/ Dropped(t)
    /\ Goto(t, "dispatched", "idle")
    /\ conn' = [conn EXCEPT ![t] = "none"]
    /\ UNCHANGED <<start, served, text, parser, body, fields, cb, res, work, singletons>>

\* body_size > content_len: as an unsigned number a negative length is above all.
TooLong(t) == fields[t].length >= 0 /\ body[t] > fields[t].length

BodyTooLong(t) ==
    /\ (~fields[t].thrown /\ TooLong(t)) \/ Dropped(t)
    /\ Goto(t, "dispatched", "idle")
    /\ res' = [res EXCEPT ![t] = StockResponse(400)]
    /\ UNCHANGED <<start, served, conn, text, parser, body, fields, cb, work, singletons>>

HandleRequest(t) ==
    /\ (~fields[t].thrown /\ ~TooLong(t)) \/ Dropped(t)
    /\ Goto(t, "dispatched", "routed")
    /\ \E o \in IF Dropped(t) THEN UseCases \cup {NotFound}
                ELSE {Route(parser[t].method, parser[t].uri)} : cb' = [cb EXCEPT ![t] = o]
    /\ UNCHANGED <<start, served, conn, text, parser, body, fields, res, work, singletons>>

\* The handler of a dropped connection ends the process: it uses freed memory.
Fault(t) ==
    /\ Running /\ pc[t] # "idle" /\ Dropped(t)
    /\ phase' = "terminated"
    /\ UNCHANGED <<config, environ, workers, opened, freed, failed, destroyed,
                   request, work, pc, singletons>>

\* 404, or the callback: it gets its use case
Answer404(t) ==
    /\ cb[t] = NotFound
    /\ Goto(t, "routed", "idle")
    /\ res' = [res EXCEPT ![t] = SetStatus(@, 404)]
    /\ UNCHANGED <<start, served, conn, text, parser, body, fields, cb, work, singletons>>

CallBack(t) ==
    /\ cb[t] # NotFound
    /\ Goto(t, "routed", "calling")
    /\ Get(t, cb[t])
    /\ UNCHANGED <<start, request, work>>

\* The arguments of crypto are numbers of the environment, by stoul, which throws
\* where strtoul says 0.  One stands for the four.
CryptoThrows(t) ==
    at[t]["crypto"] = "build" /\ GetEnv(environ, "ARGONID", "2") \notin DOMAIN Numbers

\* The use case, crypto and what they need are got.
Getting(t) ==
    /\ Running /\ pc[t] \in {"calling", "executing"} /\ ~CryptoThrows(t)
    /\ \E o \in Objects : SingletonStep(t, o)
    /\ UNCHANGED <<start, request, work, pc>>

Execute(t) ==
    /\ Goto(t, "calling", "executing")
    /\ at[t][cb[t]] = "got"
    /\ plan' = [plan EXCEPT ![t] = Uses(cb[t])]
    /\ UNCHANGED <<start, request, hold, permits, singletons>>

Executing(t) == Running /\ pc[t] = "executing" /\ plan[t] # <<>>

\* Slip: a thread takes a connection without a permit.
AcquireUnchecked(t) ==
    /\ Executing(t) /\ hold[t] = NoPool
    /\ \E p \in Pools :
        /\ p = Head(plan[t])
        /\ permits' = [permits EXCEPT ![p] = @ - 1]
        /\ hold' = [hold EXCEPT ![t] = p]
    /\ UNCHANGED <<start, request, plan, pc, singletons>>

\* get_context, get_client
Acquire(t) ==
    /\ Executing(t) /\ hold[t] = NoPool
    /\ \E p \in Pools :
        /\ p = Head(plan[t]) /\ permits[p] > 0
        /\ permits' = [permits EXCEPT ![p] = @ - 1]
        /\ hold' = [hold EXCEPT ![t] = p]
    /\ UNCHANGED <<start, request, plan, pc, singletons>>

\* Slip: the permit is not given back.
ReleaseKept(t) ==
    /\ Executing(t) /\ hold[t] # NoPool
    /\ hold' = [hold EXCEPT ![t] = NoPool]
    /\ plan' = [plan EXCEPT ![t] = Tail(@)]
    /\ UNCHANGED <<start, request, permits, pc, singletons>>

\* The reply was read: release_context, release_client
Release(t) ==
    /\ Executing(t) /\ hold[t] # NoPool
    /\ permits' = [permits EXCEPT ![hold[t]] = @ + 1]
    /\ hold' = [hold EXCEPT ![t] = NoPool]
    /\ plan' = [plan EXCEPT ![t] = Tail(@)]
    /\ UNCHANGED <<start, request, pc, singletons>>

\* UserCrypto::hash, verify
GetCrypto(t) ==
    /\ Executing(t) /\ Head(plan[t]) = "crypto"
    /\ Get(t, "crypto")
    /\ UNCHANGED <<start, request, work, pc>>

UseCrypto(t) ==
    /\ Executing(t) /\ Head(plan[t]) = "crypto" /\ at[t]["crypto"] = "got"
    /\ plan' = [plan EXCEPT ![t] = Tail(@)]
    /\ UNCHANGED <<start, request, hold, permits, pc, singletons>>

\* The exception meets hash_password or verify_password, which are noexcept.
CryptoFails(t) ==
    /\ Running /\ pc[t] = "executing" /\ CryptoThrows(t)
    /\ phase' = "terminated"
    /\ UNCHANGED <<config, environ, workers, opened, freed, failed, destroyed,
                   request, work, pc, singletons>>

\* What a use case may make of the response r when it has n steps left: it ends
\* after its last one or early.  A text that is no constant of the code may be
\* empty.
UserAnswers(n, r) ==
    CASE n = 1 -> {SetStatus(r, 401)}
      [] n = 0 -> {SetStatus(r, 500),
                   SetStatus(SetContentType(SetBody(r, 1), "application/json"), 200)}
      [] OTHER -> {}

\* With an id, login stores the session.
LoginAnswers(n, r) ==
    CASE n = 4 -> {SetStatus(r, 403), SetStatus(r, 401)}
      [] n \in {2, 3} -> {SetStatus(r, 401)}
      [] n = 0 -> {SetStatus(AddCookie(r, 3600), 204)}
      [] OTHER -> {}

\* logout ends early when DEL was done.
LogoutAnswers(n, r) ==
    CASE n = 2 -> {SetStatus(r, 401)}
      [] n = 1 -> {SetStatus(AddCookie(r, 0), 204)}
      [] n = 0 -> {SetStatus(r, 500)}
      [] OTHER -> {}

RegisterAnswers(n, r) ==
    CASE n = 2 -> {SetStatus(r, 403), SetStatus(SetBody(r, 1), 400)}
      [] n = 1 -> {SetStatus(SetBody(r, 1), 400)}
      [] n = 0 -> {SetStatus(SetBody(r, 1), 201)} \cup {SetStatus(SetBody(r, k), 400) : k \in 0 .. 1}
      [] OTHER -> {}

Answers(o, n, r) ==
    CASE o = "get_user_auth" -> UserAnswers(n, r)
      [] o = "login_auth" -> LoginAnswers(n, r)
      [] o = "logout_auth" -> LogoutAnswers(n, r)
      [] o = "register_auth" -> RegisterAnswers(n, r)
      [] OTHER -> {}

\* The use case ends.
Respond(t) ==
    /\ Goto(t, "executing", "idle")
    /\ hold[t] = NoPool /\ at[t]["crypto"] \in {"out", "got"}
    /\ \E r \in Answers(cb[t], Len(plan[t]), res[t]) : res' = [res EXCEPT ![t] = r]
    /\ plan' = [plan EXCEPT ![t] = <<>>]
    /\ DropPointers(t)
    /\ UNCHANGED <<start, served, conn, text, parser, body, fields, cb, hold, permits>>

\* From the headers to the callback
FrontStep(t) ==
    \/ Dispatch(t)
    \/ Throw(t)
    \/ Stuck(t)
    \/ BodyTooLong(t)
    \/ HandleRequest(t)
    \/ Answer404(t)

\* The callback, to its answer
CallStep(t) ==
    \/ CallBack(t)
    \/ Getting(t)
    \/ Execute(t)
    \/ Acquire(t)
    \/ Release(t)
    \/ GetCrypto(t)
    \/ UseCrypto(t)
    \/ CryptoFails(t)
    \/ Respond(t)

Main ==
    \/ InitEnv
    \/ \E p \in Pools : Connected(p) \/ ConnectFailed(p) \/ PoolReady(p) \/ Destroy(p)
    \/ Run
    \/ BindFailed
    \/ Return

Next ==
    \/ Main
    \/ Signal
    \/ \E t \in Threads :
        \/ Accept(t) \/ Again(t) \/ Feed(t) \/ Hangup(t)
        \/ FrontStep(t) \/ CallStep(t) \/ Fault(t)

\* A thread that can go on with its callback does.  Clients and signals come when
\* they like.
Fairness == \A t \in Threads : WF_vars(CallStep(t))

Spec == Init /\ [][Next]_vars /\ Fairness

-----------------------------------------------------------------------------

TypeOK ==
    /\ phase \in Phases
    /\ config \in DOMAIN Configs
    /\ workers \subseteq Threads
    /\ opened \in [Pools -> Nat]
    /\ freed \in [Pools -> Nat]
    /\ failed \in Pools \cup {NoPool}
    /\ destroyed \subseteq Pools
    /\ permits \in [Pools -> Nat]
    /\ pc \in [Threads -> WorkerLabels]
    /\ served \in [Threads -> 0 .. Configs[config].turns]
    /\ conn \in [Threads -> {"none", "first", "kept", "dropped"}]
    /\ body \in [Threads -> Nat]
    /\ cb \in [Threads -> UseCases \cup {NoCallback}]
    /\ hold \in [Threads -> Pools \cup {NoPool}]
    /\ SingletonsTypeOK

\* What the parser has read of the request of t
Read(t) == SubSeq(text[t], 1, parser[t].at)

\* However the first request of a connection is cut into reads, parse says good
\* exactly at the end of its headers, with the method, the uri and the headers
\* that the text as a whole has; and it says bad only if no part of the text is
\* a request.
ParsedAsWritten ==
    \A t \in Threads : pc[t] = "parsed" /\ conn[t] = "first" =>
        IF parser[t].result = "good"
        THEN /\ Complete(Read(t))
             /\ parser[t].method = MethodOf(Read(t))
             /\ parser[t].uri = UriOf(Read(t))
             /\ parser[t].headers = HeadersOf(Read(t))
        ELSE \A s \in Prefixes(text[t]) : ~Complete(s)

\* A connection reads more of its first request only while something may come
\* that makes it complete: parse finds the first character that is wrong.  And
\* whenever consume is about to use headers.back(), for whichever request, there
\* is a header.
WaitsForSense ==
    \A t \in Threads : pc[t] = "reading" =>
        /\ conn[t] = "first" => \E s \in Tails : Complete(Read(t) \o s)
        /\ parser[t].state \in {"header_lws", "header_name", "space_before_header_value",
                                "header_value"} => parser[t].headers # <<>>

\* The handler of a first request whose headers come once each takes the session
\* of its cookie, wherever it stands among the others; it throws, and the process
\* ends, only on a length that is no int and on a cookie that ends in ";".
HeadersRead ==
    \A t \in Threads : pc[t] = "dispatched" /\ conn[t] = "first" =>
        LET hs == HeadersOf(Read(t))
            lengths == Values(hs, ContentLength)
            cookies == Values(hs, Cookie)
            once == \A i, j \in DOMAIN hs : hs[i].name = hs[j].name => i = j
        IN  (once /\ \A v \in cookies : Spaced(v)) =>
                /\ fields[t].thrown <=> \/ \E v \in lengths : ~IsNumber(v)
                                       \/ \E v \in cookies : EndsInSeparator(v)
                /\ fields[t].thrown \/
                        {fields[t].session} = {SessionIn(v) : v \in cookies \cup
                                                    IF cookies = {} THEN {<<>>} ELSE {}}

\* The callback called for a first request is that of the last route listed for
\* the method and the path, but for the character after the base path; and 404
\* means there is none.
RoutedRight ==
    \A t \in Threads : pc[t] = "routed" /\ conn[t] = "first" =>
        cb[t] = Listed(MethodOf(text[t]), UriOf(text[t]))

Named(parts, name) == {i \in DOMAIN parts : parts[i].name = name}

\* How the lengths of the response r are stated
FramedAs(r, refused) ==
    LET parts == ToBuffers(r)
        size == parts[Len(parts)].value
        lengths == Named(parts, "Content-Length")
    IN  /\ r.status = 204 => lengths = {} /\ size = 0
        /\ refused => \E i, j \in DOMAIN parts :
                i < j /\ lengths = {i, j} /\ parts[i].value = size /\ parts[j].value = 0
        /\ r.status # 204 /\ ~refused =>
                \E i \in DOMAIN parts : lengths = {i} /\ parts[i].value = size

\* A response states the length of its body, once and truly, and 204 has none of
\* either.  Two are stated by the answer to a first request that the parser refuses
\* or whose body is longer than it says: that of its text and, after it, the 0 of a
\* field that nobody has set.  A first answer gives or takes a session with 204
\* only.  A later answer, made of the response before it, still states the length of
\* its own body if no request of its connection was refused.
AnswerFramed ==
    \A t \in Threads : pc[t] = "idle" =>
        /\ conn[t] = "first" =>
            /\ FramedAs(res[t], parser[t].result = "bad" \/ TooLong(t))
            /\ Named(ToBuffers(res[t]), "Set-Cookie") # {} => res[t].status = 204
        /\ conn[t] = "kept" /\ res[t].headers = <<>> => FramedAs(res[t], FALSE)

\* A connection of a pool is freed once, though the constructor that fails frees
\* the ones it has opened and leaves them in the pool for the destructor: of
\* pools of one, the default, it has none yet.
FreedOnce ==
    \A p \in Pools : freed[p] > 1 => (failed = p /\ Size(p) > 1)

\* The pools outlive the handlers that use them.
UsedAlive == \A t \in Threads : pc[t] # "idle" => destroyed = {}

\* A handler that has got as far as its callback ends, unless it waits for a
\* connection of a pool that was given none.
HandlerReturns ==
    \A t \in Threads :
        (pc[t] \in {"calling", "executing"})
            ~> (pc[t] = "idle" \/ phase = "terminated" \/ \E p \in Pools : Size(p) = 0)
=============================================================================
