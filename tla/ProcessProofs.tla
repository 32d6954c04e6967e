---------------------------- MODULE ProcessProofs ----------------------------
(***************************************************************************)
(* Proofs about Process, for every configuration, number of threads and    *)
(* list of routes: the singletons are built once and before their use,     *)
(* however the threads meet; the pools are freed after the last use and    *)
(* once; the first request of a connection is parsed, its headers taken    *)
(* and its route found as its text and the list of routes say; and every   *)
(* answer, also that of a connection that was kept, is framed as the       *)
(* requests before it let it be.                                           *)
(***************************************************************************)
EXTENDS Process, SingletonsProofs, RequestProofs, FiniteSetTheorems

\* Where the threads are: only workers that run have a request, and as many
\* threads work as the server has started.
Placing ==
    /\ pc \in [Threads -> WorkerLabels]
    /\ phase \in Phases
    /\ workers \subseteq Threads
    /\ phase \in {"serving", "stopping"} => Cardinality(workers) = Threaded
    /\ destroyed # {} => phase \in {"exiting", "exited"}
    /\ \A t \in Threads : pc[t] # "idle" =>
            t \in workers /\ phase \in {"serving", "stopping", "terminated"}

\* The connections of a pool are freed by the constructor that fails and by the
\* destructor, if there are any.
Freeing ==
    /\ opened \in [Pools -> Nat]
    /\ freed \in [Pools -> Nat]
    /\ failed # NoPool => phase \in {"exiting", "exited"}
    /\ \A p \in Pools :
        /\ failed = p => opened[p] < Size(p)
        /\ freed[p] <= (IF failed = p /\ opened[p] > 0 THEN 1 ELSE 0)
                     + (IF p \in destroyed THEN 1 ELSE 0)

\* Which singletons a thread may be getting: before the use case runs, the use
\* case and what that needs; after that crypto.
MayHave(t, o) ==
    \/ at[t][o] = "out"
    \/ /\ pc[t] = "calling"
       /\ \/ at[t][o] = "got"
          \/ o = cb[t]
          \/ at[t][cb[t]] = "arguments" /\ o \in Needs(cb[t])
    \/ /\ pc[t] = "executing"
       /\ at[t][o] = "got" \/ o = "crypto"

Calling == \A t \in Threads, o \in Objects : MayHave(t, o)

Served == {"dispatched", "routed", "calling", "executing"}

Calls == {"routed", "calling", "executing"}

Connections == {"none", "first", "kept", "dropped"}

Responses == [
    status : Nat, headers : {<<>>, StockResponse(400).headers}, cookies : Seq(Nat),
    content : Nat, contentLength : Nat, contentType : {"application/json"}]

\* What a worker has of its connection
RequestTypes ==
    /\ conn \in [Threads -> Connections]
    /\ text \in [Threads -> Seq(Chars)]
    /\ parser \in [Threads -> Sound]
    /\ body \in [Threads -> Nat]
    /\ DOMAIN fields = Threads
    /\ cb \in [Threads -> UseCases \cup {NoCallback}]
    /\ res \in [Threads -> Responses]

\* A worker has parsed what its reads of a first request have brought as if it had
\* come at once.
Parsed(t) ==
    /\ parser[t].at \in 0 .. Len(text[t])
    /\ conn[t] = "first" => parser[t] = Parse(NewParser, SubSeq(text[t], 1, parser[t].at))
    /\ pc[t] = "reading" => parser[t].result = "indeterminate"
    /\ pc[t] = "parsed" => parser[t].result # "indeterminate"
    /\ pc[t] \in Served => parser[t].result = "good"

\* What it has of the headers of a first request is what the loop over them takes,
\* and it calls a callback only with a body that is not too long.
Taken(t) ==
    conn[t] = "first" =>
        /\ pc[t] \in {"reading", "parsed"} => fields[t] = NoFields
        /\ pc[t] = "dispatched" => fields[t] = TakeHeaders(NoFields, parser[t].headers)
        /\ pc[t] \in Calls => ~TooLong(t)

\* Its callback is that of the route listed for its request.
Routed(t) ==
    pc[t] \in Calls /\ conn[t] # "dropped" => cb[t] = Listed(parser[t].method, parser[t].uri)

\* A response as the callback o leaves it, however often it is called: its length is
\* that of its text, 204 has no text, and some callbacks give none at all.
Sized(r, o) ==
    /\ r.headers = <<>>
    /\ r.contentLength = r.content
    /\ r.status = 204 => r.content = 0
    /\ o \notin {"get_user_auth", "register_auth"} => r.content = 0

\* A response of one call: with 204 only there is a cookie.
Plain(r, o) == Sized(r, o) /\ (r.cookies # <<>> => r.status = 204)

\* The response to a first request is new until it is answered.  A later answer is
\* made of those before it.
Answered(t) ==
    /\ conn[t] = "first" =>
        IF pc[t] # "idle" THEN res[t] = NewResponse
        ELSE IF parser[t].result = "bad" \/ TooLong(t) THEN res[t] = StockResponse(400)
        ELSE Plain(res[t], cb[t])
    /\ conn[t] = "kept" /\ res[t].headers = <<>> => Sized(res[t], cb[t])

\* A connection that was answered, and none of its requests refused
Unrefused(t) ==
    /\ conn[t] = "kept" \/ (conn[t] = "first" /\ pc[t] = "idle")
    /\ res[t].headers = <<>>

\* Its parser is where its first request ended.  Whatever the next ones say, they call
\* the same callback.
Repeated(t) ==
    Unrefused(t) =>
        /\ parser[t].state = "expecting_newline_3"
        /\ cb[t] = Listed(parser[t].method, parser[t].uri)

RequestInv(t) == Parsed(t) /\ Taken(t) /\ Routed(t) /\ Answered(t) /\ Repeated(t)

\* The permits, and what is counted or is from a set of names
Counting ==
    /\ config \in DOMAIN Configs
    /\ failed \in Pools \cup {NoPool}
    /\ destroyed \subseteq Pools
    /\ permits \in [Pools -> Nat]
    /\ served \in [Threads -> 0 .. Configs[config].turns]
    /\ hold \in [Threads -> Pools \cup {NoPool}]

IInv ==
    /\ Placing /\ Freeing /\ Calling /\ SingletonsInv /\ Counting
    /\ RequestTypes /\ \A t \in Threads : RequestInv(t)

-----------------------------------------------------------------------------
(* The numbers of the configuration *)

LEMMA StrtoulNat == ASSUME NEW v PROVE Strtoul(v) \in Nat
<1>1. ASSUME NEW w \in {"0", "1", "2", "3"} PROVE Numbers[w] \in 0 .. 3
    <2>1. \E n \in 0 .. 3 : w = <<"0", "1", "2", "3">>[n + 1]
        <3>1. <<"0", "1", "2", "3">>[0 + 1] = "0" /\ <<"0", "1", "2", "3">>[1 + 1] = "1"
              /\ <<"0", "1", "2", "3">>[2 + 1] = "2" /\ <<"0", "1", "2", "3">>[3 + 1] = "3"
            OBVIOUS
        <3> QED
            BY <3>1
    <2>2. Numbers[w] = CHOOSE n \in 0 .. 3 : w = <<"0", "1", "2", "3">>[n + 1]
        BY DEF Numbers
    <2> QED
        BY <2>1, <2>2
<1>2. DOMAIN Numbers = {"0", "1", "2", "3"}
    BY DEF Numbers
<1> QED
    BY <1>1, <1>2 DEF Strtoul

LEMMA SizeNat == ASSUME NEW p PROVE Size(p) \in Nat
BY StrtoulNat DEF Size

LEMMA ThreadedBounded == Threaded \in 0 .. Cores
<1> DEFINE n == Strtoul(GetEnv(environ, "POOL", "1"))
<1>1. n \in Nat
    BY StrtoulNat
<1>2. Threaded = IF n > Cores THEN Cores ELSE n
    BY DEF Threaded
<1> HIDE DEF n
<1> QED
    BY <1>1, <1>2, PoolsAssumption

\* They stay while the environment does.
LEMMA NumbersKept ==
    ASSUME UNCHANGED environ
    PROVE  /\ Threaded' = Threaded
           /\ Size("pg")' = Size("pg") /\ Size("store")' = Size("store")
BY DEF Threaded, Size, GetEnv, Strtoul

-----------------------------------------------------------------------------
(* Placing *)

LEMMA InitPlacing == Init => Placing
BY DEF Init, Placing, WorkerLabels, Phases

\* A worker that goes on with its request
LEMMA MovePlacing ==
    ASSUME Placing, NEW t \in Threads, pc[t] # "idle", NEW to \in WorkerLabels,
           pc' = [pc EXCEPT ![t] = to], UNCHANGED start
    PROVE  Placing'
<1>1. Threaded' = Threaded
    BY NumbersKept DEF start
<1> QED
    BY <1>1 DEF Placing, start

\* A step of main that leaves the workers alone
LEMMA MainPlacing ==
    ASSUME Placing, UNCHANGED <<pc, environ, workers>>,
           phase' \in Phases, destroyed' # {} => phase' \in {"exiting", "exited"},
           \A t \in Threads : pc[t] = "idle" \/ phase' \in {"serving", "stopping"},
           phase' \in {"serving", "stopping"} => phase = "serving"
    PROVE  Placing'
<1>1. Threaded' = Threaded
    BY NumbersKept
<1> QED
    BY <1>1 DEF Placing

LEMMA ThrowPlacing ==
    ASSUME Placing, NEW t \in Threads, Throw(t)
    PROVE  Placing'
<1>1. /\ phase \in {"serving", "stopping"} /\ pc[t] = "dispatched"
      /\ pc' = [pc EXCEPT ![t] = "idle"]
      /\ phase' = IF Threaded = 1 THEN "exiting" ELSE "terminated"
      /\ UNCHANGED <<workers, destroyed>>
    BY DEF Throw, Goto, Running
<1>2. Threaded = 1 => \A s \in Threads : s # t => pc[s] = "idle"
    <2>1. SUFFICES ASSUME Threaded = 1 PROVE workers = {t}
        BY <2>1 DEF Placing
    <2>2. IsFiniteSet(workers) /\ Cardinality(workers) = 1
        BY <1>1, <2>1, ThreadsAssumption, FS_Subset DEF Placing
    <2>3. PICK x : workers = {x}
        BY <2>2, FS_Singleton
    <2> QED
        BY <1>1, <2>3 DEF Placing
<1>3. pc' \in [Threads -> WorkerLabels]
    BY <1>1 DEF Placing, WorkerLabels
<1>4. destroyed = {}
    BY <1>1 DEF Placing
<1>5. CASE Threaded = 1
    BY <1>1, <1>2, <1>3, <1>4, <1>5 DEF Placing, Phases
<1>6. CASE Threaded # 1
    BY <1>1, <1>3, <1>4, <1>6 DEF Placing, Phases
<1> QED
    BY <1>5, <1>6

LEMMA NextPlacing == Placing /\ [Next]_vars => Placing'
<1> SUFFICES ASSUME Placing, [Next]_vars PROVE Placing'
    OBVIOUS
<1>1. CASE InitEnv
    BY <1>1 DEF InitEnv, Placing, Phases, work, request
<1>2. ASSUME NEW p \in Pools, Connected(p) \/ ConnectFailed(p) PROVE Placing'
    <2>1. /\ phase \in Pools /\ phase' \in {phase, "exiting"}
          /\ UNCHANGED <<pc, environ, workers, destroyed>>
        BY <1>2 DEF Connected, ConnectFailed
    <2> QED
        BY <2>1 DEF Placing, Pools, Phases
<1>3. ASSUME NEW p \in Pools, PoolReady(p) PROVE Placing'
    BY <1>3 DEF PoolReady, Placing, Phases, Pools
<1>4. CASE Run
    <2>1. /\ phase = "server" /\ phase' = "serving"
          /\ workers' = CHOOSE W \in SUBSET Threads : Cardinality(W) = Threaded
          /\ UNCHANGED <<environ, destroyed, pc>>
        BY <1>4 DEF Run
    <2>2. Threaded' = Threaded
        BY <2>1, NumbersKept
    <2>3. workers' \in SUBSET Threads /\ Cardinality(workers') = Threaded
        BY <2>1, ThreadedBounded, ThreadsAssumption
    <2> QED
        BY <2>1, <2>2, <2>3 DEF Placing, Phases
<1>5. CASE BindFailed
    BY <1>5 DEF BindFailed, Placing, Phases
<1>6. CASE Signal
    <2>1. phase = "serving" /\ phase' = "stopping" /\ UNCHANGED <<pc, environ, workers, destroyed>>
        BY <1>6 DEF Signal
    <2> QED
        BY <2>1, MainPlacing DEF Placing, Phases
<1>7. CASE Return
    <2>1. /\ phase \in {"serving", "stopping"} /\ \A t \in workers : pc[t] = "idle"
          /\ phase' = "exiting" /\ UNCHANGED <<pc, environ, workers, destroyed>>
        BY <1>7 DEF Return
    <2> QED
        BY <2>1, MainPlacing DEF Placing, Phases
<1>8. ASSUME NEW p \in Pools, Destroy(p) PROVE Placing'
    <2>1. /\ phase = "exiting" /\ phase' \in {"exiting", "exited"}
          /\ UNCHANGED <<pc, environ, workers>>
        BY <1>8 DEF Destroy, work, request
    <2> QED
        BY <2>1, MainPlacing DEF Placing, Phases
<1>9. ASSUME NEW t \in Threads, Accept(t) \/ Again(t) PROVE Placing'
    <2>1. /\ phase = "serving" /\ t \in workers /\ UNCHANGED start
          /\ pc' = [pc EXCEPT ![t] = "reading"]
        BY <1>9 DEF Accept, Again, Goto
    <2>2. Threaded' = Threaded
        BY <2>1, NumbersKept DEF start
    <2> QED
        BY <2>1, <2>2 DEF Placing, start, WorkerLabels
<1>10. ASSUME NEW t \in Threads, Feed(t) PROVE Placing'
    <2>1. PICK to \in WorkerLabels :
                pc[t] = "reading" /\ pc' = [pc EXCEPT ![t] = to] /\ UNCHANGED start
        BY <1>10 DEF Feed, Goto, WorkerLabels
    <2> QED
        BY <2>1, MovePlacing
<1>11. ASSUME NEW t \in Threads,
             Hangup(t) \/ Dispatch(t) \/ Stuck(t) \/ BodyTooLong(t) \/ HandleRequest(t)
                \/ Answer404(t) \/ CallBack(t) \/ Execute(t) \/ Respond(t)
      PROVE  Placing'
    <2>1. PICK to \in WorkerLabels :
                pc[t] # "idle" /\ pc' = [pc EXCEPT ![t] = to] /\ UNCHANGED start
        BY <1>11 DEF Hangup, Dispatch, Stuck, BodyTooLong, HandleRequest, Answer404,
                    CallBack, Execute, Respond, Goto, WorkerLabels
    <2> QED
        BY <2>1, MovePlacing
<1>12. ASSUME NEW t \in Threads, Throw(t) PROVE Placing'
    BY <1>12, ThrowPlacing
<1>13. ASSUME UNCHANGED <<start, pc>> PROVE Placing'
    <2>1. Threaded' = Threaded
        BY <1>13, NumbersKept DEF start
    <2> QED
        BY <1>13, <2>1 DEF Placing, start
<1>14. ASSUME NEW t \in Threads,
              Getting(t) \/ Acquire(t) \/ Release(t) \/ GetCrypto(t) \/ UseCrypto(t)
       PROVE  Placing'
    BY <1>13, <1>14 DEF Getting, Acquire, Release, GetCrypto, UseCrypto
<1>15. ASSUME NEW t \in Threads, CryptoFails(t) \/ Fault(t) PROVE Placing'
    <2>1. /\ phase \in {"serving", "stopping"} /\ phase' = "terminated"
          /\ UNCHANGED <<pc, workers, destroyed>>
        BY <1>15 DEF CryptoFails, Fault, Running
    <2> QED
        BY <2>1 DEF Placing, Phases
<1>16. CASE UNCHANGED vars
    BY <1>13, <1>16 DEF vars
<1> QED
    BY <1>1, <1>2, <1>3, <1>4, <1>5, <1>6, <1>7, <1>8, <1>9, <1>10, <1>11, <1>12,
       <1>14, <1>15, <1>16
    DEF Next, Main, FrontStep, CallStep

-----------------------------------------------------------------------------
(* Freeing *)

LEMMA InitFreeing == Init => Freeing
BY PoolsAssumption DEF Init, Freeing

LEMMA FreeingKept ==
    ASSUME Freeing, UNCHANGED <<environ, opened, freed, failed, destroyed>>,
           phase \in {"exiting", "exited"} => phase' \in {"exiting", "exited"}
    PROVE  Freeing'
<1>1. \A p \in Pools : Size(p)' = Size(p)
    BY NumbersKept DEF Pools
<1> QED
    BY <1>1 DEF Freeing

LEMMA NextFreeing == Placing /\ Freeing /\ [Next]_vars => Freeing'
<1> SUFFICES ASSUME Placing, Freeing, [Next]_vars PROVE Freeing'
    OBVIOUS
<1>0. UNCHANGED environ => \A p \in Pools : Size(p)' = Size(p)
    BY NumbersKept DEF Pools
<1>1. CASE InitEnv
    <2>1. /\ phase = "start" /\ UNCHANGED <<opened, freed, failed, destroyed>>
        BY <1>1 DEF InitEnv
    <2>2. failed = NoPool
        BY <2>1 DEF Freeing
    <2>3. \A p \in Pools : failed # p
        BY <2>2, PoolsAssumption
    <2> QED
        BY <2>1, <2>2, <2>3 DEF Freeing
<1>2. ASSUME NEW p \in Pools, Connected(p) PROVE Freeing'
    <2>1. /\ phase = p /\ opened[p] < Size(p)
          /\ opened' = [opened EXCEPT ![p] = @ + 1]
          /\ UNCHANGED <<environ, phase, freed, failed, destroyed>>
        BY <1>2 DEF Connected
    <2>2. failed = NoPool
        BY <2>1 DEF Freeing, Pools
    <2> QED
        BY <1>0, <2>1, <2>2, PoolsAssumption DEF Freeing
<1>3. ASSUME NEW p \in Pools, ConnectFailed(p) PROVE Freeing'
    <2>1. /\ phase = p /\ opened[p] < Size(p)
          /\ freed' = [freed EXCEPT ![p] = IF opened[p] > 0 THEN @ + 1 ELSE @]
          /\ failed' = p /\ phase' = "exiting"
          /\ UNCHANGED <<environ, opened, destroyed>>
        BY <1>3 DEF ConnectFailed
    <2>2. failed = NoPool /\ destroyed = {}
        BY <2>1 DEF Freeing, Placing, Pools
    <2>3. \A q \in Pools : freed[q] = 0
        BY <2>2, PoolsAssumption DEF Freeing
    <2> QED
        BY <1>0, <2>1, <2>2, <2>3 DEF Freeing
<1>4. ASSUME NEW p \in Pools, Destroy(p) PROVE Freeing'
    <2>1. /\ p \notin destroyed /\ destroyed' = destroyed \cup {p}
          /\ freed' = [freed EXCEPT ![p] = IF opened[p] > 0 THEN @ + 1 ELSE @]
          /\ phase' \in {"exiting", "exited"}
          /\ UNCHANGED <<environ, opened, failed>>
        BY <1>4 DEF Destroy
    <2>2. \A q \in Pools : q # p => freed'[q] = freed[q] /\ (q \in destroyed' <=> q \in destroyed)
        BY <2>1 DEF Freeing
    <2> QED
        BY <1>0, <2>1, <2>2 DEF Freeing
<1>5. ASSUME UNCHANGED <<environ, opened, freed, failed, destroyed>>,
             phase \notin {"exiting", "exited"}
      PROVE  Freeing'
    BY <1>5, FreeingKept
<1>6. ASSUME NEW p \in Pools, PoolReady(p) PROVE Freeing'
    BY <1>5, <1>6 DEF PoolReady, Pools
<1>7. CASE Signal \/ Return \/ Run \/ BindFailed
    BY <1>5, <1>7 DEF Signal, Return, Run, BindFailed
<1>8. ASSUME NEW t \in Threads, Throw(t) \/ CryptoFails(t) \/ Fault(t) PROVE Freeing'
    BY <1>5, <1>8 DEF Throw, CryptoFails, Fault, Goto, Running
<1>9. CASE UNCHANGED start
    BY <1>9, FreeingKept, SMTT(40) DEF start
<1>10. ASSUME NEW t \in Threads,
              Accept(t) \/ Again(t) \/ Feed(t) \/ Hangup(t) \/ Dispatch(t) \/ Stuck(t)
                \/ BodyTooLong(t) \/ HandleRequest(t) \/ Answer404(t) \/ CallBack(t)
                \/ Getting(t) \/ Execute(t) \/ Acquire(t) \/ Release(t) \/ GetCrypto(t)
                \/ UseCrypto(t) \/ Respond(t)
       PROVE  Freeing'
    BY <1>9, <1>10 DEF Accept, Again, Feed, Hangup, Dispatch, Stuck, BodyTooLong,
        HandleRequest, Answer404, CallBack, Getting, Execute, Acquire, Release, GetCrypto, UseCrypto, Respond
<1>11. CASE UNCHANGED vars
    BY <1>9, <1>11 DEF vars
<1> QED
    BY <1>1, <1>2, <1>3, <1>4, <1>6, <1>7, <1>8, <1>10, <1>11
    DEF Next, Main, FrontStep, CallStep

-----------------------------------------------------------------------------
(* Calling *)

LEMMA InitCalling == Init => Calling /\ SingletonsInv
BY SingletonsInitInv DEF Init, Calling, MayHave, SingletonsInit

LEMMA NeedsOnly == \A x, o : o \in Needs(x) => x \in Objects /\ o = "user_db" /\ o # x
BY DEF Needs, Objects, UseCases

\* A worker that is in no callback goes on.
LEMMA FrontCalling ==
    ASSUME Calling, SingletonsInv, pc \in [Threads -> WorkerLabels],
           NEW t \in Threads, NEW to, pc[t] \notin {"calling", "executing"},
           pc' = [pc EXCEPT ![t] = to], UNCHANGED singletons,
           \A s \in Threads : s # t => cb'[s] = cb[s]
    PROVE  Calling' /\ SingletonsInv'
<1>1. SingletonsInv'
    BY DEF singletons, SingletonsInv, SingletonsTypeOK, Locking, Building
<1>2. UNCHANGED at
    BY DEF singletons
<1>3. \A o \in Objects : at[t][o] = "out"
    BY DEF Calling, MayHave
<1> QED
    BY <1>1, <1>2, <1>3 DEF Calling, MayHave

LEMMA StillCalling ==
    ASSUME Calling, SingletonsInv, UNCHANGED <<pc, cb, singletons>>
    PROVE  Calling' /\ SingletonsInv'
BY DEF Calling, MayHave, singletons, SingletonsInv, SingletonsTypeOK, Locking, Building

\* A get changes one entry, or none if there is no such object.
LEMMA GetChanges ==
    ASSUME SingletonsInv, NEW t \in Threads, NEW o, Get(t, o)
    PROVE  /\ \A s \in Threads, p \in Objects : (s # t \/ p # o) => at'[s][p] = at[s][p]
           /\ at[t][o] = "out"
           /\ o \notin Objects => at' = at
<1>1. at[t][o] = "out" /\ at' = [at EXCEPT ![t] = [at[t] EXCEPT ![o] = "check"]]
    BY DEF Get, Move
<1>2. at \in [Threads -> [Objects -> Labels]]
    BY DEF SingletonsInv, SingletonsTypeOK
<1>3. o \notin Objects => [at[t] EXCEPT ![o] = "check"] = at[t]
    BY <1>2
<1>4. o \notin Objects => at' = at
    BY <1>1, <1>2, <1>3
<1> QED
    BY <1>1, <1>2, <1>4

\* A step changes nothing for the other threads.
LEMMA OtherCalling ==
    ASSUME Calling, NEW s \in Threads, UNCHANGED <<pc[s], cb[s]>>,
           \A p \in Objects : at'[s][p] = at[s][p]
    PROVE  \A p \in Objects : MayHave(s, p)'
BY NeedsOnly DEF Calling, MayHave

LEMMA CallBackCalling ==
    ASSUME Calling, SingletonsInv, pc \in [Threads -> WorkerLabels],
           NEW t \in Threads, CallBack(t)
    PROVE  Calling' /\ SingletonsInv'
<1>1. /\ pc[t] = "routed" /\ pc' = [pc EXCEPT ![t] = "calling"] /\ UNCHANGED cb
      /\ Get(t, cb[t])
    BY DEF CallBack, Goto, request
<1>2. SingletonsInv'
    BY <1>1, GetInv
<1>3. \A s \in Threads, p \in Objects : (s # t \/ p # cb[t]) => at'[s][p] = at[s][p]
    BY <1>1, GetChanges
<1>4. \A o \in Objects : at[t][o] = "out"
    BY <1>1, NeedsOnly DEF Calling, MayHave
<1> QED
    BY <1>1, <1>2, <1>3, <1>4, NeedsOnly DEF Calling, MayHave

\* A step inside a function changes one entry, that of the object or, for an
\* argument, of one that it needs; and it leaves a label.
LEMMA StepChanges ==
    ASSUME SingletonsInv, NEW t \in Threads, NEW o \in Objects, SingletonStep(t, o)
    PROVE  /\ at[t][o] \notin {"out", "got"}
           /\ \/ /\ \A s \in Threads, p \in Objects : (s # t \/ p # o) => at'[s][p] = at[s][p]
                 /\ at[t][o] = "arguments" => \A n \in Needs(o) : at[t][n] = "got"
              \/ /\ at[t][o] = "arguments"
                 /\ \E n \in Needs(o) :
                    /\ n # o
                    /\ \A s \in Threads, p \in Objects :
                        (s # t \/ p # n) => at'[s][p] = at[s][p]
<1>0. at \in [Threads -> [Objects -> Labels]]
    BY DEF SingletonsInv, SingletonsTypeOK
<1>1. CASE Argument(t, o)
    <2>1. PICK n \in Needs(o) : Get(t, n)
        BY <1>1 DEF Argument
    <2>2. at[t][o] = "arguments" /\ n # o
        BY <1>1, <2>1, GetChanges DEF Argument
    <2> QED
        BY <2>1, <2>2, GetChanges
<1>2. CASE ArgumentsReady(t, o)
    <2>1. Move(t, o, "arguments", "build") /\ \A n \in Needs(o) : at[t][n] = "got"
        BY <1>2 DEF ArgumentsReady
    <2> QED
        BY <1>0, <2>1, MoveChanges DEF Labels
<1>3. CASE ~Argument(t, o) /\ ~ArgumentsReady(t, o)
    <2>1. PICK from \in {"check", "lock", "recheck", "build", "half", "unlock"}, to \in Labels :
                Move(t, o, from, to)
        BY <1>3 DEF SingletonStep, Check, Lock, Recheck, Build, Built, Unlock, Labels
    <2> QED
        BY <1>0, <2>1, MoveChanges
<1> QED
    BY <1>1, <1>2, <1>3

LEMMA GettingCalling ==
    ASSUME Calling, SingletonsInv, NEW t \in Threads, Getting(t)
    PROVE  Calling' /\ SingletonsInv'
<1>1. PICK o \in Objects : SingletonStep(t, o)
    BY DEF Getting
<1>2. pc[t] \in {"calling", "executing"} /\ UNCHANGED <<pc, cb>>
    BY DEF Getting, request
<1>3. SingletonsInv'
    BY <1>1, StepInv
<1>4. at[t][o] \notin {"out", "got"}
    BY <1>1, StepChanges
<1>5. CASE pc[t] = "executing"
    <2>1. o = "crypto"
        BY <1>4, <1>5, NeedsOnly DEF Calling, MayHave
    <2>2. Needs(o) = {}
        BY <2>1 DEF Needs
    <2>3. \A s \in Threads, p \in Objects : (s # t \/ p # o) => at'[s][p] = at[s][p]
        BY <1>1, <2>2, StepChanges
    <2>4. \A p \in Objects : MayHave(t, p)'
        <3>1. ASSUME NEW p \in Objects, p # o
              PROVE  at'[t][p] = "got" \/ at'[t][p] = "out"
            <4>1. at[t][p] = "got" \/ at[t][p] = "out"
                BY <1>5, <2>1, <3>1 DEF Calling, MayHave
            <4> QED
                BY <2>3, <3>1, <4>1
        <3>2. pc'[t] = "executing"
            BY <1>2, <1>5
        <3> QED
            BY <2>1, <3>1, <3>2 DEF MayHave
    <2>5. \A s \in Threads : s # t => \A p \in Objects : MayHave(s, p)'
        BY <1>2, <2>3, OtherCalling
    <2> QED
        BY <1>3, <2>4, <2>5 DEF Calling
<1>6. CASE pc[t] = "calling"
    <2>1. o = cb[t] \/ (at[t][cb[t]] = "arguments" /\ o \in Needs(cb[t]) /\ o # cb[t])
        BY <1>4, <1>6, NeedsOnly DEF Calling, MayHave
    <2>2. CASE o = cb[t]
        <3>1. CASE /\ \A s \in Threads, p \in Objects : (s # t \/ p # o) => at'[s][p] = at[s][p]
                   /\ at[t][o] = "arguments" => \A n \in Needs(o) : at[t][n] = "got"
            <4>1. \A p \in Objects : p # o => at[t][p] \in {"out", "got"}
                BY <1>6, <2>2, <3>1, NeedsOnly DEF Calling, MayHave
            <4> QED
                BY <1>2, <1>3, <1>6, <2>2, <3>1, <4>1, NeedsOnly DEF Calling, MayHave
        <3>2. CASE /\ at[t][o] = "arguments"
                   /\ \E n \in Needs(o) :
                        /\ n # o
                        /\ \A s \in Threads, p \in Objects :
                            (s # t \/ p # n) => at'[s][p] = at[s][p]
            BY <1>2, <1>3, <1>6, <2>2, <3>2, NeedsOnly DEF Calling, MayHave
        <3> QED
            BY <1>1, <3>1, <3>2, StepChanges
    <2>3. CASE at[t][cb[t]] = "arguments" /\ o \in Needs(cb[t]) /\ o # cb[t]
        <3>1. o = "user_db" /\ cb[t] \in Objects
            BY <2>3 DEF Needs, Objects, UseCases
        <3>2. Needs(o) = {}
            BY <3>1 DEF Needs
        <3>3. \A s \in Threads, p \in Objects : (s # t \/ p # o) => at'[s][p] = at[s][p]
            BY <1>1, <3>2, StepChanges
        <3>4. at'[t][cb[t]] = "arguments"
            BY <2>3, <3>1, <3>3
        <3>5. \A p \in Objects : MayHave(t, p)'
            BY <1>2, <1>6, <2>3, <3>3, <3>4 DEF Calling, MayHave
        <3>6. \A s \in Threads : s # t => \A p \in Objects : MayHave(s, p)'
            BY <1>2, <3>3, OtherCalling
        <3> QED
            BY <1>3, <3>5, <3>6 DEF Calling
    <2> QED
        BY <2>1, <2>2, <2>3
<1> QED
    BY <1>2, <1>5, <1>6

LEMMA ExecutingCalling ==
    ASSUME Calling, SingletonsInv, pc \in [Threads -> WorkerLabels], NEW t \in Threads,
           Execute(t) \/ GetCrypto(t) \/ Respond(t)
    PROVE  Calling' /\ SingletonsInv'
<1>1. CASE Execute(t)
    <2>1. /\ pc[t] = "calling" /\ pc' = [pc EXCEPT ![t] = "executing"]
          /\ at[t][cb[t]] = "got" /\ UNCHANGED <<cb, at, singletons>>
        BY <1>1 DEF Execute, Goto, request, singletons
    <2>2. SingletonsInv'
        BY <2>1 DEF singletons, SingletonsInv, SingletonsTypeOK, Locking, Building
    <2>3. \A o \in Objects : at[t][o] \in {"out", "got"}
        BY <2>1, NeedsOnly DEF Calling, MayHave
    <2> QED
        BY <2>1, <2>2, <2>3, NeedsOnly DEF Calling, MayHave
<1>2. CASE GetCrypto(t)
    <2>1. pc[t] = "executing" /\ Get(t, "crypto") /\ UNCHANGED <<pc, cb>>
        BY <1>2 DEF GetCrypto, Executing, request
    <2>2. SingletonsInv'
        BY <2>1, GetInv
    <2> QED
        BY <2>1, <2>2, GetChanges, NeedsOnly DEF Calling, MayHave
<1>3. CASE Respond(t)
    <2>1. /\ pc[t] = "executing" /\ pc' = [pc EXCEPT ![t] = "idle"]
          /\ at[t]["crypto"] \in {"out", "got"} /\ DropPointers(t) /\ UNCHANGED cb
        BY <1>3 DEF Respond, Goto, request
    <2>2. SingletonsInv'
        BY <2>1, DropPointersInv, NeedsOnly DEF Calling, MayHave
    <2>3. /\ \A o \in Objects : at'[t][o] = "out"
          /\ \A s \in Threads, o \in Objects : s # t => at'[s][o] = at[s][o]
        BY <2>1 DEF DropPointers, SingletonsInv, SingletonsTypeOK
    <2> QED
        BY <2>1, <2>2, <2>3, NeedsOnly DEF Calling, MayHave
<1> QED
    BY <1>1, <1>2, <1>3

LEMMA NextCalling == Placing /\ Calling /\ SingletonsInv /\ [Next]_vars
                        => Calling' /\ SingletonsInv'
<1> SUFFICES ASSUME Placing, Calling, SingletonsInv, [Next]_vars
             PROVE  Calling' /\ SingletonsInv'
    OBVIOUS
<1>0. pc \in [Threads -> WorkerLabels]
    BY DEF Placing
<1>1. ASSUME NEW t \in Threads, Accept(t) PROVE Calling' /\ SingletonsInv'
    <2>1. /\ pc[t] = "idle" /\ pc' = [pc EXCEPT ![t] = "reading"]
          /\ cb' = [cb EXCEPT ![t] = NoCallback] /\ UNCHANGED singletons
        BY <1>1 DEF Accept, Goto
    <2>2. \A s \in Threads : s # t => cb'[s] = cb[s]
        BY <2>1
    <2> QED
        BY <1>0, <2>1, <2>2, FrontCalling
<1>2. ASSUME NEW t \in Threads,
             Again(t) \/ Feed(t) \/ Hangup(t) \/ Dispatch(t) \/ Throw(t) \/ Stuck(t)
                \/ BodyTooLong(t) \/ Answer404(t)
      PROVE  Calling' /\ SingletonsInv'
    <2>1. PICK to : /\ pc[t] \notin {"calling", "executing"}
                    /\ pc' = [pc EXCEPT ![t] = to] /\ UNCHANGED <<cb, singletons>>
        BY <1>2 DEF Again, Feed, Hangup, Dispatch, Throw, Stuck, BodyTooLong, Answer404, Goto
    <2> QED
        BY <1>0, <2>1, FrontCalling
<1>3. ASSUME NEW t \in Threads, HandleRequest(t) PROVE Calling' /\ SingletonsInv'
    <2>1. /\ pc[t] = "dispatched" /\ pc' = [pc EXCEPT ![t] = "routed"]
          /\ UNCHANGED singletons
          /\ \A s \in Threads : s # t => cb'[s] = cb[s]
        BY <1>3 DEF HandleRequest, Goto
    <2> QED
        BY <1>0, <2>1, FrontCalling
<1>4. ASSUME NEW t \in Threads, CallBack(t) \/ Getting(t) \/ Execute(t) \/ GetCrypto(t) \/ Respond(t)
      PROVE  Calling' /\ SingletonsInv'
    BY <1>0, <1>4, CallBackCalling, GettingCalling, ExecutingCalling
<1>5. CASE UNCHANGED <<pc, cb, singletons>>
    BY <1>5, StillCalling
<1>6. ASSUME NEW t \in Threads,
             Acquire(t) \/ Release(t) \/ UseCrypto(t) \/ CryptoFails(t) \/ Fault(t)
      PROVE  Calling' /\ SingletonsInv'
    BY <1>5, <1>6 DEF Acquire, Release, UseCrypto, CryptoFails, Fault, request
<1>7. CASE Main \/ Signal
    BY <1>5, <1>7 DEF Main, Signal, InitEnv, Connected, ConnectFailed, PoolReady,
        Destroy, Run, BindFailed, Return, request
<1>8. CASE UNCHANGED vars
    BY <1>5, <1>8 DEF vars, request
<1> QED
    BY <1>1, <1>2, <1>3, <1>4, <1>6, <1>7, <1>8 DEF Next, FrontStep, CallStep

-----------------------------------------------------------------------------
(* The permits *)

LEMMA InitCounting == Init => Counting
<1> SUFFICES ASSUME Init PROVE Counting
    OBVIOUS
<1>1. config \in DOMAIN Configs /\ Configs[config].turns \in Nat
    BY TextsAssumption DEF Init
<1> QED
    BY <1>1 DEF Init, Counting

LEMMA NextCounting == Counting /\ [Next]_vars => Counting'
<1> SUFFICES ASSUME Counting, [Next]_vars PROVE Counting'
    OBVIOUS
<1>1. CASE UNCHANGED <<config, failed, destroyed, permits, served, hold>>
    BY <1>1 DEF Counting
<1>2. CASE InitEnv \/ Run \/ Return \/ Signal \/ \E p \in Pools : Connected(p)
    BY <1>1, <1>2 DEF InitEnv, Run, Return, Signal, Connected, request, work
<1>3. CASE BindFailed
    BY <1>1, <1>3 DEF BindFailed, request, work
<1>4. ASSUME NEW p \in Pools, ConnectFailed(p) PROVE Counting'
    BY <1>4 DEF ConnectFailed, request, work, Counting
<1>5. ASSUME NEW p \in Pools, PoolReady(p) PROVE Counting'
    BY <1>5, SizeNat DEF PoolReady, request, Counting
<1>6. ASSUME NEW p \in Pools, Destroy(p) PROVE Counting'
    BY <1>6 DEF Destroy, request, work, Counting
<1>7. ASSUME NEW t \in Threads, Accept(t) \/ Again(t) PROVE Counting'
    <2>1. /\ served[t] < Configs[config].turns
          /\ served' = [served EXCEPT ![t] = @ + 1]
          /\ UNCHANGED <<config, failed, destroyed, permits, hold>>
        BY <1>7 DEF Accept, Again, start, work
    <2>2. Configs[config].turns \in Nat /\ served[t] \in Nat
        BY TextsAssumption DEF Counting
    <2>3. served[t] + 1 \in 0 .. Configs[config].turns
        BY <2>1, <2>2
    <2> QED
        BY <2>1, <2>3 DEF Counting
<1>8. ASSUME NEW t \in Threads, Acquire(t) PROVE Counting'
    <2>1. PICK p \in Pools : /\ permits[p] > 0
                             /\ permits' = [permits EXCEPT ![p] = @ - 1]
                             /\ hold' = [hold EXCEPT ![t] = p]
        BY <1>8 DEF Acquire
    <2>2. UNCHANGED <<config, failed, destroyed, served>>
        BY <1>8 DEF Acquire, start, request
    <2>3. permits[p] - 1 \in Nat
        BY <2>1 DEF Counting
    <2> QED
        BY <2>1, <2>2, <2>3 DEF Counting
<1>9. ASSUME NEW t \in Threads, Release(t) PROVE Counting'
    <2>1. /\ hold[t] # NoPool
          /\ permits' = [permits EXCEPT ![hold[t]] = @ + 1]
          /\ hold' = [hold EXCEPT ![t] = NoPool]
          /\ UNCHANGED <<config, failed, destroyed, served>>
        BY <1>9 DEF Release, start, request
    <2>2. hold[t] \in Pools /\ permits[hold[t]] + 1 \in Nat
        BY <2>1 DEF Counting
    <2> QED
        BY <2>1, <2>2 DEF Counting
<1>10. ASSUME NEW t \in Threads,
              Feed(t) \/ Hangup(t) \/ Dispatch(t) \/ Throw(t) \/ Stuck(t) \/ BodyTooLong(t)
                \/ HandleRequest(t) \/ Answer404(t) \/ Fault(t)
       PROVE  Counting'
    BY <1>1, <1>10 DEF Feed, Hangup, Dispatch, Throw, Stuck, BodyTooLong, HandleRequest,
        Answer404, Fault, start, request, work
<1>11. ASSUME NEW t \in Threads,
              CallBack(t) \/ Getting(t) \/ Execute(t) \/ GetCrypto(t) \/ UseCrypto(t)
                \/ CryptoFails(t) \/ Respond(t)
       PROVE  Counting'
    BY <1>1, <1>11 DEF CallBack, Getting, Execute, GetCrypto, UseCrypto, CryptoFails,
        Respond, start, request, work
<1>12. CASE UNCHANGED vars
    BY <1>1, <1>12 DEF vars, start, request, work
<1> QED
    BY <1>2, <1>3, <1>4, <1>5, <1>6, <1>7, <1>8, <1>9, <1>10, <1>11, <1>12
    DEF Next, Main, FrontStep, CallStep

-----------------------------------------------------------------------------
(* The answers *)

\* Where the elements of a concatenation are
LEMMA Concatenated ==
    ASSUME NEW P, NEW s \in Seq(P), NEW u \in Seq(P)
    PROVE  /\ s \o u \in Seq(P) /\ Len(s \o u) = Len(s) + Len(u)
           /\ \A i \in 1 .. Len(s) : (s \o u)[i] = s[i]
           /\ \A i \in 1 .. Len(u) : (s \o u)[Len(s) + i] = u[i]
<1>1. /\ s \o u \in Seq(P) /\ Len(s \o u) = Len(s) + Len(u)
      /\ \A i \in 1 .. Len(s) + Len(u) : (s \o u)[i] = IF i <= Len(s) THEN s[i] ELSE u[i - Len(s)]
    BY ConcatProperties
<1>2. \A i \in 1 .. Len(s) : i \in 1 .. Len(s) + Len(u) /\ i <= Len(s)
    OBVIOUS
<1>3. \A i \in 1 .. Len(u) : /\ Len(s) + i \in 1 .. Len(s) + Len(u)
                             /\ ~(Len(s) + i <= Len(s)) /\ Len(s) + i - Len(s) = i
    OBVIOUS
<1> QED
    BY <1>1, <1>2, <1>3

\* The parts that a response of h headers, k cookies and e parts about its text
\* is sent as
Sends(r, h, k, e) ==
    LET parts == ToBuffers(r) IN
    /\ DOMAIN parts = 1 .. 2 + h + k + e /\ Len(parts) = 2 + h + k + e
    /\ parts[1] = Part("status", StatusLine(r.status))
    /\ \A i \in 1 .. h : parts[1 + i] = r.headers[i]
    /\ \A i \in 1 .. k : parts[1 + h + i] = Part("Set-Cookie", r.cookies[i])
    /\ e = 2 => /\ parts[2 + h + k] = Part("Content-Type", r.contentType)
                /\ parts[3 + h + k] = Part("Content-Length", r.contentLength)
    /\ parts[2 + h + k + e] = Part("content", r.content)

LEMMA BuffersOf ==
    ASSUME NEW r, NEW S, NEW T, r.headers \in Seq(S), r.cookies \in Seq(T)
    PROVE  Sends(r, Len(r.headers), Len(r.cookies), IF r.status = 204 THEN 0 ELSE 2)
<1> DEFINE h == Len(r.headers)
           k == Len(r.cookies)
           e == IF r.status = 204 THEN 0 ELSE 2
           A == <<Part("status", StatusLine(r.status))>>
           B == r.headers
           C == [i \in DOMAIN r.cookies |-> Part("Set-Cookie", r.cookies[i])]
           D == IF r.status = 204 THEN <<>>
                ELSE <<Part("Content-Type", r.contentType),
                       Part("Content-Length", r.contentLength)>>
           E == <<Part("content", r.content)>>
           P == {A[1]} \cup S \cup {Part("Set-Cookie", x) : x \in T}
                    \cup {Part("Content-Type", r.contentType),
                          Part("Content-Length", r.contentLength)} \cup {E[1]}
<1>1. h \in Nat /\ k \in Nat /\ e \in {0, 2}
    OBVIOUS
<1>2. A \in Seq(P) /\ Len(A) = 1 /\ A[1] = Part("status", StatusLine(r.status))
    OBVIOUS
<1>3. B \in Seq(P) /\ Len(B) = h /\ \A i \in 1 .. h : B[i] = r.headers[i]
    <2>1. S \subseteq P
        OBVIOUS
    <2> HIDE DEF P
    <2> QED
        BY <2>1, SeqMonotonic
<1>4. C \in Seq(P) /\ Len(C) = k /\ \A i \in 1 .. k : C[i] = Part("Set-Cookie", r.cookies[i])
    <2>1. \A i \in 1 .. k : r.cookies[i] \in T /\ Part("Set-Cookie", r.cookies[i]) \in P
        OBVIOUS
    <2>2. C = [i \in 1 .. k |-> Part("Set-Cookie", r.cookies[i])]
        OBVIOUS
    <2> HIDE DEF C, P
    <2> QED
        BY <1>1, <2>1, <2>2
<1>5. /\ D \in Seq(P) /\ Len(D) = e
      /\ e = 2 => /\ D[1] = Part("Content-Type", r.contentType)
                  /\ D[2] = Part("Content-Length", r.contentLength)
    <2>1. CASE r.status = 204
        BY <2>1
    <2>2. CASE r.status # 204
        <3>1. /\ Part("Content-Type", r.contentType) \in P
              /\ Part("Content-Length", r.contentLength) \in P
            OBVIOUS
        <3>2. D = <<Part("Content-Type", r.contentType), Part("Content-Length", r.contentLength)>>
            BY <2>2
        <3> HIDE DEF D, P
        <3> QED
            BY <2>2, <3>1, <3>2
    <2> QED
        BY <2>1, <2>2
<1>6. E \in Seq(P) /\ Len(E) = 1 /\ E[1] = Part("content", r.content)
    OBVIOUS
<1>7. ToBuffers(r) = A \o B \o C \o D \o E
    BY DEF ToBuffers
<1> HIDE DEF h, k, e, A, B, C, D, E, P
<1> DEFINE AB == A \o B
<1>8. /\ AB \in Seq(P) /\ Len(AB) = 1 + h /\ AB[1] = A[1]
      /\ \A i \in 1 .. h : AB[1 + i] = B[i]
    <2>1. /\ AB \in Seq(P) /\ Len(AB) = Len(A) + Len(B)
          /\ \A i \in 1 .. Len(A) : AB[i] = A[i]
          /\ \A i \in 1 .. Len(B) : AB[Len(A) + i] = B[i]
        <3>1. A \in Seq(P) /\ B \in Seq(P)
            BY <1>2, <1>3
        <3> QED
            BY <3>1, Concatenated
    <2> HIDE DEF AB
    <2> QED
        BY <2>1, <1>1, <1>2, <1>3
<1> HIDE DEF AB
<1> DEFINE ABC == AB \o C
<1>9. /\ ABC \in Seq(P) /\ Len(ABC) = 1 + h + k /\ \A i \in 1 .. 1 + h : ABC[i] = AB[i]
      /\ \A i \in 1 .. k : ABC[1 + h + i] = C[i]
    <2>1. /\ ABC \in Seq(P) /\ Len(ABC) = Len(AB) + Len(C)
          /\ \A i \in 1 .. Len(AB) : ABC[i] = AB[i]
          /\ \A i \in 1 .. Len(C) : ABC[Len(AB) + i] = C[i]
        <3>1. AB \in Seq(P) /\ C \in Seq(P)
            BY <1>4, <1>8
        <3> QED
            BY <3>1, Concatenated
    <2> HIDE DEF ABC
    <2> QED
        BY <2>1, <1>1, <1>4, <1>8
<1> HIDE DEF ABC
<1> DEFINE ABCD == ABC \o D
<1>10. /\ ABCD \in Seq(P) /\ Len(ABCD) = 1 + h + k + e
       /\ \A i \in 1 .. 1 + h + k : ABCD[i] = ABC[i]
       /\ \A i \in 1 .. e : ABCD[1 + h + k + i] = D[i]
    <2>1. /\ ABCD \in Seq(P) /\ Len(ABCD) = Len(ABC) + Len(D)
          /\ \A i \in 1 .. Len(ABC) : ABCD[i] = ABC[i]
          /\ \A i \in 1 .. Len(D) : ABCD[Len(ABC) + i] = D[i]
        <3>1. ABC \in Seq(P) /\ D \in Seq(P)
            BY <1>5, <1>9
        <3> QED
            BY <3>1, Concatenated
    <2> HIDE DEF ABCD
    <2> QED
        BY <2>1, <1>1, <1>5, <1>9
<1> HIDE DEF ABCD
<1> DEFINE parts == ABCD \o E
<1>11. /\ parts \in Seq(P) /\ Len(parts) = 1 + h + k + e + 1
       /\ \A i \in 1 .. 1 + h + k + e : parts[i] = ABCD[i]
       /\ \A i \in 1 .. 1 : parts[1 + h + k + e + i] = E[i]
    <2>1. /\ parts \in Seq(P) /\ Len(parts) = Len(ABCD) + Len(E)
          /\ \A i \in 1 .. Len(ABCD) : parts[i] = ABCD[i]
          /\ \A i \in 1 .. Len(E) : parts[Len(ABCD) + i] = E[i]
        <3>1. ABCD \in Seq(P) /\ E \in Seq(P)
            BY <1>6, <1>10
        <3> QED
            BY <3>1, Concatenated
    <2> HIDE DEF parts
    <2> QED
        BY <2>1, <1>1, <1>6, <1>10
<1>12. ToBuffers(r) = parts
    BY <1>7 DEF AB, ABC, ABCD
<1> HIDE DEF parts
<1>13. /\ DOMAIN parts = 1 .. 2 + h + k + e /\ Len(parts) = 2 + h + k + e
       /\ parts[2 + h + k + e] = E[1]
    <2>1. 1 + h + k + e + 1 = 2 + h + k + e
        BY <1>1
    <2> QED
        BY <1>11, <2>1
<1>14. parts[1] = A[1]
    <2>1. 1 \in 1 .. 1 + h /\ 1 \in 1 .. 1 + h + k /\ 1 \in 1 .. 1 + h + k + e
        BY <1>1
    <2> QED
        BY <2>1, <1>8, <1>9, <1>10, <1>11
<1>15. ASSUME NEW i \in 1 .. h PROVE parts[1 + i] = B[i]
    <2>1. 1 + i \in 1 .. 1 + h /\ 1 + i \in 1 .. 1 + h + k /\ 1 + i \in 1 .. 1 + h + k + e
        BY <1>1
    <2> QED
        BY <2>1, <1>8, <1>9, <1>10, <1>11
<1>16. ASSUME NEW i \in 1 .. k PROVE parts[1 + h + i] = C[i]
    <2>1. 1 + h + i \in 1 .. 1 + h + k /\ 1 + h + i \in 1 .. 1 + h + k + e
        BY <1>1
    <2> QED
        BY <2>1, <1>9, <1>10, <1>11
<1>17. ASSUME e = 2 PROVE parts[2 + h + k] = D[1] /\ parts[3 + h + k] = D[2]
    <2>1. /\ 1 + h + k + 1 \in 1 .. 1 + h + k + e /\ 1 + h + k + 1 = 2 + h + k /\ 1 \in 1 .. e
          /\ 1 + h + k + 2 \in 1 .. 1 + h + k + e /\ 1 + h + k + 2 = 3 + h + k /\ 2 \in 1 .. e
        BY <1>1, <1>17
    <2>2. parts[1 + h + k + 1] = D[1] /\ parts[1 + h + k + 2] = D[2]
        BY <2>1, <1>10, <1>11
    <2> QED
        BY <2>1, <2>2
<1>18. /\ parts[1] = Part("status", StatusLine(r.status))
       /\ parts[2 + h + k + e] = Part("content", r.content)
       /\ \A i \in 1 .. h : parts[1 + i] = r.headers[i]
       /\ \A i \in 1 .. k : parts[1 + h + i] = Part("Set-Cookie", r.cookies[i])
    BY <1>2, <1>3, <1>4, <1>6, <1>13, <1>14, <1>15, <1>16
<1>19. e = 2 => /\ parts[2 + h + k] = Part("Content-Type", r.contentType)
                /\ parts[3 + h + k] = Part("Content-Length", r.contentLength)
    BY <1>5, <1>17
<1>20. h = Len(r.headers) /\ k = Len(r.cookies) /\ e = IF r.status = 204 THEN 0 ELSE 2
    BY DEF h, k, e
<1> QED
    BY <1>12, <1>13, <1>18, <1>19, <1>20 DEF Sends

\* What a callback o may make, q, of a response r
Answer(r, q, o) ==
    /\ q \in Responses /\ q.headers = r.headers
    /\ Sized(r, o) => Sized(q, o)
    /\ r = NewResponse => Plain(q, o)

LEMMA NewInResponses == NewResponse \in Responses
<1>1. <<>> \in Seq(Nat)
    OBVIOUS
<1> QED
    BY <1>1 DEF NewResponse, Responses

LEMMA RecordInResponses ==
    ASSUME NEW s \in Nat, NEW h \in {<<>>, StockResponse(400).headers}, NEW n \in Nat, NEW l \in Nat
    PROVE  [status |-> s, headers |-> h, cookies |-> <<>>, content |-> n, contentLength |-> l,
            contentType |-> "application/json"] \in Responses
<1>1. <<>> \in Seq(Nat)
    OBVIOUS
<1> QED
    BY <1>1 DEF Responses

LEMMA StockHeaders ==
    /\ StockResponse(400) \in Responses
    /\ StockResponse(400).headers # <<>>
<1> DEFINE h == <<Part("Content-Length", 1), Part("Content-Type", "text/html")>>
           n == NewResponse
<1>1. StockResponse(400) = [n EXCEPT !.status = 400, !.content = 1, !.headers = h]
    BY DEF StockResponse
<1>2. h # <<>>
    OBVIOUS
<1> HIDE DEF h
<1>3. n = [status |-> 200, headers |-> <<>>, cookies |-> <<>>, content |-> 0, contentLength |-> 0,
           contentType |-> "application/json"]
    BY DEF NewResponse
<1> HIDE DEF n
<1>4. StockResponse(400) = [
        status |-> 400, headers |-> h, cookies |-> <<>>, content |-> 1, contentLength |-> 0,
        contentType |-> "application/json"]
    <2> DEFINE a == [n EXCEPT !.status = 400]
               b == [a EXCEPT !.content = 1]
               c == [b EXCEPT !.headers = h]
    <2>1. StockResponse(400) = c
        BY <1>1
    <2>2. a = [status |-> 400, headers |-> <<>>, cookies |-> <<>>, content |-> 0, contentLength |-> 0,
               contentType |-> "application/json"]
        BY <1>3
    <2> HIDE DEF a
    <2>3. b = [status |-> 400, headers |-> <<>>, cookies |-> <<>>, content |-> 1, contentLength |-> 0,
               contentType |-> "application/json"]
        BY <2>2
    <2> HIDE DEF b
    <2>4. c = [status |-> 400, headers |-> h, cookies |-> <<>>, content |-> 1, contentLength |-> 0,
               contentType |-> "application/json"]
        BY <2>3
    <2> QED
        BY <2>1, <2>4
<1>5. StockResponse(400).headers = h
    BY <1>4
<1> QED
    BY <1>2, <1>4, <1>5, RecordInResponses

LEMMA NewSized == \A o : Sized(NewResponse, o) /\ NewResponse.cookies = <<>>
BY DEF Sized, NewResponse

LEMMA StatusResponse ==
    ASSUME NEW r \in Responses, NEW s \in Nat
    PROVE  LET q == SetStatus(r, s) IN
           /\ q \in Responses /\ q.headers = r.headers /\ q.status = s /\ q.cookies = r.cookies
           /\ q.content = r.content /\ q.contentLength = r.contentLength
BY DEF SetStatus, Responses

LEMMA StatusAnswer ==
    ASSUME NEW r \in Responses, NEW o, NEW s \in {401, 403, 404, 500}
    PROVE  Answer(r, SetStatus(r, s), o)
<1> DEFINE q == SetStatus(r, s)
<1>1. /\ q \in Responses /\ q.headers = r.headers /\ q.status = s /\ q.cookies = r.cookies
      /\ q.content = r.content /\ q.contentLength = r.contentLength
    BY StatusResponse
<1> HIDE DEF q
<1>2. Answer(r, q, o)
    BY <1>1, NewSized DEF Answer, Sized, Plain
<1> QED
    BY <1>2 DEF q

LEMMA NotFoundAnswer ==
    ASSUME NEW r \in Responses, NEW o
    PROVE  Answer(r, SetStatus(r, 404), o)
BY StatusAnswer

LEMMA BodyResponse ==
    ASSUME NEW r \in Responses, NEW k \in 0 .. 1
    PROVE  LET b == SetBody(r, k) IN
           /\ b \in Responses /\ b.headers = r.headers /\ b.cookies = r.cookies
           /\ b.content = k /\ b.contentLength = k
<1> DEFINE a == [r EXCEPT !.content = k]
           b == [a EXCEPT !.contentLength = k]
<1>1. SetBody(r, k) = b
    BY DEF SetBody
<1>2. a \in Responses /\ a.headers = r.headers /\ a.cookies = r.cookies /\ a.content = k
    BY DEF Responses
<1> HIDE DEF a
<1>3. /\ b \in Responses /\ b.headers = r.headers /\ b.cookies = r.cookies
      /\ b.content = k /\ b.contentLength = k
    BY <1>2 DEF Responses
<1> QED
    BY <1>1, <1>3

\* The text is set, and the status after it.
LEMMA BodyAnswer ==
    ASSUME NEW r \in Responses, NEW o \in {"get_user_auth", "register_auth"},
           NEW k \in 0 .. 1, NEW s \in {200, 201, 400}, NEW b \in Responses,
           b.headers = r.headers, b.cookies = r.cookies, b.content = k, b.contentLength = k
    PROVE  Answer(r, SetStatus(b, s), o)
<1> DEFINE q == SetStatus(b, s)
<1>1. /\ q \in Responses /\ q.headers = r.headers /\ q.status = s /\ q.cookies = r.cookies
      /\ q.content = k /\ q.contentLength = k
    BY StatusResponse
<1> HIDE DEF q
<1>2. Answer(r, q, o)
    BY <1>1, NewSized DEF Answer, Sized, Plain
<1> QED
    BY <1>2 DEF q

LEMMA RegisterAnswer ==
    ASSUME NEW r \in Responses, NEW k \in 0 .. 1, NEW s \in {201, 400}
    PROVE  Answer(r, SetStatus(SetBody(r, k), s), "register_auth")
<1> DEFINE b == SetBody(r, k)
<1>1. /\ b \in Responses /\ b.headers = r.headers /\ b.cookies = r.cookies
      /\ b.content = k /\ b.contentLength = k
    BY BodyResponse
<1> HIDE DEF b
<1>2. Answer(r, SetStatus(b, s), "register_auth")
    BY <1>1, BodyAnswer
<1> QED
    BY <1>2 DEF b

LEMMA UserAnswer ==
    ASSUME NEW r \in Responses
    PROVE  Answer(r, SetStatus(SetContentType(SetBody(r, 1), "application/json"), 200), "get_user_auth")
<1> DEFINE b == SetBody(r, 1)
           c == SetContentType(b, "application/json")
<1>1. /\ b \in Responses /\ b.headers = r.headers /\ b.cookies = r.cookies
      /\ b.content = 1 /\ b.contentLength = 1
    BY BodyResponse
<1> HIDE DEF b
<1>2. /\ c \in Responses /\ c.headers = r.headers /\ c.cookies = r.cookies
      /\ c.content = 1 /\ c.contentLength = 1
    BY <1>1, SMTT(30) DEF SetContentType, Responses
<1> HIDE DEF c
<1>3. 1 \in 0 .. 1
    OBVIOUS
<1>4. Answer(r, SetStatus(c, 200), "get_user_auth")
    BY <1>2, <1>3, BodyAnswer
<1> QED
    BY <1>4 DEF b, c

LEMMA CookieAnswer ==
    ASSUME NEW r \in Responses, NEW o \in {"login_auth", "logout_auth"}, NEW a \in Nat
    PROVE  Answer(r, SetStatus(AddCookie(r, a), 204), o)
<1> DEFINE q == SetStatus(AddCookie(r, a), 204)
<1>1. Append(r.cookies, a) \in Seq(Nat)
    BY DEF Responses
<1>2. /\ q \in Responses /\ q.headers = r.headers /\ q.status = 204
      /\ q.content = r.content /\ q.contentLength = r.contentLength
    <2> DEFINE c == AddCookie(r, a)
    <2>1. /\ c \in Responses /\ c.headers = r.headers
          /\ c.content = r.content /\ c.contentLength = r.contentLength
        BY <1>1 DEF AddCookie, Responses
    <2> HIDE DEF c
    <2>2. /\ SetStatus(c, 204) \in Responses /\ SetStatus(c, 204).headers = r.headers
          /\ SetStatus(c, 204).status = 204 /\ SetStatus(c, 204).content = r.content
          /\ SetStatus(c, 204).contentLength = r.contentLength
        BY <2>1, StatusResponse
    <2> QED
        BY <2>2 DEF c
<1> HIDE DEF q
<1>3. ASSUME Sized(r, o) PROVE Plain(q, o)
    <2>1. r.headers = <<>> /\ r.contentLength = r.content /\ r.content = 0
        BY <1>3 DEF Sized
    <2> QED
        BY <1>2, <2>1 DEF Sized, Plain
<1>4. Answer(r, q, o)
    BY <1>2, <1>3, NewSized DEF Answer, Plain
<1> QED
    BY <1>4 DEF q

\* What a use case answers
LEMMA AnswersSized ==
    ASSUME NEW r \in Responses, NEW o, NEW n, NEW q \in Answers(o, n, r)
    PROVE  Answer(r, q, o)
<1>1. CASE o = "get_user_auth"
    <2>1. \/ q \in {SetStatus(r, 401), SetStatus(r, 500)}
          \/ q = SetStatus(SetContentType(SetBody(r, 1), "application/json"), 200)
        BY <1>1 DEF Answers, UserAnswers
    <2> QED
        BY <1>1, <2>1, StatusAnswer, UserAnswer
<1>2. CASE o = "login_auth"
    <2>1. \/ q \in {SetStatus(r, 401), SetStatus(r, 403)}
          \/ q = SetStatus(AddCookie(r, 3600), 204)
        BY <1>2 DEF Answers, LoginAnswers
    <2> QED
        BY <1>2, <2>1, StatusAnswer, CookieAnswer
<1>3. CASE o = "logout_auth"
    <2>1. \/ q \in {SetStatus(r, 401), SetStatus(r, 500)}
          \/ q = SetStatus(AddCookie(r, 0), 204)
        BY <1>3 DEF Answers, LogoutAnswers
    <2> QED
        BY <1>3, <2>1, StatusAnswer, CookieAnswer
<1>4. CASE o = "register_auth"
    <2>1. \/ q = SetStatus(r, 403)
          \/ \E k \in 0 .. 1, s \in {201, 400} : q = SetStatus(SetBody(r, k), s)
        <3>1. 1 \in 0 .. 1
            OBVIOUS
        <3> QED
            BY <1>4, <3>1 DEF Answers, RegisterAnswers
    <2> QED
        BY <1>4, <2>1, StatusAnswer, RegisterAnswer
<1>5. CASE o \notin {"get_user_auth", "login_auth", "logout_auth", "register_auth"}
    BY <1>5 DEF Answers
<1> QED
    BY <1>1, <1>2, <1>3, <1>4, <1>5

\* Where the parts of such a response are
LEMMA SizedParts ==
    ASSUME NEW r \in Responses, r.headers = <<>>
    PROVE  LET parts == ToBuffers(r)
               k == Len(r.cookies)
               e == IF r.status = 204 THEN 0 ELSE 2
           IN  /\ k \in Nat /\ DOMAIN parts = 1 .. 2 + k + e /\ Len(parts) = 2 + k + e
               /\ parts[1].name = "status"
               /\ \A i \in 2 .. 1 + k : parts[i].name = "Set-Cookie"
               /\ e = 2 => /\ parts[2 + k].name = "Content-Type"
                           /\ parts[3 + k].name = "Content-Length"
                           /\ parts[3 + k].value = r.contentLength
               /\ parts[2 + k + e].name = "content" /\ parts[2 + k + e].value = r.content
<1> DEFINE parts == ToBuffers(r)
           k == Len(r.cookies)
           e == IF r.status = 204 THEN 0 ELSE 2
<1>1. r.headers \in Seq({}) /\ Len(r.headers) = 0 /\ r.cookies \in Seq(Nat) /\ k \in Nat /\ e \in {0, 2}
    BY DEF Responses
<1>2. Sends(r, 0, k, e)
    BY <1>1, BuffersOf
<1>3. /\ DOMAIN parts = 1 .. 2 + 0 + k + e /\ Len(parts) = 2 + 0 + k + e
      /\ parts[1] = Part("status", StatusLine(r.status))
      /\ \A i \in 1 .. k : parts[1 + 0 + i] = Part("Set-Cookie", r.cookies[i])
      /\ e = 2 => /\ parts[2 + 0 + k] = Part("Content-Type", r.contentType)
                  /\ parts[3 + 0 + k] = Part("Content-Length", r.contentLength)
      /\ parts[2 + 0 + k + e] = Part("content", r.content)
    BY <1>2 DEF Sends
<1> HIDE DEF parts, k, e
<1>4. 2 + 0 + k + e = 2 + k + e /\ 2 + 0 + k = 2 + k /\ 3 + 0 + k = 3 + k
    BY <1>1
<1>5. ASSUME NEW i \in 2 .. 1 + k PROVE parts[i].name = "Set-Cookie"
    <2>1. i - 1 \in 1 .. k /\ 1 + 0 + (i - 1) = i
        BY <1>1
    <2>2. parts[1 + 0 + (i - 1)] = Part("Set-Cookie", r.cookies[i - 1])
        BY <1>3, <2>1
    <2>3. parts[i] = Part("Set-Cookie", r.cookies[i - 1])
        BY <2>1, <2>2
    <2> QED
        BY <2>3 DEF Part
<1>6. /\ k \in Nat /\ DOMAIN parts = 1 .. 2 + k + e /\ Len(parts) = 2 + k + e
      /\ parts[1].name = "status"
      /\ parts[2 + k + e].name = "content" /\ parts[2 + k + e].value = r.content
    BY <1>1, <1>3, <1>4 DEF Part
<1>7. e = 2 => /\ parts[2 + k].name = "Content-Type"
               /\ parts[3 + k].name = "Content-Length" /\ parts[3 + k].value = r.contentLength
    BY <1>3, <1>4 DEF Part
<1> QED
    BY <1>5, <1>6, <1>7 DEF parts, k, e

\* It is sent with its length once, or as 204 without one.
LEMMA SizedFramed ==
    ASSUME NEW r \in Responses, NEW o, Sized(r, o)
    PROVE  FramedAs(r, FALSE)
<1> DEFINE parts == ToBuffers(r)
           k == Len(r.cookies)
           e == IF r.status = 204 THEN 0 ELSE 2
<1>1. /\ k \in Nat /\ DOMAIN parts = 1 .. 2 + k + e /\ Len(parts) = 2 + k + e
      /\ parts[1].name = "status"
      /\ \A i \in 2 .. 1 + k : parts[i].name = "Set-Cookie"
      /\ e = 2 => /\ parts[2 + k].name = "Content-Type"
                  /\ parts[3 + k].name = "Content-Length"
                  /\ parts[3 + k].value = r.contentLength
      /\ parts[2 + k + e].name = "content" /\ parts[2 + k + e].value = r.content
    BY SizedParts DEF Sized
<1>2. r.contentLength = r.content /\ (r.status = 204 => r.content = 0)
    BY DEF Sized
<1> HIDE DEF parts, k
<1>3. CASE r.status = 204
    <2>1. e = 0 /\ 2 + k + 0 = 2 + k
        BY <1>1, <1>3
    <2>2. ASSUME NEW i \in 1 .. 2 + k PROVE parts[i].name # "Content-Length"
        <3>1. i = 1 \/ i \in 2 .. 1 + k \/ i = 2 + k + 0
            BY <1>1
        <3> QED
            BY <1>1, <2>1, <3>1
    <2>3. Named(parts, "Content-Length") = {}
        BY <1>1, <2>1, <2>2 DEF Named
    <2>4. parts[Len(parts)].value = 0
        BY <1>1, <1>2, <1>3
    <2> QED
        BY <1>3, <2>3, <2>4 DEF parts, FramedAs
<1>4. CASE r.status # 204
    <2>1. e = 2
        BY <1>4
    <2>2. /\ DOMAIN parts = 1 .. 4 + k /\ Len(parts) = 4 + k
          /\ parts[4 + k].name = "content" /\ parts[4 + k].value = r.content
          /\ 3 + k \in 1 .. 4 + k
        <3>1. 2 + k + 2 = 4 + k
            BY <1>1
        <3> QED
            BY <1>1, <2>1, <3>1
    <2>3. ASSUME NEW i \in 1 .. 4 + k, i # 3 + k PROVE parts[i].name # "Content-Length"
        <3>1. i = 1 \/ i \in 2 .. 1 + k \/ i = 2 + k \/ i = 4 + k
            BY <1>1, <2>3
        <3> QED
            BY <1>1, <2>1, <2>2, <3>1
    <2>4. Named(parts, "Content-Length") = {3 + k}
        BY <1>1, <2>1, <2>2, <2>3 DEF Named
    <2>5. parts[3 + k].value = parts[Len(parts)].value
        BY <1>1, <1>2, <2>1, <2>2
    <2> QED
        BY <1>4, <2>2, <2>4, <2>5 DEF parts, FramedAs
<1> QED
    BY <1>3, <1>4

\* Without a cookie none is sent.
LEMMA NoCookieSent ==
    ASSUME NEW r \in Responses, r.headers = <<>>, r.cookies = <<>>
    PROVE  Named(ToBuffers(r), "Set-Cookie") = {}
<1> DEFINE parts == ToBuffers(r)
           k == Len(r.cookies)
           e == IF r.status = 204 THEN 0 ELSE 2
<1>1. /\ DOMAIN parts = 1 .. 2 + k + e
      /\ parts[1].name = "status"
      /\ e = 2 => parts[2 + k].name = "Content-Type" /\ parts[3 + k].name = "Content-Length"
      /\ parts[2 + k + e].name = "content"
    BY SizedParts
<1>2. k = 0 /\ e \in {0, 2}
    OBVIOUS
<1> HIDE DEF parts, k, e
<1>3. ASSUME NEW i \in DOMAIN parts PROVE parts[i].name # "Set-Cookie"
    <2>1. CASE e = 0
        BY <1>1, <1>2, <2>1
    <2>2. CASE e = 2
        BY <1>1, <1>2, <2>2
    <2> QED
        BY <1>2, <2>1, <2>2
<1> QED
    BY <1>3 DEF Named, parts

\* The answer to a request that is refused states the length of its text and then 0.
LEMMA StockFramed ==
    LET r == StockResponse(400)
        parts == ToBuffers(r)
        size == parts[Len(parts)].value
    IN  /\ r.status = 400
        /\ \E i, j \in DOMAIN parts :
                /\ i < j /\ Named(parts, "Content-Length") = {i, j}
                /\ parts[i].value = size /\ parts[j].value = 0
        /\ Named(parts, "Set-Cookie") = {}
<1> DEFINE r == StockResponse(400)
           parts == ToBuffers(r)
           S == {Part("Content-Length", 1), Part("Content-Type", "text/html")}
<1>1. /\ r.status = 400 /\ r.cookies = <<>> /\ r.content = 1 /\ r.contentLength = 0
      /\ r.headers = <<Part("Content-Length", 1), Part("Content-Type", "text/html")>>
    BY DEF StockResponse, NewResponse
<1> HIDE DEF r
<1>2. /\ r.headers \in Seq(S) /\ Len(r.headers) = 2 /\ r.cookies \in Seq(Nat) /\ Len(r.cookies) = 0
      /\ r.headers[1] = Part("Content-Length", 1)
      /\ r.headers[2] = Part("Content-Type", "text/html")
    BY <1>1
<1>3. /\ DOMAIN parts = 1 .. 2 + 2 + 0 + 2 /\ Len(parts) = 2 + 2 + 0 + 2
      /\ parts[1] = Part("status", StatusLine(r.status))
      /\ \A i \in 1 .. 2 : parts[1 + i] = r.headers[i]
      /\ parts[2 + 2 + 0] = Part("Content-Type", r.contentType)
      /\ parts[3 + 2 + 0] = Part("Content-Length", r.contentLength)
      /\ parts[2 + 2 + 0 + 2] = Part("content", r.content)
    <2> HIDE DEF S
    <2>0. Sends(r, Len(r.headers), Len(r.cookies), IF r.status = 204 THEN 0 ELSE 2)
        BY <1>2, BuffersOf
    <2>1. Sends(r, 2, 0, 2)
        BY <1>1, <1>2, <2>0
    <2> QED
        BY <2>1 DEF Sends
<1> HIDE DEF parts, S
<1>4. parts[1 + 1] = r.headers[1] /\ parts[1 + 2] = r.headers[2]
    BY <1>3
<1>5. /\ DOMAIN parts = {1, 2, 3, 4, 5, 6} /\ Len(parts) = 6
      /\ parts[1].name = "status" /\ parts[2].name = "Content-Length"
      /\ parts[3].name = "Content-Type" /\ parts[4].name = "Content-Type"
      /\ parts[5].name = "Content-Length" /\ parts[6].name = "content"
      /\ parts[2].value = 1 /\ parts[5].value = 0 /\ parts[6].value = 1
    BY <1>1, <1>2, <1>3, <1>4 DEF Part
<1>6. Named(parts, "Content-Length") = {2, 5} /\ Named(parts, "Set-Cookie") = {}
    BY <1>5 DEF Named
<1>7. 2 \in DOMAIN parts /\ 5 \in DOMAIN parts /\ 2 < 5 /\ parts[2].value = parts[Len(parts)].value
    BY <1>5
<1> QED
    BY <1>1, <1>5, <1>6, <1>7, SMTT(30) DEF parts, r

-----------------------------------------------------------------------------
(* The request of a worker *)

LEMMA ListedRoute ==
    ASSUME NEW m, NEW u \in Seq(Chars)
    PROVE  Route(m, u) = Listed(m, u) /\ Listed(m, u) \in UseCases \cup {NoCallback}
<1>1. RoutesOver(Chars, UseCases)
    BY TextsAssumption DEF RoutesOver
<1>2. Route(m, u) = Listed(m, u)
    BY <1>1, RouteIsListed
<1>3. Callback(Tree, NodeOf(m, PathOf(u))) \in UseCases \cup {NoCallback}
    BY <1>1, RouteType, TreeHolds DEF LastFor
<1>4. Route(m, u) \in UseCases \cup {NoCallback}
    BY <1>3 DEF Route, NotFound, Callback
<1> QED
    BY <1>2, <1>4

\* Nothing of the request of t changes.
Same(t) ==
    UNCHANGED <<pc[t], conn[t], text[t], parser[t], body[t], fields[t], cb[t], res[t]>>

LEMMA SameRequest == ASSUME NEW t, RequestInv(t), Same(t) PROVE RequestInv(t)'
BY DEF RequestInv, Same, Parsed, Taken, Routed, Answered, Repeated, Unrefused, TooLong

\* What a step of the worker t has to keep
Keeps(t) ==
    /\ RequestTypes'
    /\ \A s \in Threads : s # t => Same(s)
    /\ RequestInv(t)'

LEMMA InitRequest == Init => RequestTypes /\ \A t \in Threads : RequestInv(t)
<1> SUFFICES ASSUME Init PROVE RequestTypes /\ \A t \in Threads : RequestInv(t)
    OBVIOUS
<1>1. NewParser \in Sound /\ NewParser.at = 0 /\ NewResponse \in Responses
    BY NewParserSound, NewInResponses DEF NewParser
<1>2. <<>> \in Seq(Chars) /\ Len(<<>>) = 0
    OBVIOUS
<1> HIDE DEF NewParser, NewResponse
<1>3. RequestTypes
    BY <1>1, <1>2 DEF Init, RequestTypes, Connections
<1>4. ASSUME NEW t \in Threads PROVE RequestInv(t)
    <2>1. /\ pc[t] = "idle" /\ conn[t] = "none" /\ text[t] = <<>> /\ parser[t] = NewParser
        BY DEF Init
    <2> QED
        BY <1>1, <1>2, <2>1
        DEF RequestInv, Parsed, Taken, Routed, Answered, Repeated, Unrefused, Served, Calls
<1> QED
    BY <1>3, <1>4

\* A handler that is left without an answer
LEMMA LeftRequest ==
    ASSUME Placing, RequestTypes, NEW t \in Threads, RequestInv(t),
           Hangup(t) \/ Throw(t) \/ Stuck(t)
    PROVE  Keeps(t)
<1>1. /\ pc' = [pc EXCEPT ![t] = "idle"] /\ conn' = [conn EXCEPT ![t] = "none"]
      /\ UNCHANGED <<text, parser, body, fields, cb, res>>
    BY DEF Hangup, Throw, Stuck, Goto
<1>2. RequestTypes' /\ \A s \in Threads : s # t => Same(s)
    BY <1>1 DEF RequestTypes, Placing, Connections, Same
<1>3. pc'[t] = "idle" /\ conn'[t] = "none" /\ UNCHANGED <<text[t], parser[t]>>
    BY <1>1 DEF RequestTypes, Placing
<1>4. RequestInv(t)'
    BY <1>3 DEF RequestInv, Parsed, Taken, Routed, Answered, Repeated, Unrefused, Served, Calls
<1> QED
    BY <1>2, <1>4 DEF Keeps

\* A handler that goes on with its callback
LEMMA CallRequest ==
    ASSUME Placing, RequestTypes, NEW t \in Threads, RequestInv(t), CallBack(t) \/ Execute(t)
    PROVE  Keeps(t)
<1>1. PICK to \in {"calling", "executing"} :
        /\ pc[t] \in {"routed", "calling"} /\ pc' = [pc EXCEPT ![t] = to]
        /\ UNCHANGED <<conn, text, parser, body, fields, cb, res>>
    BY DEF CallBack, Execute, Goto, request
<1>2. RequestTypes' /\ \A s \in Threads : s # t => Same(s)
    BY <1>1 DEF RequestTypes, Placing, Same
<1>3. /\ pc[t] \in {"routed", "calling"} /\ pc'[t] \in {"calling", "executing"}
      /\ UNCHANGED <<conn[t], text[t], parser[t], body[t], fields[t], cb[t], res[t]>>
    BY <1>1 DEF Placing
<1>4. RequestInv(t)'
    BY <1>3 DEF RequestInv, Parsed, Taken, Routed, Answered, Repeated, Unrefused, Served, Calls,
        TooLong
<1> QED
    BY <1>2, <1>4 DEF Keeps

LEMMA AcceptRequest ==
    ASSUME Placing, config \in DOMAIN Configs, RequestTypes, NEW t \in Threads, Accept(t)
    PROVE  Keeps(t)
<1>1. PICK x \in Configs[config].texts : text' = [text EXCEPT ![t] = x]
    BY DEF Accept
<1>2. /\ pc' = [pc EXCEPT ![t] = "reading"] /\ conn' = [conn EXCEPT ![t] = "first"]
      /\ parser' = [parser EXCEPT ![t] = NewParser] /\ body' = [body EXCEPT ![t] = 0]
      /\ fields' = [fields EXCEPT ![t] = NoFields] /\ cb' = [cb EXCEPT ![t] = NoCallback]
      /\ res' = [res EXCEPT ![t] = NewResponse]
    BY DEF Accept, Goto
<1>3. x \in Seq(Chars) /\ SubSeq(x, 1, 0) = <<>> /\ 0 \in 0 .. Len(x)
    BY TextsAssumption
<1>4. /\ NewParser \in Sound /\ NewParser.at = 0 /\ NewParser.result = "indeterminate"
      /\ NewResponse \in Responses
    BY NewParserSound, NewInResponses DEF NewParser
<1>5. NewParser = Parse(NewParser, <<>>)
    BY NewParserSound, ParseEmpty DEF NewParser
<1> HIDE DEF NewParser, NewResponse, NoFields
<1>6. RequestTypes' /\ \A s \in Threads : s # t => Same(s)
    BY <1>1, <1>2, <1>3, <1>4 DEF RequestTypes, Placing, Connections, Same
<1>7. /\ pc'[t] = "reading" /\ conn'[t] = "first" /\ text'[t] = x /\ parser'[t] = NewParser
      /\ fields'[t] = NoFields /\ res'[t] = NewResponse
    BY <1>1, <1>2 DEF RequestTypes, Placing
<1>8. Parsed(t)'
    BY <1>3, <1>4, <1>5, <1>7 DEF Parsed, Served
<1>9. RequestInv(t)'
    BY <1>7, <1>8 DEF RequestInv, Taken, Routed, Answered, Repeated, Unrefused, Calls
<1> QED
    BY <1>6, <1>9 DEF Keeps

LEMMA AgainRequest ==
    ASSUME Placing, config \in DOMAIN Configs, RequestTypes, NEW t \in Threads, RequestInv(t),
           Again(t)
    PROVE  Keeps(t)
<1> DEFINE y == text[t]
           from == parser[t].at + body[t]
           p == [parser[t] EXCEPT !.at = 0, !.result = "indeterminate"]
<1>1. PICK x \in Configs[config].more :
        text' = [text EXCEPT ![t] = SubSeq(y, from + 1, Len(y)) \o x]
    BY DEF Again
<1>2. /\ pc[t] = "idle" /\ conn[t] \in {"first", "kept"}
      /\ pc' = [pc EXCEPT ![t] = "reading"] /\ conn' = [conn EXCEPT ![t] = "kept"]
      /\ parser' = [parser EXCEPT ![t] = p] /\ body' = [body EXCEPT ![t] = 0]
      /\ UNCHANGED <<fields, cb, res>>
    BY DEF Again, Goto
<1> DEFINE z == SubSeq(y, from + 1, Len(y)) \o x
<1>3. z \in Seq(Chars)
    <2>1. x \in Seq(Chars)
        BY TextsAssumption
    <2>2. y \in Seq(Chars) /\ from \in Nat
        BY DEF RequestTypes, Sound, Parsers
    <2>3. SubSeq(y, from + 1, Len(y)) \in Seq(Chars)
        <3> HIDE DEF y, from
        <3> QED
            BY <2>2
    <2> QED
        BY <2>1, <2>3
<1>4. /\ p \in Sound /\ p.at = 0 /\ p.result = "indeterminate"
      /\ p.state = parser[t].state /\ p.method = parser[t].method /\ p.uri = parser[t].uri
    <2>1. parser[t] \in Parsers /\ (parser[t].state \in InHeader => parser[t].headers # <<>>)
        BY DEF RequestTypes, Sound
    <2> QED
        BY <2>1 DEF Sound, Parsers, Results
<1> HIDE DEF y, from, p, z
<1>5. text' = [text EXCEPT ![t] = z]
    BY <1>1 DEF z
<1>6. RequestTypes' /\ \A s \in Threads : s # t => Same(s)
    BY <1>2, <1>3, <1>4, <1>5 DEF RequestTypes, Placing, Connections, Same
<1>7. /\ pc'[t] = "reading" /\ conn'[t] = "kept" /\ text'[t] = z /\ parser'[t] = p
      /\ UNCHANGED <<cb[t], res[t]>>
    BY <1>2, <1>5 DEF RequestTypes, Placing
<1>8. Parsed(t)'
    <2>1. 0 \in 0 .. Len(z)
        BY <1>3
    <2> QED
        BY <1>4, <1>7, <2>1 DEF Parsed, Served
<1>9. ASSUME res[t].headers = <<>> PROVE Unrefused(t) /\ Sized(res[t], cb[t])
    <2>1. res[t] # StockResponse(400)
        BY <1>9, StockHeaders
    <2> QED
        BY <1>2, <1>9, <2>1 DEF Unrefused, RequestInv, Answered, Plain
<1>10. Answered(t)' /\ Repeated(t)'
    BY <1>4, <1>7, <1>9 DEF RequestInv, Answered, Repeated, Unrefused
<1> QED
    BY <1>6, <1>7, <1>8, <1>10 DEF Keeps, RequestInv, Taken, Routed, Calls

LEMMA FeedRequest ==
    ASSUME Placing, RequestTypes, NEW t \in Threads, RequestInv(t), Feed(t)
    PROVE  Keeps(t)
<1> DEFINE p == parser[t]
           from == p.at
           x == text[t]
<1>1. PICK n \in 1 .. Len(x) - from :
        LET q == Parse(p, SubSeq(x, from + 1, from + n)) IN
        /\ parser' = [parser EXCEPT ![t] = q]
        /\ body' = [body EXCEPT ![t] = from + n - q.at]
        /\ pc' = [pc EXCEPT ![t] = IF q.result = "indeterminate" THEN "reading" ELSE "parsed"]
    BY DEF Feed, Goto
<1>2. pc[t] = "reading" /\ UNCHANGED <<conn, text, fields, cb, res>>
    BY DEF Feed, Goto
<1>3. /\ p \in Sound /\ p.result = "indeterminate"
      /\ x \in Seq(Chars) /\ from \in 0 .. Len(x)
      /\ conn[t] = "first" => p = Parse(NewParser, SubSeq(x, 1, from))
    BY <1>2 DEF RequestTypes, RequestInv, Parsed
<1> DEFINE s == SubSeq(x, 1, from)
           r == SubSeq(x, from + 1, from + n)
           all == SubSeq(x, 1, from + n)
           q == Parse(p, r)
<1>4. from \in Nat /\ n \in Nat \ {0} /\ Len(x) \in Nat /\ from + n \in from .. Len(x)
    BY <1>3
<1>5. /\ s \in Seq(Chars) /\ r \in Seq(Chars) /\ all \in Seq(Chars) /\ Len(all) = from + n
      /\ s \o r = all /\ Len(r) = n
      /\ \A k \in 0 .. from + n : SubSeq(all, 1, k) = SubSeq(x, 1, k)
    <2>1. /\ s \in Seq(Chars) /\ r \in Seq(Chars) /\ all \in Seq(Chars) /\ Len(all) = from + n
          /\ s \o r = all
          /\ \A k \in 0 .. from + n : SubSeq(all, 1, k) = SubSeq(x, 1, k)
        <3> HIDE DEF x, from
        <3> QED
            BY <1>3, <1>4, CutInTwo, SMTT(30)
    <2>2. Len(r) = n
        <3> HIDE DEF x, from
        <3> QED
            BY <1>3, <1>4
    <2> QED
        BY <2>1, <2>2
<1>6. q \in Sound /\ q.at \in from .. from + n
    <2> HIDE DEF p, r
    <2>1. q.at \in p.at .. p.at + Len(r)
        BY <1>3, <1>5, ParseCountsOn
    <2> QED
        BY <1>3, <1>5, <2>1, ParseSound DEF from
<1>7. q.at \in 0 .. Len(x) /\ from + n - q.at \in Nat
    <2> HIDE DEF q, x, from
    <2> QED
        BY <1>4, <1>6
<1>8. conn[t] = "first" => q = Parse(NewParser, SubSeq(x, 1, q.at))
    <2> SUFFICES ASSUME conn[t] = "first" PROVE q = Parse(NewParser, SubSeq(x, 1, q.at))
        OBVIOUS
    <2>1. p = Parse(NewParser, s)
        BY <1>3
    <2> HIDE DEF p, s, r, all
    <2>2. q = Parse(NewParser, all)
        BY <1>3, <1>5, <2>1, NewParserSound, ParseOnwards
    <2> HIDE DEF q
    <2>3. q.at \in 0 .. from + n /\ q = Parse(NewParser, SubSeq(all, 1, q.at))
        BY <1>5, <2>2, ParseCounts
    <2> QED
        BY <1>5, <2>3
<1>9. p.state = "expecting_newline_3" => AtEnd(p, q)
    <2> HIDE DEF p, r
    <2> QED
        BY <1>3, <1>5, ParseAtEnd
<1>10. /\ parser' = [parser EXCEPT ![t] = q] /\ body' = [body EXCEPT ![t] = from + n - q.at]
       /\ pc' = [pc EXCEPT ![t] = IF q.result = "indeterminate" THEN "reading" ELSE "parsed"]
    BY <1>1
<1> HIDE DEF q, all, s, r
<1>11. RequestTypes' /\ \A u \in Threads : u # t => Same(u)
    <2> HIDE DEF from
    <2> QED
        BY <1>2, <1>6, <1>7, <1>10 DEF RequestTypes, Placing, Same
<1>12. /\ parser'[t] = q /\ pc'[t] = IF q.result = "indeterminate" THEN "reading" ELSE "parsed"
       /\ UNCHANGED <<conn[t], text[t], fields[t], cb[t], res[t]>>
    BY <1>2, <1>10 DEF RequestTypes, Placing
<1>13. Parsed(t)'
    BY <1>7, <1>8, <1>12 DEF Parsed, Served
<1>14. Taken(t)' /\ Routed(t)' /\ Answered(t)'
    BY <1>2, <1>12 DEF RequestInv, Taken, Routed, Answered, Calls
<1>15. Repeated(t)'
    BY <1>2, <1>9, <1>12 DEF RequestInv, Repeated, Unrefused, AtEnd
<1> QED
    BY <1>11, <1>13, <1>14, <1>15 DEF Keeps, RequestInv

LEMMA DispatchRequest ==
    ASSUME Placing, RequestTypes, NEW t \in Threads, RequestInv(t), Dispatch(t)
    PROVE  Keeps(t)
<1>1. pc[t] = "parsed" /\ UNCHANGED <<conn, text, parser, body, cb>>
    BY DEF Dispatch, Goto
<1>2. parser[t].result \in {"good", "bad"}
    <2>1. parser[t] \in Sound /\ parser[t].result # "indeterminate"
        BY <1>1 DEF RequestTypes, RequestInv, Parsed
    <2> QED
        BY <2>1 DEF Sound, Parsers, Results
<1>3. CASE parser[t].result = "good"
    <2>1. /\ pc' = [pc EXCEPT ![t] = "dispatched"] /\ res' = [res EXCEPT ![t] = res[t]]
          /\ fields' = [fields EXCEPT ![t] = TakeHeaders(fields[t], parser[t].headers)]
        BY <1>3 DEF Dispatch, Goto
    <2>2. RequestTypes' /\ \A s \in Threads : s # t => Same(s)
        BY <1>1, <2>1 DEF RequestTypes, Placing, Same
    <2>3. /\ pc'[t] = "dispatched" /\ fields'[t] = TakeHeaders(fields[t], parser[t].headers)
          /\ UNCHANGED <<conn[t], text[t], parser[t], cb[t], res[t]>>
        BY <1>1, <2>1 DEF RequestTypes, Placing
    <2>4. RequestInv(t)'
        BY <1>1, <1>3, <2>3 DEF RequestInv, Parsed, Taken, Routed, Answered, Repeated, Unrefused, Calls
    <2> QED
        BY <2>2, <2>4 DEF Keeps
<1>4. CASE parser[t].result = "bad"
    <2>1. /\ pc' = [pc EXCEPT ![t] = "idle"] /\ res' = [res EXCEPT ![t] = StockResponse(400)]
          /\ fields' = [fields EXCEPT ![t] = fields[t]]
        BY <1>4 DEF Dispatch, Goto
    <2> HIDE DEF StockResponse
    <2>2. RequestTypes' /\ \A s \in Threads : s # t => Same(s)
        BY <1>1, <2>1, StockHeaders DEF RequestTypes, Placing, Same
    <2>3. /\ pc'[t] = "idle" /\ res'[t] = StockResponse(400)
          /\ UNCHANGED <<conn[t], text[t], parser[t]>>
        BY <1>1, <2>1 DEF RequestTypes, Placing
    <2>4. RequestInv(t)'
        BY <1>1, <1>4, <2>3, StockHeaders
        DEF RequestInv, Parsed, Taken, Routed, Answered, Repeated, Unrefused, Served, Calls
    <2> QED
        BY <2>2, <2>4 DEF Keeps
<1> QED
    BY <1>2, <1>3, <1>4

LEMMA BodyTooLongRequest ==
    ASSUME Placing, RequestTypes, NEW t \in Threads, RequestInv(t), BodyTooLong(t)
    PROVE  Keeps(t)
<1>1. /\ TooLong(t) \/ conn[t] = "dropped"
      /\ pc' = [pc EXCEPT ![t] = "idle"] /\ res' = [res EXCEPT ![t] = StockResponse(400)]
      /\ UNCHANGED <<conn, text, parser, body, fields, cb>>
    BY DEF BodyTooLong, Dropped, Goto
<1> HIDE DEF StockResponse
<1>2. RequestTypes' /\ \A s \in Threads : s # t => Same(s)
    BY <1>1, StockHeaders DEF RequestTypes, Placing, Same
<1>3. /\ pc'[t] = "idle" /\ res'[t] = StockResponse(400)
      /\ UNCHANGED <<conn[t], text[t], parser[t], body[t], fields[t]>>
    BY <1>1 DEF RequestTypes, Placing
<1>4. RequestInv(t)'
    BY <1>1, <1>3, StockHeaders
    DEF RequestInv, Parsed, Taken, Routed, Answered, Repeated, Unrefused, Served, Calls, TooLong
<1> QED
    BY <1>2, <1>4 DEF Keeps

LEMMA HandleRequestRequest ==
    ASSUME Placing, RequestTypes, NEW t \in Threads, RequestInv(t), HandleRequest(t)
    PROVE  Keeps(t)
<1> DEFINE o == Listed(parser[t].method, parser[t].uri)
<1>1. PICK c \in IF Dropped(t) THEN UseCases \cup {NotFound}
                 ELSE {Route(parser[t].method, parser[t].uri)} : cb' = [cb EXCEPT ![t] = c]
    BY DEF HandleRequest
<1>2. /\ pc[t] = "dispatched" /\ pc' = [pc EXCEPT ![t] = "routed"]
      /\ ~TooLong(t) \/ Dropped(t)
      /\ UNCHANGED <<conn, text, parser, body, fields, res>>
    BY DEF HandleRequest, Goto
<1>3. c \in UseCases \cup {NoCallback} /\ (conn[t] # "dropped" => c = o)
    <2>1. parser[t].uri \in Seq(Chars)
        BY DEF RequestTypes, Sound, Parsers
    <2>2. o \in UseCases \cup {NoCallback} /\ Route(parser[t].method, parser[t].uri) = o
        BY <2>1, ListedRoute
    <2> QED
        BY <1>1, <2>2 DEF Dropped, NotFound
<1> HIDE DEF o
<1>4. RequestTypes' /\ \A s \in Threads : s # t => Same(s)
    BY <1>1, <1>2, <1>3 DEF RequestTypes, Placing, Same
<1>5. /\ pc'[t] = "routed" /\ cb'[t] = c
      /\ UNCHANGED <<conn[t], text[t], parser[t], body[t], fields[t], res[t]>>
    BY <1>1, <1>2 DEF RequestTypes, Placing
<1>6. Parsed(t)' /\ Taken(t)' /\ Routed(t)'
    BY <1>2, <1>3, <1>5 DEF RequestInv, Parsed, Taken, Routed, Served, Calls, TooLong, Dropped, o
<1>7. Answered(t)' /\ Repeated(t)'
    BY <1>2, <1>3, <1>5 DEF RequestInv, Answered, Repeated, Unrefused, o
<1> QED
    BY <1>4, <1>6, <1>7 DEF Keeps, RequestInv

\* The callback has answered with r, or there is none.
LEMMA AnswerRequest ==
    ASSUME Placing, RequestTypes, NEW t \in Threads, RequestInv(t), pc[t] \in Calls,
           pc' = [pc EXCEPT ![t] = "idle"], NEW r, Answer(res[t], r, cb[t]),
           res' = [res EXCEPT ![t] = r], UNCHANGED <<conn, text, parser, body, fields, cb>>
    PROVE  Keeps(t)
<1>1. r \in Responses /\ r.headers = res[t].headers
    BY DEF Answer, RequestTypes
<1>2. RequestTypes' /\ \A s \in Threads : s # t => Same(s)
    BY <1>1 DEF RequestTypes, Placing, Same
<1>3. /\ pc'[t] = "idle" /\ res'[t] = r
      /\ UNCHANGED <<conn[t], text[t], parser[t], body[t], fields[t], cb[t]>>
    BY DEF RequestTypes, Placing
<1>4. Parsed(t)' /\ Taken(t)' /\ Routed(t)'
    BY <1>3 DEF RequestInv, Parsed, Taken, Routed, Served, Calls
<1>5. Answered(t)'
    <2>1. ASSUME conn[t] = "first" PROVE Plain(r, cb[t]) /\ ~(parser[t].result = "bad" \/ TooLong(t))
        <3>1. res[t] = NewResponse
            BY <2>1 DEF RequestInv, Answered, Calls
        <3>2. parser[t].result # "bad"
            BY DEF RequestInv, Parsed, Served, Calls
        <3> QED
            BY <2>1, <3>1, <3>2 DEF Answer, RequestInv, Taken
    <2>2. ASSUME conn[t] = "kept", r.headers = <<>> PROVE Sized(r, cb[t])
        BY <1>1, <2>2 DEF Answer, RequestInv, Answered
    <2> QED
        BY <1>3, <2>1, <2>2 DEF Answered, TooLong
<1>6. Repeated(t)'
    <2>1. CASE conn[t] = "kept"
        BY <1>1, <1>3, <2>1 DEF RequestInv, Repeated, Unrefused
    <2>2. CASE conn[t] = "first"
        <3>1. cb[t] = Listed(parser[t].method, parser[t].uri)
            BY <2>2 DEF RequestInv, Routed
        <3>2. parser[t].result = "good" /\ parser[t] = Parse(NewParser, SubSeq(text[t], 1, parser[t].at))
              /\ parser[t].at \in 0 .. Len(text[t]) /\ text[t] \in Seq(Chars)
            BY <2>2 DEF RequestTypes, RequestInv, Parsed, Served, Calls
        <3> DEFINE u == SubSeq(text[t], 1, parser[t].at)
        <3>3. u \in Seq(Chars)
            BY <3>2
        <3> HIDE DEF u
        <3>4. Parse(NewParser, u).state = "expecting_newline_3"
            BY <3>2, <3>3, GoodAtEnd DEF u
        <3>5. parser[t].state = "expecting_newline_3"
            BY <3>2, <3>4 DEF u
        <3> QED
            BY <1>3, <3>1, <3>5 DEF Repeated
    <2>3. CASE conn[t] \notin {"first", "kept"}
        BY <1>3, <2>3 DEF Repeated, Unrefused
    <2> QED
        BY <2>1, <2>2, <2>3
<1> QED
    BY <1>2, <1>4, <1>5, <1>6 DEF Keeps, RequestInv

LEMMA RespondRequest ==
    ASSUME Placing, RequestTypes, NEW t \in Threads, RequestInv(t), Answer404(t) \/ Respond(t)
    PROVE  Keeps(t)
<1>1. /\ pc[t] \in Calls /\ pc' = [pc EXCEPT ![t] = "idle"]
      /\ UNCHANGED <<conn, text, parser, body, fields, cb>>
    BY DEF Answer404, Respond, Goto, Calls
<1>2. res[t] \in Responses
    BY DEF RequestTypes
<1>3. \E r : Answer(res[t], r, cb[t]) /\ res' = [res EXCEPT ![t] = r]
    <2>1. CASE Answer404(t)
        <3>1. res' = [res EXCEPT ![t] = SetStatus(res[t], 404)]
            BY <2>1 DEF Answer404
        <3> QED
            BY <1>2, <3>1, NotFoundAnswer
    <2>2. CASE Respond(t)
        <3>1. \E r \in Answers(cb[t], Len(plan[t]), res[t]) : res' = [res EXCEPT ![t] = r]
            BY <2>2 DEF Respond
        <3> QED
            BY <1>2, <3>1, AnswersSized
    <2> QED
        BY <2>1, <2>2
<1> QED
    BY <1>1, <1>3, AnswerRequest

\* The server stops: no connection is at its first request or kept any more.
LEMMA SignalRequest ==
    ASSUME Placing, RequestTypes, \A t \in Threads : RequestInv(t), Signal
    PROVE  RequestTypes' /\ \A t \in Threads : RequestInv(t)'
<1>1. /\ conn' = [t \in Threads |-> IF pc[t] \in Waiting THEN "none" ELSE "dropped"]
      /\ UNCHANGED <<pc, text, parser, body, fields, cb, res>>
    BY DEF Signal
<1>2. RequestTypes'
    BY <1>1 DEF RequestTypes, Connections
<1>3. ASSUME NEW t \in Threads PROVE RequestInv(t)'
    <2>1. /\ conn'[t] \in {"none", "dropped"} /\ (conn'[t] = "none" => pc[t] \in Waiting)
          /\ UNCHANGED <<pc[t], text[t], parser[t]>>
        BY <1>1
    <2> QED
        BY <2>1 DEF RequestInv, Parsed, Taken, Routed, Answered, Repeated, Unrefused, Calls,
            Waiting
<1> QED
    BY <1>2, <1>3

LEMMA NextRequest ==
    /\ Placing /\ config \in DOMAIN Configs
    /\ RequestTypes /\ \A t \in Threads : RequestInv(t)
    /\ [Next]_vars
    => RequestTypes' /\ \A t \in Threads : RequestInv(t)'
<1> SUFFICES ASSUME Placing, config \in DOMAIN Configs, RequestTypes,
                    \A t \in Threads : RequestInv(t), [Next]_vars
             PROVE  RequestTypes' /\ \A t \in Threads : RequestInv(t)'
    OBVIOUS
<1>1. ASSUME NEW t \in Threads, Keeps(t)
      PROVE  RequestTypes' /\ \A s \in Threads : RequestInv(s)'
    BY <1>1, SameRequest DEF Keeps
<1>2. ASSUME UNCHANGED <<pc, request>>
      PROVE  RequestTypes' /\ \A s \in Threads : RequestInv(s)'
    <2>1. RequestTypes'
        BY <1>2 DEF request, RequestTypes
    <2>2. \A s \in Threads : Same(s)
        BY <1>2 DEF request, Same
    <2> QED
        BY <2>1, <2>2, SameRequest
<1>3. CASE Signal
    BY <1>3, SignalRequest
<1>4. CASE Main
    BY <1>2, <1>4 DEF Main, InitEnv, Connected, ConnectFailed, PoolReady, Destroy, Run,
        BindFailed, Return
<1>5. ASSUME NEW t \in Threads, Accept(t) PROVE Keeps(t)
    BY <1>5, AcceptRequest
<1>6. ASSUME NEW t \in Threads, Again(t) PROVE Keeps(t)
    BY <1>6, AgainRequest
<1>7. ASSUME NEW t \in Threads, Feed(t) PROVE Keeps(t)
    BY <1>7, FeedRequest
<1>8. ASSUME NEW t \in Threads, Hangup(t) \/ Throw(t) \/ Stuck(t) PROVE Keeps(t)
    BY <1>8, LeftRequest
<1>9. ASSUME NEW t \in Threads, Dispatch(t) PROVE Keeps(t)
    BY <1>9, DispatchRequest
<1>10. ASSUME NEW t \in Threads, BodyTooLong(t) PROVE Keeps(t)
    BY <1>10, BodyTooLongRequest
<1>11. ASSUME NEW t \in Threads, HandleRequest(t) PROVE Keeps(t)
    BY <1>11, HandleRequestRequest
<1>12. ASSUME NEW t \in Threads, CallBack(t) \/ Execute(t) PROVE Keeps(t)
    BY <1>12, CallRequest
<1>13. ASSUME NEW t \in Threads, Answer404(t) \/ Respond(t) PROVE Keeps(t)
    BY <1>13, RespondRequest
<1>14. ASSUME NEW t \in Threads,
              Getting(t) \/ Acquire(t) \/ Release(t) \/ GetCrypto(t) \/ UseCrypto(t)
                \/ CryptoFails(t) \/ Fault(t)
       PROVE  UNCHANGED <<pc, request>>
    BY <1>14 DEF Getting, Acquire, Release, GetCrypto, UseCrypto, CryptoFails, Fault
<1>15. CASE UNCHANGED vars
    BY <1>2, <1>15 DEF vars
<1>16. CASE \E t \in Threads : Keeps(t) \/ UNCHANGED <<pc, request>>
    BY <1>1, <1>2, <1>16
<1>17. ASSUME NEW t \in Threads,
              Accept(t) \/ Again(t) \/ Feed(t) \/ Hangup(t) \/ FrontStep(t) \/ CallStep(t)
                \/ Fault(t)
       PROVE  Keeps(t) \/ UNCHANGED <<pc, request>>
    BY <1>5, <1>6, <1>7, <1>8, <1>9, <1>10, <1>11, <1>12, <1>13, <1>14, <1>17
    DEF FrontStep, CallStep
<1> QED
    BY <1>3, <1>4, <1>15, <1>16, <1>17 DEF Next

LEMMA Framed == RequestTypes /\ (\A t \in Threads : RequestInv(t)) => AnswerFramed
<1> SUFFICES ASSUME RequestTypes, NEW t \in Threads, RequestInv(t), pc[t] = "idle"
             PROVE  /\ conn[t] = "first" =>
                        /\ FramedAs(res[t], parser[t].result = "bad" \/ TooLong(t))
                        /\ Named(ToBuffers(res[t]), "Set-Cookie") # {} => res[t].status = 204
                    /\ conn[t] = "kept" /\ res[t].headers = <<>> => FramedAs(res[t], FALSE)
    BY Zenon DEF AnswerFramed
<1>1. res[t] \in Responses /\ Answered(t)
    BY DEF RequestTypes, RequestInv
<1>2. CASE conn[t] = "first" /\ (parser[t].result = "bad" \/ TooLong(t))
    <2>1. res[t] = StockResponse(400)
        BY <1>1, <1>2 DEF Answered
    <2> HIDE DEF StockResponse
    <2> QED
        BY <1>2, <2>1, StockFramed DEF FramedAs
<1>3. CASE conn[t] = "first" /\ ~(parser[t].result = "bad" \/ TooLong(t))
    <2>1. Plain(res[t], cb[t])
        BY <1>1, <1>3 DEF Answered
    <2>2. Sized(res[t], cb[t])
        BY <2>1 DEF Plain
    <2>3. FramedAs(res[t], FALSE)
        BY <1>1, <2>2, SizedFramed
    <2>4. FramedAs(res[t], parser[t].result = "bad" \/ TooLong(t))
        BY <1>3, <2>3 DEF FramedAs
    <2>5. Named(ToBuffers(res[t]), "Set-Cookie") # {} => res[t].status = 204
        BY <1>1, <2>1, NoCookieSent DEF Plain, Sized
    <2> QED
        BY <1>3, <2>4, <2>5
<1>4. CASE conn[t] # "first"
    BY <1>1, <1>4, SizedFramed DEF Answered
<1> QED
    BY <1>2, <1>3, <1>4

-----------------------------------------------------------------------------

LEMMA Invariance == Spec => []IInv
<1>1. Init => IInv
    BY InitPlacing, InitFreeing, InitCalling, InitCounting, InitRequest DEF IInv
<1>2. IInv /\ [Next]_vars => IInv'
    BY NextPlacing, NextFreeing, NextCalling, NextCounting, NextRequest DEF IInv, Counting
<1> QED
    BY <1>1, <1>2, PTL DEF Spec

\* No singleton is built twice.
THEOREM BuiltOnceCorrect == Spec => []BuiltOnce
<1>1. IInv => BuiltOnce
    BY SingletonsSafe DEF IInv
<1> QED
    BY <1>1, Invariance, PTL

\* A thread that got a singleton sees it built, unless the stores of the build
\* are reordered and the builder is still inside.
THEOREM BuiltBeforeUseCorrect == Spec => []BuiltBeforeUse
<1>1. IInv => BuiltBeforeUse
    BY SingletonsSafe DEF IInv
<1> QED
    BY <1>1, Invariance, PTL

\* No connection is freed twice, except by a constructor that fails after it has
\* opened some.
THEOREM FreedOnceCorrect == Spec => []FreedOnce
<1>1. IInv => FreedOnce
    <2> SUFFICES ASSUME IInv, NEW p \in Pools, freed[p] > 1
                 PROVE  failed = p /\ Size(p) > 1
        BY DEF FreedOnce
    <2>1. failed = p /\ opened[p] > 0
        BY DEF IInv, Freeing
    <2>2. opened[p] < Size(p) /\ opened[p] \in Nat
        BY <2>1 DEF IInv, Freeing
    <2> QED
        BY <2>1, <2>2, SizeNat
<1> QED
    BY <1>1, Invariance, PTL

\* The pools are destroyed only when no worker has a request.
THEOREM UsedAliveCorrect == Spec => []UsedAlive
<1>1. IInv => UsedAlive
    BY DEF IInv, Placing, UsedAlive
<1> QED
    BY <1>1, Invariance, PTL

\* Every variable stays in its range, whatever main, the clients and the threads do.
THEOREM TypeOKCorrect == Spec => []TypeOK
<1>1. IInv => TypeOK
    BY DEF IInv, Placing, Freeing, Counting, RequestTypes, Connections, SingletonsInv, TypeOK
<1> QED
    BY <1>1, Invariance, PTL

\* The answers state their length as they should, whichever use case ends where: two
\* lengths are stated only where the parser refuses or the body is too long, and on a
\* connection that goes on with its response the length stated is that of the last text.
THEOREM AnswerFramedCorrect == Spec => []AnswerFramed
<1>1. IInv => AnswerFramed
    BY Framed DEF IInv
<1> QED
    BY <1>1, Invariance, PTL

\* However the first request of a connection is cut into reads, its parser is where
\* it would be if the text had come at once.
CutsDoNotMatter ==
    \A t \in Threads : conn[t] = "first" =>
        /\ parser[t] = Parse(NewParser, Read(t))
        /\ pc[t] \in {"parsed"} \cup Served => parser[t] = Parse(NewParser, text[t])

LEMMA CutsDoNotMatterHolds == IInv => CutsDoNotMatter
<1> SUFFICES ASSUME RequestTypes, NEW t \in Threads, Parsed(t), conn[t] = "first"
             PROVE  /\ parser[t] = Parse(NewParser, Read(t))
                    /\ pc[t] \in {"parsed"} \cup Served =>
                            parser[t] = Parse(NewParser, text[t])
    BY SMTT(40) DEF IInv, RequestInv, CutsDoNotMatter
<1> DEFINE x == text[t]
           q == parser[t]
           u == SubSeq(x, 1, q.at)
           v == SubSeq(x, q.at + 1, Len(x))
<1>1. x \in Seq(Chars) /\ Len(x) \in Nat /\ q.at \in 0 .. Len(x) /\ q = Parse(NewParser, u)
    BY DEF RequestTypes, Parsed
<1>2. ASSUME pc[t] \in {"parsed"} \cup Served PROVE q = Parse(NewParser, x)
    <2>1. q.result # "indeterminate"
        BY <1>2 DEF Parsed, Served
    <2> HIDE DEF q
    <2>2. u \in Seq(Chars) /\ v \in Seq(Chars) /\ u \o v = SubSeq(x, 1, Len(x))
        <3>1. Len(x) \in q.at .. Len(x)
            BY <1>1
        <3> HIDE DEF x
        <3> QED
            BY <1>1, <3>1, CutInTwo
    <2>3. SubSeq(x, 1, Len(x)) = x
        BY <1>1
    <2> HIDE DEF u, v, x
    <2>4. Parse(NewParser, u).result # "indeterminate"
        BY <1>1, <2>1
    <2>5. Parse(NewParser, u \o v) = Parse(NewParser, u)
        BY <2>2, <2>4, ParseStops, NewParserSound
    <2> QED
        BY <1>1, <2>2, <2>3, <2>5, Zenon
<1> QED
    BY <1>1, <1>2 DEF Read

THEOREM CutsDoNotMatterCorrect == Spec => []CutsDoNotMatter
BY CutsDoNotMatterHolds, Invariance, PTL

\* However a first request is cut into reads, parse says good exactly at the end of a
\* complete request, with the method, the uri and the headers that are written in
\* it, and it says bad only of a text no begin of which is a complete request.
THEOREM ParsedAsWrittenCorrect == Spec => []ParsedAsWritten
<1>1. IInv => ParsedAsWritten
    <2> SUFFICES ASSUME IInv, NEW t \in Threads, pc[t] = "parsed", conn[t] = "first"
                 PROVE  IF parser[t].result = "good"
                        THEN /\ Complete(Read(t))
                             /\ parser[t].method = MethodOf(Read(t))
                             /\ parser[t].uri = UriOf(Read(t))
                             /\ parser[t].headers = HeadersOf(Read(t))
                        ELSE \A s \in Prefixes(text[t]) : ~Complete(s)
        BY DEF ParsedAsWritten
    <2> DEFINE x == text[t]
               u == Read(t)
               Q(s) == Parse(NewParser, s)
    <2>1. x \in Seq(Chars) /\ Len(x) \in Nat /\ parser[t].at \in 0 .. Len(x)
          /\ u = SubSeq(x, 1, parser[t].at)
        BY DEF IInv, RequestTypes, RequestInv, Parsed, Read
    <2>2. parser[t] = Q(u) /\ parser[t] = Q(x)
        BY CutsDoNotMatterHolds DEF CutsDoNotMatter
    <2> HIDE DEF x, u, Q
    <2>3. CASE parser[t].result = "good"
        <3>1. Len(x) \in parser[t].at .. Len(x)
            BY <2>1
        <3>2. u \in Seq(Chars) /\ Len(u) = parser[t].at
            BY <2>1, <3>1, CutInTwo
        <3>3. Q(u).result = "good" /\ Q(u).at = Len(u)
            BY <2>2, <2>3, <3>2
        <3>4. Complete(u) /\ Q(u).method = MethodOf(u) /\ Q(u).uri = UriOf(u)
              /\ Q(u).headers = HeadersOf(u)
            BY <3>2, <3>3, GoodIsComplete DEF Q
        <3> QED
            BY <2>2, <2>3, <3>4 DEF u
    <2>4. CASE parser[t].result # "good"
        <3> SUFFICES ASSUME NEW s \in Prefixes(x), Complete(s) PROVE FALSE
            BY <2>4 DEF x
        <3>1. PICK l \in 0 .. Len(x) : s = SubSeq(x, 1, l)
            <4>1. Prefixes(x) = {SubSeq(x, 1, l) : l \in 0 .. Len(x)}
                BY DEF Prefixes
            <4> QED
                BY <4>1
        <3> DEFINE r == SubSeq(x, l + 1, Len(x))
        <3>2. s \in Seq(Chars) /\ r \in Seq(Chars) /\ s \o r = x
            <4>1. Len(x) \in l .. Len(x)
                BY <2>1
            <4>2. s \in Seq(Chars) /\ r \in Seq(Chars) /\ s \o r = SubSeq(x, 1, Len(x))
                BY <2>1, <3>1, <4>1, CutInTwo
            <4> QED
                BY <2>1, <4>2, SubSeqFull
        <3> HIDE DEF r
        <3>3. Q(s).result = "good"
            BY <3>2, CompleteIsGood DEF Q
        <3>4. Q(s \o r) = Q(s)
            BY <3>2, <3>3, ParseStops, NewParserSound DEF Q
        <3> QED
            BY <2>2, <2>4, <3>2, <3>3, <3>4
    <2> QED
        BY <2>3, <2>4
<1> QED
    BY <1>1, Invariance, PTL

\* A connection reads more of its first request only while something can come that
\* completes it, and whenever consume is about to use headers.back() there is a header.
THEOREM WaitsForSenseCorrect == Spec => []WaitsForSense
<1>1. IInv => WaitsForSense
    <2> SUFFICES ASSUME IInv, NEW t \in Threads, pc[t] = "reading"
                 PROVE  /\ conn[t] = "first" => \E s \in Tails : Complete(Read(t) \o s)
                        /\ parser[t].state \in InHeader => parser[t].headers # <<>>
        BY DEF WaitsForSense, InHeader
    <2> DEFINE x == text[t]
               u == Read(t)
    <2>1. x \in Seq(Chars) /\ Len(x) \in Nat /\ parser[t].at \in 0 .. Len(x)
          /\ u = SubSeq(x, 1, parser[t].at)
          /\ parser[t].result = "indeterminate" /\ parser[t] \in Sound
        BY DEF IInv, RequestTypes, RequestInv, Parsed, Read
    <2>2. conn[t] = "first" => parser[t] = Parse(NewParser, u)
        BY CutsDoNotMatterHolds DEF CutsDoNotMatter
    <2> HIDE DEF x, u
    <2>3. u \in Seq(Chars)
        <3>1. Len(x) \in parser[t].at .. Len(x)
            BY <2>1
        <3> QED
            BY <2>1, <3>1, CutInTwo
    <2>4. conn[t] = "first" => \E s \in Tails : Complete(u \o s)
        BY <2>1, <2>2, <2>3, UndecidedCanFinish
    <2> QED
        BY <2>1, <2>4 DEF Sound, u
<1> QED
    BY <1>1, Invariance, PTL

\* What the parser has of a first request that is served is what its text says.
LEMMA ServedAsWritten ==
    ASSUME IInv, NEW t \in Threads, pc[t] \in Served, conn[t] = "first"
    PROVE  /\ parser[t] \in Sound
           /\ parser[t].headers = HeadersOf(Read(t))
<1> DEFINE x == text[t]
           u == Read(t)
           Q(s) == Parse(NewParser, s)
<1>1. /\ x \in Seq(Chars) /\ Len(x) \in Nat /\ parser[t].at \in 0 .. Len(x)
      /\ u = SubSeq(x, 1, parser[t].at) /\ parser[t] \in Sound
      /\ parser[t].result = "good"
    BY DEF IInv, RequestTypes, RequestInv, Parsed, Read
<1>2. parser[t] = Q(u)
    BY CutsDoNotMatterHolds DEF CutsDoNotMatter
<1> HIDE DEF x, u, Q
<1>3. Len(x) \in parser[t].at .. Len(x)
    BY <1>1
<1>4. u \in Seq(Chars) /\ Len(u) = parser[t].at
    BY <1>1, <1>3, CutInTwo
<1>5. Q(u).result = "good" /\ Q(u).at = Len(u)
    BY <1>1, <1>2, <1>4
<1>6. Q(u).headers = HeadersOf(u)
    BY <1>4, <1>5, GoodIsComplete DEF Q
<1> QED
    BY <1>1, <1>2, <1>6 DEF u

\* For every first request whose headers come once each: its handler takes the session that the
\* cookie names last, wherever the cookie stands; it throws exactly on a length that is no
\* number and on a cookie that ends in its separator.
THEOREM HeadersReadCorrect == Spec => []HeadersRead
<1>1. IInv => HeadersRead
    <2> SUFFICES ASSUME IInv, NEW t \in Threads, pc[t] = "dispatched", conn[t] = "first",
                        LET hs == HeadersOf(Read(t)) IN
                        /\ \A i, j \in DOMAIN hs : hs[i].name = hs[j].name => i = j
                        /\ \A v \in Values(hs, Cookie) : Spaced(v)
                 PROVE  LET hs == HeadersOf(Read(t))
                            lengths == Values(hs, ContentLength)
                            cookies == Values(hs, Cookie)
                        IN  /\ fields[t].thrown <=> \/ \E v \in lengths : ~IsNumber(v)
                                                    \/ \E v \in cookies : EndsInSeparator(v)
                            /\ fields[t].thrown \/
                                {fields[t].session} = {SessionIn(v) : v \in cookies \cup
                                                IF cookies = {} THEN {<<>>} ELSE {}}
        BY DEF HeadersRead
    <2> DEFINE hs == HeadersOf(Read(t))
    <2>1. parser[t] \in Sound /\ parser[t].headers = hs
        BY ServedAsWritten DEF Served
    <2>2. hs \in Seq(HeadersOver(Chars))
        BY <2>1 DEF Sound, Parsers, HeadersOver
    <2>3. fields[t] = TakeHeaders(NoFields, hs)
        BY <2>1 DEF IInv, RequestInv, Taken
    <2>4. Once(hs) /\ \A v \in Values(hs, Cookie) : Spaced(v)
        BY DEF Once
    <2> HIDE DEF hs
    <2>5. LET f == TakeHeaders(NoFields, hs)
              lengths == Values(hs, ContentLength)
              cookies == Values(hs, Cookie)
          IN  /\ f.thrown <=> \/ \E v \in lengths : ~IsNumber(v)
                              \/ \E v \in cookies : EndsInSeparator(v)
              /\ f.thrown \/ {f.session} = {SessionIn(v) : v \in cookies \cup
                                                IF cookies = {} THEN {<<>>} ELSE {}}
        BY <2>2, <2>4, HeadersTaken
    <2> QED
        BY <2>3, <2>5 DEF hs
<1> QED
    BY <1>1, Invariance, PTL

\* Every callback called for a first request is the one of the last route listed for the method and the
\* path that are written in the text of the request.
THEOREM RoutedRightCorrect == Spec => []RoutedRight
<1>1. IInv => RoutedRight
    <2> SUFFICES ASSUME IInv, NEW t \in Threads, pc[t] = "routed", conn[t] = "first"
                 PROVE  cb[t] = Listed(MethodOf(text[t]), UriOf(text[t]))
        BY DEF RoutedRight
    <2> DEFINE x == text[t]
               q == Parse(NewParser, x)
    <2>1. parser[t] = q
        BY CutsDoNotMatterHolds DEF CutsDoNotMatter, Served
    <2>2. x \in Seq(Chars) /\ parser[t].result = "good"
          /\ cb[t] = Listed(parser[t].method, parser[t].uri)
        BY DEF IInv, RequestTypes, RequestInv, Parsed, Routed, Served, Calls
    <2> HIDE DEF x
    <2>3. q.method = MethodOf(x) /\ q.uri = UriOf(x)
        BY <2>1, <2>2, MethodWritten
    <2> QED
        BY <2>1, <2>2, <2>3 DEF x
<1> QED
    BY <1>1, Invariance, PTL

\* Whatever comes, consume uses headers.back() only when there is a header.
HeaderWithin ==
    \A t \in Threads : parser[t].state \in InHeader => parser[t].headers # <<>>

THEOREM HeaderWithinCorrect == Spec => []HeaderWithin
<1>1. IInv => HeaderWithin
    BY DEF IInv, RequestTypes, Sound, HeaderWithin
<1> QED
    BY <1>1, Invariance, PTL
=============================================================================
