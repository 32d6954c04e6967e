---------------------------- MODULE ContextPool ----------------------------
(***************************************************************************)
(* The pool of connections that RedisStore (interfaces/store/redis.cpp)    *)
(* and Postgres (db/core/pg.cpp) each keep: a counting semaphore and a     *)
(* std::deque that no mutex protects.  get_context and release_context are *)
(* modelled at the granularity at which two threads can interleave in the  *)
(* deque: reading an index, writing it back and touching a slot are steps  *)
(* of their own.  Between the two a thread sends one command and reads one *)
(* reply on the connection it believes to be its own.                      *)
(*                                                                         *)
(* The memory of the deque is a ring with one slot more than there are     *)
(* connections; pop_front leaves the popped slot's content behind.         *)
(***************************************************************************)
EXTENDS Integers, Sequences

CONSTANTS
    Threads,    \* the threads that run io_context::run
    NumPool,    \* REDIS_POOL or PG_POOL
    NoContext,  \* no connection
    NoThread    \* no reply read yet

ASSUME NumPoolAssumption == NumPool \in Nat \ {0}

Contexts == 0 .. NumPool - 1   \* in the order the constructor connects them

Slots == 0 .. NumPool

ASSUME NoContextAssumption == NoContext \notin Contexts

ASSUME NoThreadAssumption == NoThread \notin Threads

VARIABLES
    permits,   \* the count of the semaphore
    slots,     \* the memory of the deque
    head,      \* _M_start: the slot front() reads
    tail,      \* _M_finish: the slot push_back writes
    pc,        \* where each thread is
    tmp,       \* the index a thread has read and not yet written back
    ctx,       \* the local variable ctx (or client) of each thread
    wire,      \* wire[c]: whose commands await a reply on connection c
    got        \* got[t]: whose reply t read last

vars == <<permits, slots, head, tail, pc, tmp, ctx, wire, got>>

Labels == {"idle", "wait", "front", "pop", "popped", "send", "recv",
           "push", "pushed", "release"}

\* Labels at which a thread is inside a member function of the deque
InDeque == {"front", "pop", "popped", "push", "pushed"}

\* Labels at which a thread has a connection
Holding == Labels \ {"idle", "wait", "front"}

After(i) == IF i = NumPool THEN 0 ELSE i + 1

Init ==
    /\ permits = NumPool
    /\ slots = [i \in Slots |-> IF i < NumPool THEN i ELSE NoContext]
    /\ head = 0
    /\ tail = NumPool
    /\ pc = [t \in Threads |-> "idle"]
    /\ tmp = [t \in Threads |-> 0]
    /\ ctx = [t \in Threads |-> NoContext]
    /\ wire = [c \in Contexts |-> <<>>]
    /\ got = [t \in Threads |-> NoThread]

Goto(t, from, to) ==
    /\ pc[t] = from
    /\ pc' = [pc EXCEPT ![t] = to]

-----------------------------------------------------------------------------
(* get_context *)

\* A handler needs the store or the database.
Request(t) ==
    /\ Goto(t, "idle", "wait")
    /\ UNCHANGED <<permits, slots, head, tail, tmp, ctx, wire, got>>

\* Slip: the semaphore is not waited for.
AcquireUnchecked(t) ==
    /\ Goto(t, "wait", "front")
    /\ UNCHANGED <<permits, slots, head, tail, tmp, ctx, wire, got>>

\* semaphore.acquire()
Acquire(t) ==
    /\ Goto(t, "wait", "front")
    /\ permits > 0
    /\ permits' = permits - 1
    /\ UNCHANGED <<slots, head, tail, tmp, ctx, wire, got>>

\* ctx = pool.front()
Front(t) ==
    /\ Goto(t, "front", "pop")
    /\ ctx' = [ctx EXCEPT ![t] = slots[head]]
    /\ UNCHANGED <<permits, slots, head, tail, tmp, wire, got>>

\* pool.pop_front(): read the index ...
PopRead(t) ==
    /\ Goto(t, "pop", "popped")
    /\ tmp' = [tmp EXCEPT ![t] = head]
    /\ UNCHANGED <<permits, slots, head, tail, ctx, wire, got>>

\* Slip: the connection handed out stays in the deque.
PopNothing(t) ==
    /\ Goto(t, "popped", "send")
    /\ UNCHANGED <<permits, slots, head, tail, tmp, ctx, wire, got>>

\* ... and write it back, advanced.
PopWrite(t) ==
    /\ Goto(t, "popped", "send")
    /\ head' = After(tmp[t])
    /\ UNCHANGED <<permits, slots, tail, tmp, ctx, wire, got>>

-----------------------------------------------------------------------------
(* redisCommand, PQexecPrepared *)

Send(t) ==
    /\ Goto(t, "send", "recv")
    /\ ctx[t] \in Contexts
    /\ wire' = [wire EXCEPT ![ctx[t]] = Append(@, t)]
    /\ UNCHANGED <<permits, slots, head, tail, tmp, ctx, got>>

\* Slip: the reply read stays in the buffer of the connection.
RecvPeek(t) ==
    /\ Goto(t, "recv", "push")
    /\ wire[ctx[t]] # <<>>
    /\ got' = [got EXCEPT ![t] = Head(wire[ctx[t]])]
    /\ UNCHANGED <<permits, slots, head, tail, tmp, ctx, wire>>

\* The server answers the commands of a connection in order.
Recv(t) ==
    /\ Goto(t, "recv", "push")
    /\ wire[ctx[t]] # <<>>
    /\ got' = [got EXCEPT ![t] = Head(wire[ctx[t]])]
    /\ wire' = [wire EXCEPT ![ctx[t]] = Tail(@)]
    /\ UNCHANGED <<permits, slots, head, tail, tmp, ctx>>

-----------------------------------------------------------------------------
(* release_context *)

\* pool.push_back(ctx): construct the element at the end ...
PushSlot(t) ==
    /\ Goto(t, "push", "pushed")
    /\ slots' = [slots EXCEPT ![tail] = ctx[t]]
    /\ tmp' = [tmp EXCEPT ![t] = tail]
    /\ UNCHANGED <<permits, head, tail, ctx, wire, got>>

\* ... and advance the end.
PushTail(t) ==
    /\ Goto(t, "pushed", "release")
    /\ tail' = After(tmp[t])
    /\ UNCHANGED <<permits, slots, head, tmp, ctx, wire, got>>

\* Slip: a path returns the connection and not the permit.
ReleaseNoPermit(t) ==
    /\ Goto(t, "release", "idle")
    /\ ctx' = [ctx EXCEPT ![t] = NoContext]
    /\ UNCHANGED <<permits, slots, head, tail, tmp, wire, got>>

\* Slip: a path returns the permit twice.
ReleaseTwice(t) ==
    /\ Goto(t, "release", "idle")
    /\ permits' = permits + 2
    /\ ctx' = [ctx EXCEPT ![t] = NoContext]
    /\ UNCHANGED <<slots, head, tail, tmp, wire, got>>

\* semaphore.release()
Release(t) ==
    /\ Goto(t, "release", "idle")
    /\ permits' = permits + 1
    /\ ctx' = [ctx EXCEPT ![t] = NoContext]
    /\ UNCHANGED <<slots, head, tail, tmp, wire, got>>

Step(t) ==
    \/ Acquire(t)
    \/ Front(t)
    \/ PopRead(t)
    \/ PopWrite(t)
    \/ Send(t)
    \/ Recv(t)
    \/ PushSlot(t)
    \/ PushTail(t)
    \/ Release(t)

Next == \E t \in Threads : Request(t) \/ Step(t)

\* A thread that can take its next step takes it some day; nothing obliges a
\* handler to start.  The semaphore is not first come, first served.
Fairness == \A t \in Threads : WF_vars(Step(t))

Spec == Init /\ [][Next]_vars /\ Fairness

-----------------------------------------------------------------------------

TypeOK ==
    /\ permits \in 0 .. NumPool
    /\ slots \in [Slots -> Contexts \cup {NoContext}]
    /\ head \in Slots
    /\ tail \in Slots
    /\ pc \in [Threads -> Labels]
    /\ tmp \in [Threads -> Slots]
    /\ ctx \in [Threads -> Contexts \cup {NoContext}]
    /\ wire \in [Contexts -> Seq(Threads)]
    /\ got \in [Threads -> Threads \cup {NoThread}]

\* No two threads have the same connection: get_context never hands out a
\* connection that release_context has not taken back.
Exclusive ==
    \A t, u \in Threads :
        (pc[t] \in Holding /\ pc[u] \in Holding /\ t # u) => ctx[t] # ctx[u]

\* No two threads are inside the deque at once: the calls to front, pop_front
\* and push_back are free of data races although no mutex guards them.
RaceFree ==
    \A t, u \in Threads : (pc[t] \in InDeque /\ pc[u] \in InDeque) => t = u

\* Every command gets the answer to itself, never to another thread's command.
OwnReply == \A t \in Threads : pc[t] \in {"push", "pushed", "release"} => got[t] = t

\* pool.size(), and the connections in the deque
Size == (tail + NumPool + 1 - head) % (NumPool + 1)

Queued == {slots[(head + i) % (NumPool + 1)] : i \in 0 .. Size - 1}

Taken == {ctx[t] : t \in {u \in Threads : pc[u] \in Holding}}

\* When no thread is in get_context or release_context, the deque holds the
\* connections nobody has, as many as the semaphore has permits: no path loses
\* or duplicates one.
Conserved ==
    (\A t \in Threads : pc[t] \in {"idle", "wait", "send", "recv"}) =>
        /\ Size = permits
        /\ Queued = Contexts \ Taken

\* Once handlers stop coming, every thread that waits in get_context gets a
\* connection: no permit is lost on the way.
EveryWaiterServed ==
    <>[][\A t \in Threads : ~Request(t)]_vars
        => \A t \in Threads : (pc[t] = "wait") ~> (pc[t] = "send")

-----------------------------------------------------------------------------
(* The abstract pool: a thread has a connection from the time front() gave *)
(* it to the time the permit is returned.                                  *)

Abstract == INSTANCE ClientPool WITH held <- ctx

\* The deque and semaphore implement the pool of ClientPool.
ImplementsClientPool == Abstract!Spec

=============================================================================
