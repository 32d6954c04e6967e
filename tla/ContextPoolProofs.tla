------------------------- MODULE ContextPoolProofs -------------------------
(***************************************************************************)
(* Proofs about ContextPool when the pool has one connection, for every    *)
(* set of threads.  NumPool = 1 is the default of the code and a           *)
(* hypothesis of each theorem: with two connections Exclusive is false.    *)
(***************************************************************************)
EXTENDS ContextPool, TLAPS

\* Labels between semaphore.acquire() and semaphore.release()
Critical == Labels \ {"idle", "wait"}

\* The deque holds the one connection.
Full ==
    /\ tail = After(head)
    /\ slots[head] = 0

\* The deque is empty.
Drained == tail = head

\* The permit lets one thread at a time past acquire().
Mutex ==
    /\ \A t, u \in Threads : pc[t] \in Critical /\ pc[u] \in Critical => t = u
    /\ permits = 1 => \A t \in Threads : pc[t] \notin Critical
    /\ (\A t \in Threads : pc[t] \notin Critical) => permits = 1 /\ Full

\* What the thread past acquire() knows of the deque at each of its labels.
Position ==
    \A t \in Threads :
        /\ pc[t] \in {"front", "pop", "popped", "release"} => Full
        /\ pc[t] \in {"send", "recv", "push", "pushed"} => Drained
        /\ pc[t] = "popped" => tmp[t] = head
        /\ pc[t] = "pushed" => tmp[t] = tail /\ slots[tail] = 0
        /\ ctx[t] = IF pc[t] \in Holding THEN 0 ELSE NoContext

\* The one command in flight is that of the thread waiting for its reply.
Dialogue ==
    /\ \A t \in Threads : pc[t] = "recv" => wire[0] = <<t>>
    /\ (\A t \in Threads : pc[t] # "recv") => wire[0] = <<>>
    /\ OwnReply

IInv == TypeOK /\ Mutex /\ Position /\ Dialogue

-----------------------------------------------------------------------------

\* With one connection there is one context, two slots, and After swaps them.
LEMMA OneConnection ==
    ASSUME NumPool = 1
    PROVE  /\ Contexts = {0}
           /\ Slots = {0, 1}
           /\ 0 # NoContext
           /\ After(0) = 1
           /\ After(1) = 0
BY NoContextAssumption DEF Contexts, Slots, After

\* The constructor leaves the pool with its connection queued and its permit.
LEMMA InitIInv ==
    ASSUME NumPool = 1
    PROVE  Init => IInv
<1> SUFFICES ASSUME Init PROVE IInv
    OBVIOUS
<1>1. TypeOK
    BY OneConnection DEF Init, TypeOK, Labels
<1>2. Mutex /\ Position /\ Dialogue
    BY OneConnection DEF Init, Mutex, Position, Dialogue, OwnReply, Full,
       Drained, Critical, Labels, Holding
<1> QED
    BY <1>1, <1>2 DEF IInv

\* Every step of a thread preserves the types.
LEMMA StepTypeOK ==
    ASSUME NumPool = 1, IInv, NEW t \in Threads, Request(t) \/ Step(t)
    PROVE  TypeOK'
<1> USE OneConnection DEF IInv, TypeOK, Goto, Labels
<1>1. CASE Request(t)
    BY <1>1 DEF Request
<1>2. CASE Acquire(t)
    BY <1>2 DEF Acquire
<1>3. CASE Front(t)
    BY <1>3 DEF Front
<1>4. CASE PopRead(t)
    BY <1>4 DEF PopRead
<1>5. CASE PopWrite(t)
    BY <1>5 DEF PopWrite
<1>6. CASE Send(t)
    BY <1>6 DEF Send
<1>7. CASE Recv(t)
    <2>1. ctx[t] = 0 /\ wire[0] = <<t>>
        BY <1>7 DEF Recv, Position, Dialogue, Holding
    <2>2. Head(wire[ctx[t]]) \in Threads /\ Tail(wire[ctx[t]]) \in Seq(Threads)
        BY <2>1
    <2> QED
        BY <1>7, <2>1, <2>2 DEF Recv
<1>8. CASE PushSlot(t)
    BY <1>8 DEF PushSlot
<1>9. CASE PushTail(t)
    BY <1>9 DEF PushTail
<1>10. CASE Release(t)
    <2>1. permits = 0
        BY <1>10 DEF Release, Mutex, Critical
    <2> QED
        BY <1>10, <2>1 DEF Release
<1> QED
    BY <1>1, <1>2, <1>3, <1>4, <1>5, <1>6, <1>7, <1>8, <1>9, <1>10 DEF Step

\* Every step of a thread preserves the exclusion that the permit gives.
LEMMA StepMutex ==
    ASSUME NumPool = 1, IInv, TypeOK', NEW t \in Threads, Request(t) \/ Step(t)
    PROVE  Mutex'
<1> USE OneConnection DEF IInv, TypeOK, Goto, Labels, Critical, Mutex, Full
<1>1. CASE Request(t)
    BY <1>1 DEF Request
<1>2. CASE Acquire(t)
    BY <1>2 DEF Acquire
<1>3. CASE Front(t)
    BY <1>3 DEF Front
<1>4. CASE PopRead(t)
    BY <1>4 DEF PopRead
<1>5. CASE PopWrite(t)
    BY <1>5 DEF PopWrite
<1>6. CASE Send(t)
    BY <1>6 DEF Send
<1>7. CASE Recv(t)
    BY <1>7 DEF Recv
<1>8. CASE PushSlot(t)
    BY <1>8 DEF PushSlot
<1>9. CASE PushTail(t)
    BY <1>9 DEF PushTail
<1>10. CASE Release(t)
    <2>1. permits = 0 /\ Full
        BY <1>10 DEF Release, Position
    <2> QED
        BY <1>10, <2>1 DEF Release
<1> QED
    BY <1>1, <1>2, <1>3, <1>4, <1>5, <1>6, <1>7, <1>8, <1>9, <1>10 DEF Step

\* Every step of a thread keeps what each thread knows of the deque: the steps
\* of one thread cannot disturb another, which is not past acquire().
LEMMA StepPosition ==
    ASSUME NumPool = 1, IInv, TypeOK', NEW t \in Threads, Request(t) \/ Step(t)
    PROVE  Position'
<1> USE OneConnection DEF IInv, TypeOK, Goto, Labels, Critical, Mutex, Full,
        Drained, Position, Holding
<1>1. CASE Request(t)
    BY <1>1 DEF Request
<1>2. CASE Acquire(t)
    BY <1>2 DEF Acquire
<1>3. CASE Front(t)
    BY <1>3 DEF Front
<1>4. CASE PopRead(t)
    BY <1>4 DEF PopRead
<1>5. CASE PopWrite(t)
    BY <1>5 DEF PopWrite
<1>6. CASE Send(t)
    BY <1>6 DEF Send
<1>7. CASE Recv(t)
    BY <1>7 DEF Recv
<1>8. CASE PushSlot(t)
    BY <1>8 DEF PushSlot
<1>9. CASE PushTail(t)
    BY <1>9 DEF PushTail
<1>10. CASE Release(t)
    BY <1>10 DEF Release
<1> QED
    BY <1>1, <1>2, <1>3, <1>4, <1>5, <1>6, <1>7, <1>8, <1>9, <1>10 DEF Step

\* Every step of a thread keeps commands and replies paired.
LEMMA StepDialogue ==
    ASSUME NumPool = 1, IInv, TypeOK', NEW t \in Threads, Request(t) \/ Step(t)
    PROVE  Dialogue'
<1> USE OneConnection DEF IInv, TypeOK, Goto, Labels, Critical, Mutex, Position,
        Holding, Dialogue, OwnReply
<1>1. CASE Request(t)
    BY <1>1 DEF Request
<1>2. CASE Acquire(t)
    BY <1>2 DEF Acquire
<1>3. CASE Front(t)
    BY <1>3 DEF Front
<1>4. CASE PopRead(t)
    BY <1>4 DEF PopRead
<1>5. CASE PopWrite(t)
    BY <1>5 DEF PopWrite
<1>6. CASE Send(t)
    <2>1. ctx[t] = 0 /\ wire[0] = <<>>
        BY <1>6 DEF Send
    <2>2. wire'[0] = <<t>>
        BY <1>6, <2>1 DEF Send
    <2> QED
        BY <1>6, <2>2 DEF Send
<1>7. CASE Recv(t)
    <2>1. ctx[t] = 0 /\ wire[0] = <<t>>
        BY <1>7 DEF Recv
    <2>2. got'[t] = t /\ wire'[0] = <<>>
        BY <1>7, <2>1 DEF Recv
    <2> QED
        BY <1>7, <2>2 DEF Recv
<1>8. CASE PushSlot(t)
    BY <1>8 DEF PushSlot
<1>9. CASE PushTail(t)
    BY <1>9 DEF PushTail
<1>10. CASE Release(t)
    BY <1>10 DEF Release
<1> QED
    BY <1>1, <1>2, <1>3, <1>4, <1>5, <1>6, <1>7, <1>8, <1>9, <1>10 DEF Step

LEMMA StutterIInv ==
    ASSUME IInv, UNCHANGED vars
    PROVE  IInv'
BY DEF IInv, TypeOK, Mutex, Position, Dialogue, OwnReply, Full, Drained, vars

\* IInv is an inductive invariant.
LEMMA Invariance ==
    ASSUME NumPool = 1
    PROVE  Spec => []IInv
<1>1. Init => IInv
    BY InitIInv
<1>2. IInv /\ [Next]_vars => IInv'
    <2> SUFFICES ASSUME IInv, [Next]_vars PROVE IInv'
        OBVIOUS
    <2>1. ASSUME NEW t \in Threads, Request(t) \/ Step(t) PROVE IInv'
        <3>1. TypeOK'
            BY <2>1, StepTypeOK
        <3> QED
            BY <2>1, <3>1, StepMutex, StepPosition, StepDialogue DEF IInv
    <2>2. CASE UNCHANGED vars
        BY <2>2, StutterIInv
    <2> QED
        BY <2>1, <2>2 DEF Next
<1> QED
    BY <1>1, <1>2, PTL DEF Spec

-----------------------------------------------------------------------------

\* The variables of the pool keep their types: the semaphore never counts more
\* permits than the pool has connections.
THEOREM TypeCorrect ==
    ASSUME NumPool = 1
    PROVE  Spec => []TypeOK
<1>1. IInv => TypeOK
    BY DEF IInv
<1> QED
    BY <1>1, Invariance, PTL

\* get_context never hands one connection to two threads.
THEOREM ExclusiveCorrect ==
    ASSUME NumPool = 1
    PROVE  Spec => []Exclusive
<1>1. IInv => Exclusive
    BY DEF IInv, Mutex, Exclusive, Critical, Holding, Labels
<1> QED
    BY <1>1, Invariance, PTL

\* The deque is free of data races, although no mutex guards it.
THEOREM RaceFreeCorrect ==
    ASSUME NumPool = 1
    PROVE  Spec => []RaceFree
<1>1. IInv => RaceFree
    BY DEF IInv, Mutex, RaceFree, Critical, InDeque, Labels
<1> QED
    BY <1>1, Invariance, PTL

\* Every thread reads the reply to the command it sent.
THEOREM OwnReplyCorrect ==
    ASSUME NumPool = 1
    PROVE  Spec => []OwnReply
<1>1. IInv => OwnReply
    BY DEF IInv, Dialogue
<1> QED
    BY <1>1, Invariance, PTL

\* What the indices say of the deque: it is empty or holds the one connection.
LEMMA DequeContent ==
    ASSUME NumPool = 1, TypeOK
    PROVE  /\ Drained => Size = 0 /\ Queued = {}
           /\ Full => Size = 1 /\ Queued = {0}
<1> USE OneConnection DEF TypeOK
<1>1. ASSUME Drained PROVE Size = 0 /\ Queued = {}
    <2>1. Size = 0
        <3>1. tail + NumPool + 1 - head = 2
            BY <1>1 DEF Drained
        <3> QED
            BY <3>1 DEF Size
    <2> QED
        BY <2>1 DEF Queued
<1>2. ASSUME Full PROVE Size = 1 /\ Queued = {0}
    <2>1. tail + NumPool + 1 - head \in {1, 3}
        BY <1>2 DEF Full
    <2>2. Size = 1
        BY <2>1 DEF Size
    <2>3. (head + 0) % (NumPool + 1) = head
        OBVIOUS
    <2>4. Queued = {slots[(head + 0) % (NumPool + 1)]}
        BY <2>2 DEF Queued
    <2> QED
        BY <1>2, <2>2, <2>3, <2>4 DEF Full
<1> QED
    BY <1>1, <1>2

\* With the deque at rest, it holds the connection exactly when no thread has it.
THEOREM ConservedCorrect ==
    ASSUME NumPool = 1
    PROVE  Spec => []Conserved
<1>1. ASSUME IInv, \A t \in Threads : pc[t] \in {"idle", "wait", "send", "recv"}
      PROVE  Size = permits /\ Queued = Contexts \ Taken
    <2> USE <1>1, OneConnection DEF IInv, Holding, Critical, Labels, Taken
    <2>1. CASE \E t \in Threads : pc[t] \in {"send", "recv"}
        <3>1. PICK t \in Threads : pc[t] \in {"send", "recv"}
            BY <2>1
        <3>2. Drained /\ permits = 0 /\ ctx[t] = 0
            BY <3>1 DEF Position, Mutex, TypeOK
        <3>3. Contexts \ Taken = {}
            BY <3>1, <3>2
        <3> QED
            BY <3>2, <3>3, DequeContent
    <2>2. CASE \A t \in Threads : pc[t] \in {"idle", "wait"}
        <3>1. permits = 1 /\ Full
            BY <2>2 DEF Mutex
        <3>2. Taken = {}
            BY <2>2
        <3> QED
            BY <3>1, <3>2, DequeContent
    <2> QED
        BY <2>1, <2>2
<1>2. IInv => Conserved
    BY <1>1 DEF Conserved
<1> QED
    BY <1>2, Invariance, PTL

-----------------------------------------------------------------------------

\* A step past front() takes a connection that is free, a step past release()
\* gives one back, and every other step leaves the abstract pool alone.
LEMMA StepImplements ==
    ASSUME NumPool = 1, IInv, NEW t \in Threads, Request(t) \/ Step(t)
    PROVE  [Abstract!Next]_ctx
<1> USE OneConnection DEF IInv, TypeOK, Mutex, Position, Full, Goto
<1>1. CASE Front(t)
    <2>1. pc[t] = "front" /\ ctx[t] = NoContext
        BY <1>1 DEF Front, Holding
    <2>2. \A u \in Threads : ctx[u] = NoContext
        BY <2>1 DEF Critical, Holding, Labels
    <2>3. 0 \in Abstract!Free
        BY <2>2 DEF Abstract!Free, Abstract!Held
    <2>4. ctx' = [ctx EXCEPT ![t] = 0]
        BY <1>1, <2>1 DEF Front
    <2>5. Abstract!Take(t)
        BY <2>1, <2>3, <2>4 DEF Abstract!Take
    <2> QED
        BY <2>5 DEF Abstract!Next
<1>2. CASE Release(t)
    <2>1. ctx[t] # NoContext
        BY <1>2 DEF Release, Holding, Labels
    <2>2. Abstract!Give(t)
        BY <1>2, <2>1 DEF Release, Abstract!Give
    <2> QED
        BY <2>2 DEF Abstract!Next
<1>3. CASE ~Front(t) /\ ~Release(t)
    BY <1>3 DEF Step, Request, Acquire, PopRead, PopWrite, Send, Recv,
       PushSlot, PushTail
<1> QED
    BY <1>1, <1>2, <1>3

\* The deque and semaphore implement the abstract pool: callers may reason as
\* if a connection were taken and given back in one step each.
THEOREM Implements ==
    ASSUME NumPool = 1
    PROVE  Spec => ImplementsClientPool
<1>1. Init => Abstract!Init
    BY DEF Init, Abstract!Init
<1>2. IInv /\ [Next]_vars => [Abstract!Next]_ctx
    BY StepImplements DEF Next, vars
<1> QED
    BY <1>1, <1>2, Invariance, PTL DEF Spec, ImplementsClientPool, Abstract!Spec
=============================================================================
