----------------------------- MODULE ClientPool -----------------------------
(***************************************************************************)
(* What a pool of server connections promises its callers: a thread takes  *)
(* some free connection in one step, has it to itself, and gives it back.  *)
(* ContextPool, the deque and semaphore of the code, implements it when    *)
(* the pool has one connection.                                            *)
(***************************************************************************)
CONSTANTS
    Threads,    \* the threads that call the store or the database
    Contexts,   \* the connections of the pool
    NoContext   \* what a thread without a connection holds, not in Contexts

VARIABLE held   \* held[t] is the connection thread t has taken

Held == {held[t] : t \in Threads} \ {NoContext}

Free == Contexts \ Held

Init == held = [t \in Threads |-> NoContext]

Take(t) ==
    /\ held[t] = NoContext
    /\ \E c \in Free : held' = [held EXCEPT ![t] = c]

Give(t) ==
    /\ held[t] # NoContext
    /\ held' = [held EXCEPT ![t] = NoContext]

Next == \E t \in Threads : Take(t) \/ Give(t)

Spec == Init /\ [][Next]_held
=============================================================================
