------------------------------ MODULE Singletons ------------------------------
(***************************************************************************)
(* The objects built on first use: use-cases/auth/singleton.cpp,           *)
(* db/user/singleton.hpp and interfaces/crypto/singleton.cpp, each a plain *)
(* unique_ptr under double-checked locking.  The first look at the pointer *)
(* is not synchronised with its assignment, so nothing obliges it to see   *)
(* the object built when it sees the pointer: ordered says whether the     *)
(* build keeps the order of the two stores.                                *)
(***************************************************************************)
EXTENDS Naturals

CONSTANTS
    Threads,
    NoThread

ASSUME NoThreadAssumption == NoThread \notin Threads

UseCases == {"get_user_auth", "login_auth", "logout_auth", "register_auth"}

Objects == UseCases \cup {"user_db", "crypto"}

\* The singletons that the arguments of make_unique get
Needs(o) == IF o \in {"login_auth", "register_auth"} THEN {"user_db"} ELSE {}

VARIABLES
    at,        \* at[t][o]: where thread t is in the function that gets o
    mutex,     \* mutex[o]: the thread that holds the mutex of o
    ptr,       \* the objects whose pointer other threads see
    whole,     \* the objects that other threads see built
    builds,    \* history: how often o was built
    ordered    \* the build keeps the order of the stores

singletons == <<at, mutex, ptr, whole, builds, ordered>>

\* "out": the thread does not have o; "got": the function has returned it.
Labels == {"out", "check", "lock", "recheck", "arguments", "build", "half",
           "unlock", "got"}

SingletonsInit ==
    /\ at = [t \in Threads |-> [o \in Objects |-> "out"]]
    /\ mutex = [o \in Objects |-> NoThread]
    /\ ptr = {}
    /\ whole = {}
    /\ builds = [o \in Objects |-> 0]
    /\ ordered \in BOOLEAN

Move(t, o, from, to) ==
    /\ at[t][o] = from
    /\ at' = [at EXCEPT ![t][o] = to]

\* Thread t calls the function that gets o.
Get(t, o) ==
    /\ Move(t, o, "out", "check")
    /\ UNCHANGED <<mutex, ptr, whole, builds, ordered>>

\* The first look at the pointer, without the lock
Check(t, o) ==
    /\ Move(t, o, "check", IF o \in ptr THEN "got" ELSE "lock")
    /\ UNCHANGED <<mutex, ptr, whole, builds, ordered>>

Lock(t, o) ==
    /\ mutex[o] = NoThread
    /\ Move(t, o, "lock", "recheck")
    /\ mutex' = [mutex EXCEPT ![o] = t]
    /\ UNCHANGED <<ptr, whole, builds, ordered>>

\* Slip: no second look at the pointer under the lock.
RecheckForgotten(t, o) ==
    /\ Move(t, o, "recheck", "arguments")
    /\ UNCHANGED <<mutex, ptr, whole, builds, ordered>>

\* The second look, under the lock
Recheck(t, o) ==
    /\ Move(t, o, "recheck", IF o \in ptr THEN "unlock" ELSE "arguments")
    /\ UNCHANGED <<mutex, ptr, whole, builds, ordered>>

\* The arguments of make_unique: the thread gets the singletons among them
\* while it holds the mutex of o.
Argument(t, o) == at[t][o] = "arguments" /\ \E n \in Needs(o) : Get(t, n)

ArgumentsReady(t, o) ==
    /\ \A n \in Needs(o) : at[t][n] = "got"
    /\ Move(t, o, "arguments", "build")
    /\ UNCHANGED <<mutex, ptr, whole, builds, ordered>>

\* Slip: the pointer is set before the object is built.
BuildEarlyPointer(t, o) ==
    /\ Move(t, o, "build", "half")
    /\ builds' = [builds EXCEPT ![o] = @ + 1]
    /\ ptr' = ptr \cup {o}
    /\ UNCHANGED <<mutex, whole, ordered>>

\* make_unique and the assignment: others see the pointer or the object first.
Build(t, o) ==
    /\ Move(t, o, "build", "half")
    /\ builds' = [builds EXCEPT ![o] = @ + 1]
    /\ IF ordered THEN whole' = whole \cup {o} /\ UNCHANGED ptr
                  ELSE ptr' = ptr \cup {o} /\ UNCHANGED whole
    /\ UNCHANGED <<mutex, ordered>>

\* Now they see both.
Built(t, o) ==
    /\ Move(t, o, "half", "unlock")
    /\ ptr' = ptr \cup {o}
    /\ whole' = whole \cup {o}
    /\ UNCHANGED <<mutex, builds, ordered>>

Unlock(t, o) ==
    /\ Move(t, o, "unlock", "got")
    /\ mutex' = [mutex EXCEPT ![o] = NoThread]
    /\ UNCHANGED <<ptr, whole, builds, ordered>>

\* A step of thread t inside the function that gets o
SingletonStep(t, o) ==
    \/ Check(t, o)
    \/ Lock(t, o)
    \/ Recheck(t, o)
    \/ Argument(t, o)
    \/ ArgumentsReady(t, o)
    \/ Build(t, o)
    \/ Built(t, o)
    \/ Unlock(t, o)

\* The callback of thread t is over, and with it the pointers it got.
DropPointers(t) ==
    /\ at' = [at EXCEPT ![t] = [o \in Objects |-> "out"]]
    /\ UNCHANGED <<mutex, ptr, whole, builds, ordered>>

-----------------------------------------------------------------------------

SingletonsTypeOK ==
    /\ at \in [Threads -> [Objects -> Labels]]
    /\ mutex \in [Objects -> Threads \cup {NoThread}]
    /\ ptr \subseteq Objects
    /\ whole \subseteq Objects
    /\ builds \in [Objects -> Nat]
    /\ ordered \in BOOLEAN

\* No object is built twice, however the threads meet: a second build would
\* destroy the object that a thread has got.
BuiltOnce == \A o \in Objects : builds[o] <= 1

\* A thread that has got an object sees it built.  If the build does not keep
\* the order of its stores this may fail, but only while another thread is
\* still inside the lock of the object.
BuiltBeforeUse ==
    \A t \in Threads, o \in Objects :
        at[t][o] = "got" => (o \in whole \/ (~ordered /\ mutex[o] \notin {t, NoThread}))
=============================================================================
