---------------------------- MODULE UserDbProofs ----------------------------
(***************************************************************************)
(* Proofs about UserDb, for every number of threads, clients and names.    *)
(***************************************************************************)
EXTENDS UserDb, TLAPS

\* What a call has achieved at each of its labels: an INSERT that went through
\* without an answer has left a broken connection, on which PQprepare fails; and
\* only a connection known to be lost gives no result.
Progress ==
    \A t \in Threads :
        /\ pc[t] \in {"get", "exec", "requery"} => ~inserted[t]
        /\ pc[t] = "prepare" /\ inserted[t] => client[t] \in broken
        /\ result[t] = "taken" => ~inserted[t]
        /\ result[t] \in {"ok", "taken", "missing"} => ran[t] = query[t]
        /\ pc[t] \in {"idle", "get", "exec"} => result[t] = "none" /\ ~inserted[t]
        /\ pc[t] \in {"prepare", "requery"} => result[t] # "ok"
        /\ result[t] = "null" => client[t] \in dead

\* A name that a registration may send, and a row therefore is
Valid(u) == MakeUser(u).error = "none" /\ Trim(u) = u

\* Rows are valid and stay; a login that misses one did not ask for it.
Rows ==
    /\ \A u \in rows : Valid(u)
    /\ registered \subseteq rows
    /\ \A t \in Threads :
        /\ known[t] => Trim(given[t]) \in rows
        /\ pc[t] # "idle" /\ query[t] = "insert" => MakeUser(given[t]).error = "none"
        /\ pc[t] = "release" /\ query[t] = "insert" /\ result[t] = "ok"
                => Trim(given[t]) \in rows
        /\ result[t] = "missing" /\ known[t] => given[t].pad > 0
        /\ result[t] # "refused"

Base == TypeOK /\ Progress

IInv == Base /\ Rows

\* The two statements take different numbers of parameters: that alone keeps
\* the server from running one in place of the other.
LEMMA ArityDistinguishes ==
    ASSUME NEW p \in Queries, NEW q \in Queries, Arity(p) = Arity(q)
    PROVE  p = q
BY DEF Queries, Arity

\* Trimming is done once, and what it has trimmed passes as well as before.
LEMMA TrimTrim ==
    ASSUME NEW u \in Strings
    PROVE  /\ Trim(u) \in Strings
           /\ Trim(Trim(u)) = Trim(u)
           /\ Trim(u) # u => u.pad > 0
           /\ MakeUser(Trim(u)).error = MakeUser(u).error
<1>1. Trim(u) \in Strings /\ Trim(Trim(u)) = Trim(u)
    BY DEF Strings, Trim
<1>2. Trim(u) # u => u.pad > 0
    BY DEF Strings, Trim
<1>3. ValidateUsername(Trim(u)) = ValidateUsername(u)
    BY <1>1 DEF ValidateUsername
<1> QED
    BY <1>1, <1>2, <1>3 DEF MakeUser

LEMMA Found3 ==
    ASSUME NEW u PROVE Found(u) \in {"missing", "refused", "ok"}
BY DEF Found

LEMMA ArgString ==
    ASSUME TypeOK, NEW t \in Threads
    PROVE  given[t] \in Strings /\ Trim(given[t]) \in Strings /\ Arg(t) \in Strings
BY NamesAssumption, TrimTrim DEF TypeOK, Arg, MakeUser

LEMMA AnybodyName == Anybody \in Names
BY NamesAssumption DEF Anybody

LEMMA InitBase == Init => Base
BY NoClientAssumption, AnybodyName DEF Init, Base, TypeOK, Progress, Queries, Labels, Results

LEMMA ExecPreparedBase ==
    ASSUME Base, NEW t \in Threads, NEW from \in {"exec", "requery"},
           NEW fatal \in {"prepare", "release"},
           ExecPrepared(t, from, "release", fatal)
    PROVE  Base'
<1> USE DEF Base, TypeOK, Progress, Goto, Labels, Results, Queries, server, connections, call
<1>1. client[t] \in Clients /\ StatementName(query[t]) \in StatementNames
    BY DEF ExecPrepared, Refused, NoResult, Selected, Inserted, Taken, AnswerLost,
           StatementNames
<1>2. Bound(t) \in Queries \cup {"none"}
    BY <1>1 DEF Bound
<1>3. Runs(t) => Bound(t) = query[t]
    BY <1>2, ArityDistinguishes DEF Runs
<1>0. Arg(t) \in Strings
    BY ArgString
<1>4. CASE Refused(t, from, fatal)
    BY <1>4 DEF Refused, Noticed, ExecPrepared
<1>9. CASE NoResult(t, from, fatal)
    BY <1>9 DEF NoResult, ExecPrepared
<1>5. CASE Selected(t, from, "release")
    <2>1. PICK r \in {"missing", "refused", "ok"} : result' = [result EXCEPT ![t] = r]
        BY <1>5, Found3 DEF Selected
    <2> QED
        BY <1>3, <1>5, <2>1 DEF Selected, ExecPrepared
<1>6. CASE Inserted(t, from, "release")
    BY <1>3, <1>6, <1>0 DEF Inserted, ExecPrepared
<1>7. CASE Taken(t, from, fatal)
    BY <1>3, <1>7 DEF Taken, ExecPrepared
<1>8. CASE AnswerLost(t, from, fatal)
    BY <1>1, <1>8, <1>0 DEF AnswerLost, ExecPrepared
<1> QED
    BY <1>4, <1>5, <1>6, <1>7, <1>8, <1>9 DEF ExecPrepared

LEMMA BeginBase ==
    ASSUME Base, NEW t \in Threads, NEW q \in Queries, NEW u \in Names, Begin(t, q, u)
    PROVE  Base'
BY DEF Base, TypeOK, Progress, Begin, Goto, Labels, Results, server, connections, call,
       Queries

LEMMA NextBase == Base /\ [Next]_vars => Base'
<1> SUFFICES ASSUME Base, [Next]_vars PROVE Base'
    OBVIOUS
<1> USE NoClientAssumption DEF Base, TypeOK, Progress, Goto, Labels, Results,
        Queries, server, connections, call
<1>1. ASSUME NEW t \in Threads, Login(t) PROVE Base'
    BY <1>1, BeginBase DEF Login
<1>9. ASSUME NEW t \in Threads, Register(t) PROVE Base'
    BY <1>9, BeginBase DEF Register
<1>2. ASSUME NEW t \in Threads, GetClient(t) PROVE Base'
    BY <1>2 DEF GetClient, Free
<1>3. ASSUME NEW t \in Threads, Exec(t) PROVE Base'
    BY <1>3, ExecPreparedBase DEF Exec
<1>4. ASSUME NEW t \in Threads, Prepare(t) PROVE Base'
    <2>1. client[t] \in Clients /\ StatementName(query[t]) \in StatementNames
        BY <1>4 DEF Prepare, StatementNames
    <2>2. prepared' \in [Clients -> [StatementNames -> Queries \cup {"none"}]]
        <3>1. [prepared[client[t]] EXCEPT ![StatementName(query[t])] = query[t]]
                \in [StatementNames -> Queries \cup {"none"}]
            BY <2>1
        <3>2. CASE UNCHANGED prepared
            BY <3>2
        <3>3. CASE prepared' = [prepared EXCEPT ![client[t]] =
                        [@ EXCEPT ![StatementName(query[t])] = query[t]]]
            BY <2>1, <3>1, <3>3
        <3> QED
            BY <1>4, <3>2, <3>3 DEF Prepare
    <2>3. CASE client[t] \in broken \/ Bound(t) # "none"
        BY <1>4, <2>2, <2>3 DEF Prepare, Noticed
    <2>4. CASE client[t] \notin broken /\ Bound(t) = "none"
        <3>1. pc[t] = "prepare" /\ pc' = [pc EXCEPT ![t] = "requery"]
            BY <1>4, <2>4 DEF Prepare
        <3>2. ~inserted[t]
            BY <2>4, <3>1
        <3>3. /\ UNCHANGED <<rows, broken, query, given, known, registered, client, result,
                           ran, inserted>>
              /\ dead' = Noticed(t)
            BY <1>4 DEF Prepare
        <3> QED
            BY <2>2, <3>1, <3>2, <3>3 DEF Noticed
    <2> QED
        BY <2>3, <2>4
<1>5. ASSUME NEW t \in Threads, Requery(t) PROVE Base'
    BY <1>5, ExecPreparedBase DEF Requery
<1>6. ASSUME NEW t \in Threads, ReleaseClient(t) PROVE Base'
    <2>1. registered' \subseteq Strings
        BY <1>6, ArgString DEF ReleaseClient
    <2> QED
        BY <1>6, <2>1, AnybodyName DEF ReleaseClient
<1>10. ASSUME NEW t \in Threads, Terminate(t) PROVE Base'
    BY <1>10, AnybodyName DEF Terminate
<1>7. ASSUME NEW c \in Clients, Disconnect(c) PROVE Base'
    BY <1>7 DEF Disconnect
<1>8. CASE UNCHANGED vars
    BY <1>8 DEF vars
<1> QED
    BY <1>1, <1>2, <1>3, <1>4, <1>5, <1>6, <1>7, <1>8, <1>9, <1>10 DEF Next, Step

LEMMA InitIInv == Init => IInv
BY InitBase DEF Init, IInv, Rows

\* A step that leaves the table alone and what Rows says of threads
LEMMA RowsKept ==
    ASSUME Rows, UNCHANGED <<rows, registered, query, given, known, result>>,
           \A t \in Threads : pc'[t] \in {"idle", "release"} => pc[t] = pc'[t] \/ result[t] # "ok",
           \A t \in Threads : pc'[t] # "idle" => pc[t] # "idle"
    PROVE  Rows'
BY DEF Rows, Valid

LEMMA ExecPreparedRows ==
    ASSUME IInv, NEW t \in Threads, NEW from \in {"exec", "requery"},
           NEW fatal \in {"prepare", "release"},
           ExecPrepared(t, from, "release", fatal)
    PROVE  Rows'
<1> DEFINE u == given[t]
<1>1. /\ given \in [Threads -> Names] /\ pc \in [Threads -> Labels]
      /\ result \in [Threads -> Results] /\ query \in [Threads -> Queries]
      /\ u \in Strings
    BY NamesAssumption DEF IInv, Base, TypeOK
<1>2. /\ pc[t] = from /\ pc' \in {[pc EXCEPT ![t] = "release"], [pc EXCEPT ![t] = fatal]}
      /\ UNCHANGED <<query, given, known, registered>>
    BY DEF ExecPrepared, Refused, NoResult, Selected, Inserted, Taken, AnswerLost, Goto, call
<1>3. client[t] \in Clients /\ StatementName(query[t]) \in StatementNames
    BY <1>1, <1>2 DEF IInv, Base, TypeOK, StatementNames
<1>4. Bound(t) \in Queries \cup {"none"}
    BY <1>3 DEF Bound, IInv, Base, TypeOK
<1>5. Runs(t) => Bound(t) = query[t]
    BY <1>1, <1>4, ArityDistinguishes DEF Runs
<1>6. /\ Trim(u) \in Strings /\ Trim(Trim(u)) = Trim(u) /\ (Trim(u) # u => u.pad > 0)
      /\ MakeUser(Trim(u)).error = MakeUser(u).error
    BY <1>1, TrimTrim
<1>7. query[t] = "insert" => Arg(t) = Trim(u) /\ Valid(Trim(u))
    BY <1>2, <1>6 DEF Arg, MakeUser, Valid, IInv, Rows
<1>8. query[t] = "select" => Arg(t) = u
    BY DEF Arg
<1>9. CASE Refused(t, from, fatal) \/ NoResult(t, from, fatal) \/ Taken(t, from, fatal)
    <2>1. /\ UNCHANGED rows
          /\ \E r \in {"error", "null", "taken"} : result' = [result EXCEPT ![t] = r]
        BY <1>9 DEF Refused, NoResult, Taken, server
    <2> QED
        BY <1>1, <1>2, <2>1 DEF IInv, Rows, Valid
<1>10. CASE Selected(t, from, "release")
    <2>1. UNCHANGED rows /\ query[t] = "select"
        BY <1>5, <1>10 DEF Selected, server
    <2>2. PICK r : /\ result' = [result EXCEPT ![t] = r]
                   /\ r # "refused"
                   /\ r = "missing" => u \notin rows
        <3>1. u \in rows => MakeUser(u).error = "none"
            BY DEF IInv, Rows, Valid
        <3>2. Found(u) # "refused" /\ (Found(u) = "missing" => u \notin rows)
            BY <3>1 DEF Found
        <3> QED
            BY <1>8, <1>10, <2>1, <3>2 DEF Selected
    <2>3. result'[t] = "missing" /\ known[t] => u.pad > 0
        BY <1>1, <1>6, <2>2 DEF IInv, Rows
    <2> QED
        BY <1>1, <1>2, <2>1, <2>2, <2>3 DEF IInv, Rows, Valid
<1>11. CASE Inserted(t, from, "release")
    <2>1. /\ query[t] = "insert" /\ rows' = rows \cup {Trim(u)}
          /\ result' = [result EXCEPT ![t] = "ok"]
        BY <1>5, <1>7, <1>11 DEF Inserted
    <2> QED
        BY <1>1, <1>2, <1>7, <2>1 DEF IInv, Rows, Valid
<1>12. CASE AnswerLost(t, from, fatal)
    <2>1. /\ query[t] = "insert" /\ rows' = rows \cup {Trim(u)}
          /\ result' = [result EXCEPT ![t] = "error"]
        BY <1>5, <1>7, <1>12 DEF AnswerLost
    <2> QED
        BY <1>1, <1>2, <1>7, <2>1 DEF IInv, Rows, Valid
<1> QED
    BY <1>9, <1>10, <1>11, <1>12 DEF ExecPrepared

LEMMA BeginRows ==
    ASSUME IInv, NEW t \in Threads, NEW q \in Queries, NEW u \in Names, Begin(t, q, u),
           q = "insert" => MakeUser(u).error = "none"
    PROVE  Rows'
<1>1. /\ pc[t] = "idle" /\ pc' = [pc EXCEPT ![t] = "get"]
      /\ query' = [query EXCEPT ![t] = q] /\ given' = [given EXCEPT ![t] = u]
      /\ known' = [known EXCEPT ![t] = Trim(u) \in registered]
      /\ UNCHANGED <<rows, registered, result>>
    BY DEF Begin, Goto, server
<1>2. /\ pc \in [Threads -> Labels] /\ query \in [Threads -> Queries]
      /\ given \in [Threads -> Names] /\ known \in [Threads -> BOOLEAN]
      /\ result[t] = "none"
    BY <1>1 DEF IInv, Base, TypeOK, Progress
<1> QED
    BY <1>1, <1>2 DEF IInv, Rows, Valid

LEMMA NextRows == IInv /\ [Next]_vars => Rows'
<1> SUFFICES ASSUME IInv, [Next]_vars PROVE Rows'
    OBVIOUS
<1>0. /\ Rows /\ pc \in [Threads -> Labels] /\ result \in [Threads -> Results]
      /\ known \in [Threads -> BOOLEAN] /\ query \in [Threads -> Queries]
      /\ given \in [Threads -> Names]
    BY DEF IInv, Base, TypeOK
<1>1. ASSUME NEW t \in Threads, Login(t) PROVE Rows'
    BY <1>1, BeginRows DEF Login, Queries
<1>2. ASSUME NEW t \in Threads, Register(t) PROVE Rows'
    BY <1>2, BeginRows DEF Register, Queries
<1>3. ASSUME NEW t \in Threads, GetClient(t) PROVE Rows'
    BY <1>0, <1>3, RowsKept DEF GetClient, Goto, server, call
<1>4. ASSUME NEW t \in Threads, Exec(t) PROVE Rows'
    BY <1>4, ExecPreparedRows DEF Exec
<1>5. ASSUME NEW t \in Threads, Prepare(t) PROVE Rows'
    <2>1. result[t] # "ok"
        BY <1>5 DEF Prepare, IInv, Base, Progress
    <2> QED
        BY <1>0, <1>5, <2>1, RowsKept DEF Prepare, Goto, call
<1>6. ASSUME NEW t \in Threads, Requery(t) PROVE Rows'
    BY <1>6, ExecPreparedRows DEF Requery
<1>7. ASSUME NEW t \in Threads, ReleaseClient(t) PROVE Rows'
    <2>1. /\ pc[t] = "release" /\ pc' = [pc EXCEPT ![t] = "idle"]
          /\ UNCHANGED rows
          /\ query' = [query EXCEPT ![t] = "select"]
          /\ given' = [given EXCEPT ![t] = Anybody]
          /\ result' = [result EXCEPT ![t] = "none"]
          /\ known' = [known EXCEPT ![t] = FALSE]
          /\ registered' = IF query[t] = "insert" /\ Reported(t) = "ok"
                           THEN registered \cup {Trim(given[t])} ELSE registered
        BY <1>7 DEF ReleaseClient, Goto, server
    <2>2. Reported(t) = "ok" => result[t] = "ok"
        BY DEF Reported
    <2>3. registered' \subseteq rows
        BY <1>0, <2>1, <2>2 DEF Rows
    <2> QED
        BY <1>0, <2>1, <2>3 DEF Rows, Valid
<1>10. ASSUME NEW t \in Threads, Terminate(t) PROVE Rows'
    BY <1>0, <1>10 DEF Terminate, Rows, Valid
<1>8. ASSUME NEW c \in Clients, Disconnect(c) PROVE Rows'
    BY <1>0, <1>8, RowsKept DEF Disconnect, call
<1>9. CASE UNCHANGED vars
    BY <1>0, <1>9, RowsKept DEF vars, server, call
<1> QED
    BY <1>1, <1>2, <1>3, <1>4, <1>5, <1>6, <1>7, <1>8, <1>9, <1>10 DEF Next, Step

LEMMA NextIInv == IInv /\ [Next]_vars => IInv'
BY NextBase, NextRows DEF IInv

LEMMA Invariance == Spec => []IInv
BY InitIInv, NextIInv, PTL DEF Spec

\* The variables keep their types, and a thread has a client exactly while it
\* is between get_client and release_client.
THEOREM TypeCorrect == Spec => []TypeOK
<1>1. IInv => TypeOK
    BY DEF IInv, Base
<1> QED
    BY <1>1, Invariance, PTL

\* What a call reports comes from its result; NULL is reported as a user not
\* found at best.
LEMMA ReportedResult ==
    ASSUME NEW t \in Threads
    PROVE  /\ Reported(t) # "missing" /\ Reported(t) # "thrown" => result[t] = Reported(t)
           /\ Reported(t) = "missing" => result[t] \in {"missing", "null"}
BY DEF Reported

\* A call that succeeds, or reports the username as taken or unknown, ran its own
\* statement, or has a connection known to be lost.
THEOREM RightStatementCorrect == Spec => []RightStatement
<1>1. IInv => RightStatement
    BY ReportedResult DEF IInv, Base, Progress, RightStatement
<1> QED
    BY <1>1, Invariance, PTL

\* No add_user reports as taken the username that it inserted itself.
THEOREM NotTakenByItselfCorrect == Spec => []NotTakenByItself
<1>1. IInv => NotTakenByItself
    BY ReportedResult DEF IInv, Base, Progress, NotTakenByItself
<1> QED
    BY <1>1, Invariance, PTL

\* make_user refuses no user whom a registration let in.
THEOREM RowsMakeUsersCorrect == Spec => []RowsMakeUsers
<1>1. IInv => RowsMakeUsers
    BY ReportedResult DEF IInv, Rows, RowsMakeUsers
<1> QED
    BY <1>1, Invariance, PTL

\* A login finds a registered user, unless it spaces the name or has a connection
\* known to be lost.
THEOREM UserFoundCorrect == Spec => []UserFound
<1>1. IInv => UserFound
    BY ReportedResult DEF IInv, Base, Progress, Rows, UserFound
<1> QED
    BY <1>1, Invariance, PTL

\* A registration is answered 201 only when its row is in the table, whether
\* connections are lost or the process ends.
THEOREM RegisteredStoredCorrect == Spec => []RegisteredStored
<1>1. IInv => RegisteredStored
    BY DEF IInv, Rows, RegisteredStored
<1> QED
    BY <1>1, Invariance, PTL
=============================================================================
