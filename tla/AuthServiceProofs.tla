------------------------- MODULE AuthServiceProofs -------------------------
(***************************************************************************)
(* Proofs about AuthService, for every number of workers, ids and users.   *)
(***************************************************************************)
EXTENDS AuthService, TLAPS

\* Which use case a worker runs at each label, and what it knows there of the
\* username and the session id of its request.
Control ==
    \A w \in Workers :
        /\ pc[w] \in {"find_user", "new_id", "set"} => method[w] = "login"
        /\ pc[w] = "insert" => method[w] = "register"
        /\ pc[w] = "get" => method[w] = "user"
        /\ pc[w] \in {"del", "log"} => method[w] = "logout"
        /\ pc[w] # "idle" /\ method[w] \in {"login", "register"} => name[w] \in Names
        /\ pc[w] \in {"new_id", "set"} => name[w] \in accounts
        /\ pc[w] = "set" => sid[w] \in Sids \cap drawn
        /\ pc[w] = "respond" /\ method[w] = "login" /\ status[w] = 204
             => sid[w] \in Sids

\* TypeOK is inductive only together with Control: what Insert adds to the
\* table and Respond to the known ids depends on how the worker got there.
TInv == TypeOK /\ Control

LEMMA InitTInv == Init => TInv
BY DEF Init, TInv, TypeOK, Control, Ids, Labels, Methods, Statuses

LEMMA BeginTInv ==
    ASSUME TInv, NEW w \in Workers, Begin(w)
    PROVE  TInv'
<1> USE DEF TInv, TypeOK, Begin, Goto, RequestIds, Ids, Labels, Methods,
        Statuses, stored, history
<1>1. TypeOK'
    OBVIOUS
<1>2. Control'
    BY <1>1 DEF Control
<1> QED
    BY <1>1, <1>2

\* The id that get_new_session_id settles on is one of Sids and is drawn.
LEMMA NewIdEffect ==
    ASSUME TypeOK, NEW w \in Workers, NewId(w)
    PROVE  /\ pc[w] = "new_id"
           /\ \E s \in NewIds : sid' = [sid EXCEPT ![w] = s] /\ drawn' = drawn \cup {s}
           /\ \E to \in {"new_id", "set"} : pc' = [pc EXCEPT ![w] = to]
           /\ UNCHANGED <<store, accounts, method, name, status, known, issued, revoked>>
BY DEF NewId, Continue, Goto, stored

\* After is_auth() a use case has answered or goes on to its own first call.
LEMMA StartEffect ==
    ASSUME NEW w \in Workers,
           LoginStart(w) \/ RegisterStart(w) \/ UserStart(w) \/ LogoutStart(w)
    PROVE  /\ UNCHANGED <<store, accounts, method, sid, name, known, drawn, issued, revoked>>
           /\ \/ \E code \in {400, 401, 403} : Answer(w, "is_auth", code)
              \/ method[w] = "login" /\ Continue(w, "is_auth", "find_user")
              \/ method[w] = "register" /\ Continue(w, "is_auth", "insert")
              \/ method[w] = "user" /\ Continue(w, "is_auth", "get")
              \/ method[w] = "logout" /\ Continue(w, "is_auth", "del")
<1>1. \A auth \in BOOLEAN : IsAuth(w, auth) =>
        UNCHANGED <<store, accounts, method, sid, name, known, drawn, issued, revoked>>
    BY DEF IsAuth, stored, history
<1>2. CASE LoginStart(w)
    BY <1>1, <1>2 DEF LoginStart
<1>3. CASE RegisterStart(w)
    BY <1>1, <1>3 DEF RegisterStart
<1>4. CASE UserStart(w)
    BY <1>1, <1>4 DEF UserStart
<1>5. CASE LogoutStart(w)
    BY <1>1, <1>5 DEF LogoutStart
<1> QED
    BY <1>2, <1>3, <1>4, <1>5

LEMMA StepTInv ==
    ASSUME TInv, NEW w \in Workers, Step(w)
    PROVE  TInv'
<1> USE DEF TInv, TypeOK, Control, Ids, Labels, Methods, Statuses, stored,
        history, Answer, Continue, Goto
<1>1. CASE LoginStart(w) \/ RegisterStart(w) \/ UserStart(w) \/ LogoutStart(w)
    BY <1>1, StartEffect
<1>2. CASE FindUser(w)
    BY <1>2 DEF FindUser
<1>3. CASE NewId(w)
    BY <1>3, NewIdEffect DEF NewIds
<1>4. CASE SetSession(w)
    BY <1>4 DEF SetSession
<1>5. CASE Insert(w)
    BY <1>5 DEF Insert
<1>6. CASE GetSession(w)
    BY <1>6 DEF GetSession
<1>7. CASE DelSession(w)
    BY <1>7 DEF DelSession
<1>8. CASE LogFailure(w)
    BY <1>8 DEF LogFailure
<1>9. CASE Respond(w)
    BY <1>9 DEF Respond
<1> QED
    BY <1>1, <1>2, <1>3, <1>4, <1>5, <1>6, <1>7, <1>8, <1>9 DEF Step

LEMMA CrashTInv ==
    ASSUME TInv, Crash
    PROVE  TInv'
BY DEF TInv, TypeOK, Control, Crash, Ids, Labels, Methods, Statuses, stored, history

LEMMA StutterTInv ==
    ASSUME TInv, UNCHANGED vars
    PROVE  TInv'
BY DEF TInv, TypeOK, Control, vars, stored, history

LEMMA NextTInv == TInv /\ [Next]_vars => TInv'
BY BeginTInv, StepTInv, CrashTInv, StutterTInv DEF Next

LEMMA TypeInvariance == Spec => []TInv
BY InitTInv, NextTInv, PTL DEF Spec

\* The variables keep their types, whatever ids are drawn, whatever the store
\* refuses and whenever the process dies.
THEOREM TypeCorrect == Spec => []TypeOK
<1>1. TInv => TypeOK
    BY DEF TInv
<1> QED
    BY <1>1, TypeInvariance, PTL

-----------------------------------------------------------------------------
(* Ids that do not repeat, any number of workers *)

\* An id no login has drawn was never used.
Unused ==
    \A s \in Ids : s \notin drawn =>
        store[s] = NoUser /\ issued[s] = NoUser /\ s \notin revoked

\* Between the draw of an id and the SET, nobody else has or uses the id.
Pending ==
    \A w \in Workers : pc[w] = "set" =>
        /\ store[sid[w]] = NoUser
        /\ issued[sid[w]] = NoUser
        /\ sid[w] \notin revoked
        /\ \A v \in Workers : pc[v] = "set" /\ v # w => sid[v] # sid[w]

\* A live session is that of the login that drew its id, and was not deleted.
Live ==
    \A s \in Ids : store[s] # NoUser => store[s] = issued[s] /\ s \notin revoked

\* A user about to be told was read from a session that had been issued.
Told ==
    \A w \in Workers :
        (pc[w] = "respond" /\ method[w] = "user" /\ status[w] = 200)
            => name[w] = issued[sid[w]] /\ name[w] # NoUser

Fresh == Unused /\ Pending /\ Live /\ Told

IInv == TInv /\ Fresh

LEMMA InitFresh == Init => Fresh
BY DEF Init, Fresh, Unused, Pending, Live, Told

LEMMA BeginFresh ==
    ASSUME TInv, Fresh, NEW w \in Workers, Begin(w)
    PROVE  Fresh'
BY DEF TInv, TypeOK, Fresh, Unused, Pending, Live, Told, Begin, Goto, Labels,
   stored, history

LEMMA StepFresh ==
    ASSUME FreshDraws, TInv, TInv', Fresh, NEW w \in Workers, Step(w)
    PROVE  Fresh'
<1> USE NamesAssumption DEF TInv, TypeOK, Control, Fresh, Unused, Pending, Live,
        Told, Answer, Continue, Goto, stored, history
<1>1. CASE LoginStart(w) \/ RegisterStart(w) \/ UserStart(w) \/ LogoutStart(w)
    BY <1>1, StartEffect
<1>2. CASE FindUser(w)
    BY <1>2 DEF FindUser
<1>3. CASE NewId(w)
    BY <1>3, NewIdEffect DEF NewIds, Ids
<1>4. CASE SetSession(w)
    BY <1>4 DEF SetSession
<1>5. CASE Insert(w)
    BY <1>5 DEF Insert
<1>6. CASE GetSession(w)
    BY <1>6 DEF GetSession
<1>7. CASE DelSession(w)
    BY <1>7 DEF DelSession
<1>8. CASE LogFailure(w)
    BY <1>8 DEF LogFailure
<1>9. CASE Respond(w)
    BY <1>9 DEF Respond
<1> QED
    BY <1>1, <1>2, <1>3, <1>4, <1>5, <1>6, <1>7, <1>8, <1>9 DEF Step

LEMMA CrashFresh ==
    ASSUME TInv, Fresh, Crash
    PROVE  Fresh'
BY DEF TInv, TypeOK, Fresh, Unused, Pending, Live, Told, Crash, stored, history

LEMMA StutterFresh ==
    ASSUME Fresh, UNCHANGED vars
    PROVE  Fresh'
BY DEF Fresh, Unused, Pending, Live, Told, vars, stored, history

\* IInv is an inductive invariant when ids do not repeat.
LEMMA FreshInvariance ==
    ASSUME FreshDraws
    PROVE  Spec => []IInv
<1>1. Init => IInv
    BY InitTInv, InitFresh DEF IInv
<1>2. IInv /\ [Next]_vars => IInv'
    <2> SUFFICES ASSUME IInv, [Next]_vars PROVE Fresh'
        BY NextTInv DEF IInv
    <2>1. TInv'
        BY NextTInv DEF IInv
    <2>2. ASSUME NEW w \in Workers, Begin(w) PROVE Fresh'
        BY <2>2, BeginFresh DEF IInv
    <2>3. ASSUME NEW w \in Workers, Step(w) PROVE Fresh'
        BY <2>1, <2>3, StepFresh DEF IInv
    <2>4. CASE Crash
        BY <2>4, CrashFresh DEF IInv
    <2>5. CASE UNCHANGED vars
        BY <2>5, StutterFresh DEF IInv
    <2> QED
        BY <2>2, <2>3, <2>4, <2>5 DEF Next
<1> QED
    BY <1>1, <1>2, PTL DEF Spec

\* How a step changes the store and the table: they stay, a login sets its new
\* id, a logout deletes its id, or a registration adds its username.
StoreStep(w) ==
    \/ UNCHANGED stored
    \/ /\ pc[w] = "set"
       /\ store' = [store EXCEPT ![sid[w]] = name[w]]
       /\ UNCHANGED accounts
    \/ /\ pc[w] = "del" /\ store[sid[w]] # NoUser
       /\ store' = [store EXCEPT ![sid[w]] = NoUser]
       /\ UNCHANGED accounts
    \/ /\ pc[w] = "insert" /\ name[w] \notin accounts
       /\ accounts' = accounts \cup {name[w]}
       /\ UNCHANGED store

LEMMA NextStoreStep ==
    ASSUME TypeOK, Next
    PROVE  UNCHANGED stored \/ \E w \in Workers : StoreStep(w)
<1>1. ASSUME NEW w \in Workers, Step(w) PROVE StoreStep(w)
    <2> USE DEF TypeOK, StoreStep, stored, Answer, Continue, Goto
    <2>1. CASE LoginStart(w) \/ RegisterStart(w) \/ UserStart(w) \/ LogoutStart(w)
        BY <2>1, StartEffect
    <2>2. CASE FindUser(w)
        BY <2>2 DEF FindUser
    <2>3. CASE NewId(w)
        BY <2>3, NewIdEffect
    <2>4. CASE SetSession(w)
        BY <2>4 DEF SetSession
    <2>5. CASE Insert(w)
        <3>1. pc[w] = "insert" /\ UNCHANGED store
            BY <2>5 DEF Insert
        <3>2. accounts' = accounts \/ accounts' = accounts \cup {name[w]}
            BY <2>5 DEF Insert
        <3>3. name[w] \in accounts => accounts \cup {name[w]} = accounts
            OBVIOUS
        <3> QED
            BY <3>1, <3>2, <3>3
    <2>6. CASE GetSession(w)
        BY <2>6 DEF GetSession
    <2>7. CASE DelSession(w)
        BY <2>7 DEF DelSession
    <2>8. CASE LogFailure(w)
        BY <2>8 DEF LogFailure
    <2>9. CASE Respond(w)
        BY <2>9 DEF Respond
    <2> QED
        BY <1>1, <2>1, <2>2, <2>3, <2>4, <2>5, <2>6, <2>7, <2>8, <2>9 DEF Step
<1>2. ASSUME NEW w \in Workers, Begin(w) PROVE UNCHANGED stored
    BY <1>2 DEF Begin
<1>3. CASE Crash
    BY <1>3 DEF Crash
<1> QED
    BY <1>1, <1>2, <1>3 DEF Next

\* A deleted session stays deleted, however logins and logouts overlap.
THEOREM RevokedStaysDeadCorrect ==
    ASSUME FreshDraws
    PROVE  Spec => []RevokedStaysDead
<1>1. IInv => RevokedStaysDead
    BY DEF IInv, TInv, TypeOK, Fresh, Live, RevokedStaysDead
<1> QED
    BY <1>1, FreshInvariance, PTL

\* GET /user never tells another user than the one the session was opened for.
THEOREM OwnSessionCorrect ==
    ASSUME FreshDraws
    PROVE  Spec => []OwnSession
<1>1. IInv => OwnSession
    BY DEF IInv, Fresh, Told, OwnSession
<1> QED
    BY <1>1, FreshInvariance, PTL

\* No login takes over a live session, with any number of workers, even when
\* the store answers EXISTS with an error.
THEOREM NoTakeoverCorrect ==
    ASSUME FreshDraws
    PROVE  Spec => NoTakeover
<1>1. IInv /\ [Next]_vars =>
        [\A s \in Ids : store[s] # NoUser => store'[s] \in {store[s], NoUser}]_vars
    <2> SUFFICES ASSUME IInv, Next, NEW s \in Ids, store[s] # NoUser
                 PROVE  store'[s] \in {store[s], NoUser}
        BY DEF vars
    <2>1. CASE UNCHANGED stored
        BY <2>1 DEF stored
    <2>2. ASSUME NEW w \in Workers, StoreStep(w)
          PROVE  store'[s] \in {store[s], NoUser}
        BY <2>2 DEF StoreStep, IInv, TInv, TypeOK, Fresh, Pending, stored
    <2> QED
        BY <2>1, <2>2, NextStoreStep DEF IInv, TInv
<1> QED
    BY <1>1, FreshInvariance, PTL DEF Spec, NoTakeover

\* Of several logouts of a session, one is answered 204.
THEOREM LogoutOnceCorrect ==
    ASSUME FreshDraws
    PROVE  Spec => LogoutOnce
<1>1. ASSUME TInv, Live, NEW v \in Workers, Step(v), NEW w \in Workers,
             method[w] = "logout", status[w] # 204, status'[w] = 204
      PROVE  sid[w] \notin revoked
    <2> USE <1>1 DEF TInv, TypeOK, Control, Answer, Continue, Goto
    <2>1. CASE LoginStart(v) \/ RegisterStart(v) \/ UserStart(v) \/ LogoutStart(v)
        BY <2>1, StartEffect
    <2>2. CASE FindUser(v)
        BY <2>2 DEF FindUser
    <2>3. CASE NewId(v)
        BY <2>3, NewIdEffect
    <2>4. CASE SetSession(v)
        BY <2>4 DEF SetSession
    <2>5. CASE Insert(v)
        BY <2>5 DEF Insert
    <2>6. CASE GetSession(v)
        BY <2>6 DEF GetSession
    <2>7. CASE DelSession(v)
        BY <2>7 DEF DelSession, Live
    <2>8. CASE LogFailure(v)
        BY <2>8 DEF LogFailure
    <2>9. CASE Respond(v)
        BY <2>9 DEF Respond
    <2> QED
        BY <2>1, <2>2, <2>3, <2>4, <2>5, <2>6, <2>7, <2>8, <2>9 DEF Step
<1>2. IInv /\ [Next]_vars =>
        [\A w \in Workers : (method[w] = "logout" /\ status[w] # 204 /\ status'[w] = 204)
                                => sid[w] \notin revoked]_vars
    <2> SUFFICES ASSUME IInv, Next, NEW w \in Workers,
                        method[w] = "logout", status[w] # 204, status'[w] = 204
                 PROVE  sid[w] \notin revoked
        BY DEF vars
    <2>1. \A v \in Workers : ~Begin(v)
        BY DEF Begin
    <2>2. ~Crash
        BY DEF Crash
    <2> QED
        BY <1>1, <2>1, <2>2 DEF Next, IInv, Fresh
<1> QED
    BY <1>2, FreshInvariance, PTL DEF Spec, LogoutOnce

\* Accounts and sessions change as the abstract specification allows.
THEOREM Implements ==
    ASSUME FreshDraws
    PROVE  Spec => ImplementsSessions
<1>1. Init => Abstract!Init
    BY DEF Init, Abstract!Init
<1>2. IInv /\ [Next]_vars => [Abstract!Next]_stored
    <2> SUFFICES ASSUME IInv, [Next]_vars PROVE [Abstract!Next]_stored
        OBVIOUS
    <2>1. CASE UNCHANGED stored
        BY <2>1
    <2>2. ASSUME NEW w \in Workers, StoreStep(w) PROVE [Abstract!Next]_stored
        <3> USE DEF IInv, TInv, TypeOK, Control, Fresh, Pending, Ids, stored
        <3>1. CASE pc[w] = "set" /\ store' = [store EXCEPT ![sid[w]] = name[w]]
                     /\ UNCHANGED accounts
            <4>1. Abstract!Open(sid[w], name[w]) /\ name[w] \in Names /\ sid[w] \in Ids
                BY <3>1 DEF Abstract!Open
            <4> QED
                BY <4>1 DEF Abstract!Next
        <3>2. CASE pc[w] = "del" /\ store[sid[w]] # NoUser
                     /\ store' = [store EXCEPT ![sid[w]] = NoUser]
                     /\ UNCHANGED accounts
            <4>1. Abstract!Close(sid[w]) /\ sid[w] \in Ids
                BY <3>2 DEF Abstract!Close
            <4> QED
                BY <4>1 DEF Abstract!Next
        <3>3. CASE pc[w] = "insert" /\ name[w] \notin accounts
                     /\ accounts' = accounts \cup {name[w]}
                     /\ UNCHANGED store
            <4>1. Abstract!Enroll(name[w]) /\ name[w] \in Names
                BY <3>3 DEF Abstract!Enroll
            <4> QED
                BY <4>1 DEF Abstract!Next
        <3> QED
            BY <2>2, <3>1, <3>2, <3>3 DEF StoreStep
    <2>3. CASE UNCHANGED vars
        BY <2>3 DEF vars, stored
    <2> QED
        BY <2>1, <2>2, <2>3, NextStoreStep DEF IInv, TInv
<1> QED
    BY <1>1, <1>2, FreshInvariance, PTL DEF Spec, ImplementsSessions, Abstract!Spec,
       Abstract!vars, stored

-----------------------------------------------------------------------------
(* Ids that may repeat, one worker *)

\* The collision check still holds when the session is stored.
Checked == \A w \in Workers : pc[w] = "set" => store[sid[w]] = NoUser

\* With one worker and no error replies, the collision check is enough: a login
\* takes over no live session even if random ids repeat.
THEOREM NoTakeoverOneWorker ==
    ASSUME NEW w \in Workers, Workers = {w}, ~StoreErrors
    PROVE  Spec => NoTakeover
<1> DEFINE OInv == TInv /\ Checked
<1>1. Init => OInv
    BY InitTInv DEF Init, Checked
<1>2. OInv /\ [Next]_vars => OInv'
    <2> SUFFICES ASSUME OInv, [Next]_vars PROVE Checked'
        BY NextTInv
    <2> USE DEF TInv, TypeOK, Checked, Answer, Continue, Goto, stored, history
    <2>1. CASE Begin(w)
        BY <2>1 DEF Begin, Labels
    <2>2. CASE Step(w)
        <3>1. CASE LoginStart(w) \/ RegisterStart(w) \/ UserStart(w) \/ LogoutStart(w)
            BY <3>1, StartEffect
        <3>2. CASE FindUser(w)
            BY <3>2 DEF FindUser
        <3>3. CASE NewId(w)
            BY <3>3 DEF NewId, NewIds, ExistsReply, Ids
        <3>4. CASE SetSession(w)
            BY <3>4 DEF SetSession
        <3>5. CASE Insert(w)
            BY <3>5 DEF Insert
        <3>6. CASE GetSession(w)
            BY <3>6 DEF GetSession
        <3>7. CASE DelSession(w)
            BY <3>7 DEF DelSession
        <3>8. CASE LogFailure(w)
            BY <3>8 DEF LogFailure
        <3>9. CASE Respond(w)
            BY <3>9 DEF Respond
        <3> QED
            BY <2>2, <3>1, <3>2, <3>3, <3>4, <3>5, <3>6, <3>7, <3>8, <3>9 DEF Step
    <2>3. CASE Crash
        BY <2>3 DEF Crash
    <2>4. CASE UNCHANGED vars
        BY <2>4 DEF vars
    <2> QED
        BY <2>1, <2>2, <2>3, <2>4 DEF Next
<1>3. OInv /\ [Next]_vars =>
        [\A s \in Ids : store[s] # NoUser => store'[s] \in {store[s], NoUser}]_vars
    <2> SUFFICES ASSUME OInv, Next, NEW s \in Ids, store[s] # NoUser
                 PROVE  store'[s] \in {store[s], NoUser}
        BY DEF vars
    <2>1. CASE UNCHANGED stored
        BY <2>1 DEF stored
    <2>2. CASE StoreStep(w)
        BY <2>2 DEF StoreStep, Checked, TInv, TypeOK, stored
    <2> QED
        BY <2>1, <2>2, NextStoreStep DEF TInv
<1> HIDE DEF OInv
<1> QED
    BY <1>1, <1>2, <1>3, PTL DEF Spec, NoTakeover

-----------------------------------------------------------------------------
(* A store without errors *)

\* A login answered 204 opened a session that lasts until a logout ends it:
\* with any number of workers, and even if random ids repeat.  set_byte_array's
\* result is ignored, so only a store that refuses no command gives this.
THEOREM LoginSticksCorrect ==
    ASSUME ~StoreErrors
    PROVE  Spec => []LoginSticks
<1>1. Init => LoginSticks
    BY DEF Init, LoginSticks
<1>2. TInv /\ LoginSticks /\ [Next]_vars => LoginSticks'
    <2> SUFFICES ASSUME TInv, LoginSticks, [Next]_vars PROVE LoginSticks'
        OBVIOUS
    <2> USE DEF TInv, TypeOK, LoginSticks, Answer, Continue, Goto
    <2>1. ASSUME UNCHANGED <<store, issued, revoked>> PROVE LoginSticks'
        BY <2>1
    <2>2. ASSUME NEW w \in Workers, Step(w) PROVE LoginSticks'
        <3>1. CASE LoginStart(w) \/ RegisterStart(w) \/ UserStart(w) \/ LogoutStart(w)
            BY <2>1, <3>1, StartEffect
        <3>2. CASE FindUser(w)
            BY <2>1, <3>2 DEF FindUser, stored, history
        <3>3. CASE NewId(w)
            BY <2>1, <3>3, NewIdEffect
        <3>4. CASE SetSession(w)
            <4>1. store' = [store EXCEPT ![sid[w]] = name[w]]
                BY <3>4 DEF SetSession, Executed
            <4>2. issued' = [issued EXCEPT ![sid[w]] = name[w]] /\ UNCHANGED revoked
                BY <3>4 DEF SetSession
            <4> QED
                BY <4>1, <4>2
        <3>5. CASE Insert(w)
            BY <2>1, <3>5 DEF Insert, history
        <3>6. CASE GetSession(w)
            BY <2>1, <3>6 DEF GetSession, stored, history
        <3>7. CASE DelSession(w)
            <4>1. UNCHANGED issued
                BY <3>7 DEF DelSession
            <4>2. \/ UNCHANGED <<store, revoked>>
                  \/ /\ store' = [store EXCEPT ![sid[w]] = NoUser]
                     /\ revoked' = revoked \cup {sid[w]}
                BY <3>7 DEF DelSession
            <4> QED
                BY <4>1, <4>2
        <3>8. CASE LogFailure(w)
            BY <2>1, <3>8 DEF LogFailure, stored, history
        <3>9. CASE Respond(w)
            BY <2>1, <3>9 DEF Respond, stored, history
        <3> QED
            BY <2>2, <3>1, <3>2, <3>3, <3>4, <3>5, <3>6, <3>7, <3>8, <3>9 DEF Step
    <2>3. ASSUME NEW w \in Workers, Begin(w) PROVE LoginSticks'
        BY <2>1, <2>3 DEF Begin, stored, history
    <2>4. CASE Crash
        BY <2>1, <2>4 DEF Crash, stored, history
    <2>5. CASE UNCHANGED vars
        BY <2>1, <2>5 DEF vars, stored, history
    <2> QED
        BY <2>2, <2>3, <2>4, <2>5 DEF Next
<1> QED
    BY <1>1, <1>2, TypeInvariance, PTL DEF Spec

\* With nobody else at the store, the session that is_auth() found is still
\* there when the handler comes to read or delete it.
Found == \A w \in Workers : pc[w] \in {"get", "del"} => store[sid[w]] # NoUser

\* What a live session holds is what the last login put in a cookie.
Owned == \A s \in Ids : store[s] # NoUser => store[s] = issued[s]

\* No logout has failed, and a user about to be told is that of the session.
Replied ==
    \A w \in Workers :
        /\ pc[w] # "log"
        /\ method[w] = "logout" => status[w] # 500
        /\ pc[w] = "respond" /\ method[w] = "user" /\ status[w] = 200
             => name[w] = issued[sid[w]]

\* A status is that of an answer that has not been sent yet.
Unsent == \A w \in Workers : status[w] # 0 => pc[w] = "respond"

Alone == TInv /\ Found /\ Owned /\ Replied /\ Unsent

\* One worker and no error replies: Alone is inductive, even if ids repeat.
LEMMA AloneInvariance ==
    ASSUME NEW w \in Workers, Workers = {w}, ~StoreErrors
    PROVE  Spec => []Alone
<1>1. Init => Alone
    BY InitTInv DEF Init, Alone, Found, Owned, Replied, Unsent
<1>2. Alone /\ [Next]_vars => Alone'
    <2> SUFFICES ASSUME Alone, [Next]_vars PROVE (Found /\ Owned /\ Replied /\ Unsent)'
        BY NextTInv DEF Alone
    <2> USE DEF Alone, TInv, TypeOK, Found, Owned, Replied, Unsent, Answer, Continue, Goto
    <2>1. CASE Begin(w)
        BY <2>1 DEF Begin, stored, history
    <2>2. CASE Step(w)
        <3>1. CASE LoginStart(w) \/ RegisterStart(w)
            <4>1. \/ \E code \in {400, 401, 403} : Answer(w, "is_auth", code)
                  \/ Continue(w, "is_auth", "find_user")
                  \/ Continue(w, "is_auth", "insert")
                BY <3>1 DEF LoginStart, RegisterStart
            <4> QED
                BY <3>1, <4>1, StartEffect
        <3>2. CASE UserStart(w) \/ LogoutStart(w)
            <4>1. \/ Answer(w, "is_auth", 401)
                  \/ /\ store[sid[w]] # NoUser
                     /\ Continue(w, "is_auth", "get") \/ Continue(w, "is_auth", "del")
                BY <3>2 DEF UserStart, LogoutStart, IsAuth, ExistsReply
            <4> QED
                BY <3>2, <4>1, StartEffect
        <3>3. CASE FindUser(w)
            BY <3>3 DEF FindUser, stored, history
        <3>4. CASE NewId(w)
            BY <3>4, NewIdEffect DEF Control
        <3>5. CASE SetSession(w)
            BY <3>5 DEF SetSession, Executed, Control
        <3>6. CASE Insert(w)
            BY <3>6 DEF Insert, history, Control
        <3>7. CASE GetSession(w)
            BY <3>7 DEF GetSession, Executed, stored, history, Control
        <3>8. CASE DelSession(w)
            BY <3>8 DEF DelSession, Executed, Control
        <3>9. CASE LogFailure(w)
            BY <3>9 DEF LogFailure
        <3>10. CASE Respond(w)
            BY <3>10 DEF Respond, stored, history
        <3> QED
            BY <2>2, <3>1, <3>2, <3>3, <3>4, <3>5, <3>6, <3>7, <3>8, <3>9, <3>10 DEF Step
    <2>3. CASE Crash
        BY <2>3 DEF Crash, stored, history
    <2>4. CASE UNCHANGED vars
        BY <2>4 DEF vars, stored, history
    <2> QED
        BY <2>1, <2>2, <2>3, <2>4 DEF Next
<1> QED
    BY <1>1, <1>2, PTL DEF Spec

\* One worker and a store without errors: no logout is answered 500.  Two
\* workers are what it takes to break it: the session that is_auth() found is
\* deleted by the other one before DEL.
THEOREM LogoutFailsOneWorker ==
    ASSUME NEW w \in Workers, Workers = {w}, ~StoreErrors
    PROVE  Spec => []LogoutFailsOnStoreErrorOnly
<1>1. Alone => LogoutFailsOnStoreErrorOnly
    BY DEF Alone, Replied, LogoutFailsOnStoreErrorOnly
<1> QED
    BY <1>1, AloneInvariance, PTL

\* One worker and a store without errors: GET /user tells the user of the login
\* the id was last put in a cookie for, even if random ids repeat.
THEOREM OwnSessionOneWorker ==
    ASSUME NEW w \in Workers, Workers = {w}, ~StoreErrors
    PROVE  Spec => []OwnSession
<1>1. Alone => OwnSession
    BY DEF Alone, Replied, OwnSession
<1> QED
    BY <1>1, AloneInvariance, PTL
=============================================================================
