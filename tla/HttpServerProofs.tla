-------------------------- MODULE HttpServerProofs --------------------------
(***************************************************************************)
(* What HttpServer keeps to, for any clients, requests, buffer size and    *)
(* bounds: its types, that no connection is forgotten except one that      *)
(* waits for the rest of a body, and that after a stop nothing goes on.    *)
(***************************************************************************)
EXTENDS HttpServer, SequenceTheorems, TLAPS

-----------------------------------------------------------------------------
(* Pieces of what travels *)

LEMMA Pieces ==
    ASSUME NEW s \in Seq(Tokens), NEW k \in 0 .. Len(s)
    PROVE  /\ SubSeq(s, 1, k) \in Seq(Tokens)
           /\ SubSeq(s, k + 1, Len(s)) \in Seq(Tokens)
OBVIOUS

LEMMA Joined ==
    ASSUME NEW s \in Seq(Tokens), NEW t \in Seq(Tokens)
    PROVE  s \o t \in Seq(Tokens)
OBVIOUS

LEMMA Texts ==
    ASSUME NEW c \in Clients, NEW r \in Requests[c]
    PROVE  r.text \in Seq(Tokens) /\ r.length \in Nat \cup {-1}
BY RequestsAssumption

-----------------------------------------------------------------------------
(* Types *)

LEMMA InitTypes == Init => TypeOK
<1> SUFFICES ASSUME Init PROVE TypeOK
    OBVIOUS
<1>1. <<>> \in Seq(Tokens)
    OBVIOUS
<1>2. \A c \in Clients : request[c] \in Requests[c] /\ asked[c] <= MaxRequests[c]
    <2>1. \A c \in Clients : request[c] \in Requests[c]
        <3>1. request \in {r \in [Clients -> UNION {Requests[c] : c \in Clients}] :
                               \A c \in Clients : r[c] \in Requests[c]}
            BY DEF Init
        <3> QED
            BY <3>1, Zenon
    <2>2. ASSUME NEW c \in Clients PROVE asked[c] <= MaxRequests[c]
        <3>1. asked[c] = 0
            BY DEF Init
        <3>2. MaxRequests[c] \in Nat
            BY SizesAssumption
        <3> QED
            BY <3>1, <3>2
    <2> QED
        BY <2>1, <2>2
<1>3. /\ unsent \in [Clients -> Seq(Tokens)]
      /\ inbox \in [Clients -> Seq(Tokens)]
      /\ buffer \in [Clients -> Seq(Tokens)]
    BY <1>1 DEF Init
<1>4. /\ asked \in [Clients -> Nat]
      /\ body \in [Clients -> Nat]
      /\ handled \in [Clients -> Nat]
      /\ answered \in [Clients -> Nat]
    BY DEF Init
<1>5. /\ peer \in [Clients -> {"new", "open", "closed"}]
      /\ op \in [Clients -> Operations]
      /\ headerBuffer \in [Clients -> BOOLEAN]
      /\ parser \in [Clients -> {"start", "end"}]
    BY DEF Init, Operations
<1>6. /\ accept \in {"waiting", "ready", "over"}
      /\ accepted \in Clients \cup {NoClient}
      /\ accept = "ready" <=> accepted # NoClient
      /\ backlog \subseteq Clients
      /\ signal \in {"none", "queued", "done"}
      /\ listening \in BOOLEAN
      /\ connections \subseteq Clients
      /\ undefined \in BOOLEAN
    BY DEF Init
<1> QED
    BY <1>2, <1>3, <1>4, <1>5, <1>6 DEF TypeOK

\* No client sends its request more often than the bound.
LEMMA Asks ==
    ASSUME TypeOK, NEW c \in Clients, NEW n \in Nat,
           n <= MaxRequests[c], asked' = [asked EXCEPT ![c] = n]
    PROVE  asked' \in [Clients -> Nat] /\ \A d \in Clients : asked'[d] <= MaxRequests[d]
<1>1. /\ asked \in [Clients -> Nat]
      /\ \A d \in Clients : asked[d] <= MaxRequests[d]
    BY DEF TypeOK
<1>2. asked' \in [Clients -> Nat]
    BY <1>1
<1>3. ASSUME NEW d \in Clients PROVE asked'[d] <= MaxRequests[d]
    <2>1. CASE d = c
        BY <1>1, <2>1
    <2>2. CASE d # c
        <3>1. asked'[d] = asked[d]
            BY <1>1, <2>2
        <3> QED
            BY <1>1, <3>1
    <2> QED
        BY <2>1, <2>2
<1> QED
    BY <1>2, <1>3

LEMMA ClientTypes ==
    ASSUME TypeOK, ClientStep
    PROVE  TypeOK'
<1>1. PICK c \in Clients : Connect(c) \/ Send(c) \/ AskAgain(c) \/ Leave(c)
    BY DEF ClientStep
<1>2. request[c].text \in Seq(Tokens)
    BY Texts DEF TypeOK
<1>3. CASE Connect(c)
    <2>1. /\ asked' \in [Clients -> Nat]
          /\ \A d \in Clients : asked'[d] <= MaxRequests[d]
        <3>1. 1 \in Nat /\ 1 <= MaxRequests[c]
            <4>1. MaxRequests[c] \in Nat \ {0}
                BY SizesAssumption
            <4> QED
                BY <4>1
        <3>2. asked' = [asked EXCEPT ![c] = 1]
            BY <1>3 DEF Connect
        <3> QED
            BY <3>1, <3>2, Asks
    <2>2. unsent' \in [Clients -> Seq(Tokens)]
        BY <1>2, <1>3 DEF TypeOK, Connect
    <2>3. peer' \in [Clients -> {"new", "open", "closed"}] /\ backlog' \subseteq Clients
        BY <1>3 DEF TypeOK, Connect
    <2> QED
        BY <1>3, <2>1, <2>2, <2>3 DEF TypeOK, Connect, parsed
<1>4. CASE Send(c)
    <2>1. PICK k \in 1 .. Len(unsent[c]) :
            /\ inbox' = [inbox EXCEPT ![c] = @ \o SubSeq(unsent[c], 1, k)]
            /\ unsent' = [unsent EXCEPT ![c] = SubSeq(@, k + 1, Len(@))]
        BY <1>4 DEF Send
    <2>2. /\ SubSeq(unsent[c], 1, k) \in Seq(Tokens)
          /\ SubSeq(unsent[c], k + 1, Len(unsent[c])) \in Seq(Tokens)
        BY Pieces DEF TypeOK
    <2>3. inbox[c] \o SubSeq(unsent[c], 1, k) \in Seq(Tokens)
        BY <2>2, Joined DEF TypeOK
    <2>4. inbox' \in [Clients -> Seq(Tokens)] /\ unsent' \in [Clients -> Seq(Tokens)]
        BY <2>1, <2>2, <2>3 DEF TypeOK
    <2> QED
        BY <1>4, <2>4 DEF TypeOK, Send, listener, parsed
<1>5. CASE AskAgain(c)
    <2>1. /\ asked' \in [Clients -> Nat]
          /\ \A d \in Clients : asked'[d] <= MaxRequests[d]
        <3>1. asked' = [asked EXCEPT ![c] = @ + 1] /\ asked[c] \in 1 .. MaxRequests[c] - 1
            BY <1>5 DEF AskAgain
        <3>2. asked[c] \in Nat /\ MaxRequests[c] \in Nat
            BY SizesAssumption DEF TypeOK
        <3>3. asked[c] + 1 \in Nat /\ asked[c] + 1 <= MaxRequests[c]
            BY <3>1, <3>2
        <3> QED
            BY <3>1, <3>3, Asks
    <2>2. unsent' \in [Clients -> Seq(Tokens)]
        BY <1>2, <1>5 DEF TypeOK, AskAgain
    <2> QED
        BY <1>5, <2>1, <2>2 DEF TypeOK, AskAgain, listener, parsed
<1>6. CASE Leave(c)
    <2>1. <<>> \in Seq(Tokens)
        OBVIOUS
    <2> QED
        BY <1>6, <2>1 DEF TypeOK, Leave, listener, parsed
<1> QED
    BY <1>1, <1>3, <1>4, <1>5, <1>6

LEMMA ServerTypes ==
    ASSUME TypeOK, Signal \/ ServerStep
    PROVE  TypeOK'
<1>1. CASE Signal
    BY <1>1 DEF TypeOK, Signal, client, parsed
<1>2. CASE AcceptReady
    BY <1>2, ClientsAssumption DEF TypeOK, AcceptReady, client, parsed
<1>3. CASE AcceptHandler
    <2>1. accepted \in Clients
        BY <1>3 DEF TypeOK, AcceptHandler
    <2>2. op' = op \/ op' = [op EXCEPT ![accepted] = "reading"]
        BY <1>3 DEF AcceptHandler
    <2>3. op' \in [Clients -> Operations]
        BY <2>1, <2>2 DEF TypeOK, Operations
    <2>4. /\ connections' \subseteq Clients
          /\ accept' \in {"waiting", "over"}
          /\ accepted' = NoClient
          /\ UNCHANGED <<client, inbox, backlog, listening, signal, buffer, parsed, undefined>>
        BY <1>3, <2>1 DEF TypeOK, AcceptHandler
    <2> QED
        BY <2>3, <2>4 DEF TypeOK, client, parsed
<1>4. CASE AcceptAborted
    BY <1>4 DEF TypeOK, AcceptAborted, client, parsed
<1>5. CASE SignalHandler
    BY <1>5 DEF TypeOK, SignalHandler, client, parsed, Operations
<1> QED
    BY <1>1, <1>2, <1>3, <1>4, <1>5 DEF ServerStep

\* What a read, a write, a refusal and an answer leave
LEMMA AnswerTypes ==
    ASSUME TypeOK, NEW c \in Clients, NEW size \in Nat,
           \/ Read(c) /\ UNCHANGED <<body, handled>>
           \/ /\ Read(c) \/ Write(c)
              /\ body' = [body EXCEPT ![c] = size] /\ UNCHANGED handled
           \/ Refuse(c)
           \/ Serve(c, size)
    PROVE  /\ op' \in [Clients -> Operations]
           /\ body' \in [Clients -> Nat]
           /\ handled' \in [Clients -> Nat]
           /\ answered' \in [Clients -> Nat]
<1>1. op \in [Clients -> Operations]
    BY DEF TypeOK
<1>2. /\ body \in [Clients -> Nat]
      /\ handled \in [Clients -> Nat]
      /\ answered \in [Clients -> Nat]
    BY DEF TypeOK
<1> USE DEF Read, Write, Refuse, Serve
<1>3. op' = [op EXCEPT ![c] = "reading"] \/ op' = [op EXCEPT ![c] = "writing"]
    OBVIOUS
<1>4. body' = body \/ body' = [body EXCEPT ![c] = size]
    OBVIOUS
<1>5. handled' = handled \/ handled' = [handled EXCEPT ![c] = @ + 1]
    OBVIOUS
<1>6. answered' = answered \/ answered' = [answered EXCEPT ![c] = @ + 1]
    OBVIOUS
<1> HIDE DEF Read, Write, Refuse, Serve
<1>7. op' \in [Clients -> Operations]
    BY <1>1, <1>3 DEF Operations
<1>8. body' \in [Clients -> Nat]
    BY <1>2, <1>4
<1>9. handled' \in [Clients -> Nat] /\ answered' \in [Clients -> Nat]
    BY <1>2, <1>5, <1>6
<1> QED
    BY <1>7, <1>8, <1>9

\* A read brings tokens, and its handler a body whose length is a number.
LEMMA ReadHandlerTypes ==
    ASSUME TypeOK, NEW c \in Clients, ReadHandler(c), c \in connections
    PROVE  TypeOK'
<1>1. /\ IF headerBuffer[c] THEN HandleHeaderBuffer(c) ELSE HandleBodyBuffer(c)
      /\ buffer' = [buffer EXCEPT ![c] = <<>>]
      /\ UNCHANGED <<client, inbox, listener, connections, undefined>>
    BY DEF ReadHandler, Destroyed
<1>2. buffer' \in [Clients -> Seq(Tokens)]
    <2>1. <<>> \in Seq(Tokens)
        OBVIOUS
    <2> QED
        BY <1>1, <2>1 DEF TypeOK
<1>3. Len(buffer[c]) \in Nat
    BY DEF TypeOK
<1>4. /\ op' \in [Clients -> Operations]
      /\ headerBuffer' \in [Clients -> BOOLEAN]
      /\ parser' \in [Clients -> {"start", "end"}]
      /\ body' \in [Clients -> Nat]
      /\ handled' \in [Clients -> Nat]
      /\ answered' \in [Clients -> Nat]
    <2>1. CASE headerBuffer[c] /\ NoHeadersYet(c)
        <3>1. /\ UNCHANGED <<parser, headerBuffer>>
              /\ (Read(c) /\ UNCHANGED <<body, handled>>) \/ Refuse(c)
            BY <2>1 DEF NoHeadersYet
        <3> QED
            BY <3>1, AnswerTypes DEF TypeOK
    <2>2. CASE headerBuffer[c] /\ HeadersComplete(c)
        <3>1. PICK i \in HeadersEnd(c) :
                /\ parser' = [parser EXCEPT ![c] = "end"]
                /\ \/ /\ Refuse(c) \/ Serve(c, Len(buffer[c]) - i)
                      /\ UNCHANGED headerBuffer
                   \/ /\ body' = [body EXCEPT ![c] = Len(buffer[c]) - i]
                      /\ headerBuffer' = [headerBuffer EXCEPT ![c] = FALSE]
                      /\ op' = [op EXCEPT ![c] = "none"]
                      /\ UNCHANGED <<handled, answered>>
            BY <2>2 DEF HeadersComplete
        <3>2. Len(buffer[c]) - i \in Nat
            BY <1>3 DEF HeadersEnd
        <3>3. parser' \in [Clients -> {"start", "end"}]
            BY <3>1 DEF TypeOK
        <3>4. CASE /\ Refuse(c) \/ Serve(c, Len(buffer[c]) - i)
                   /\ UNCHANGED headerBuffer
            BY <3>2, <3>3, <3>4, AnswerTypes DEF TypeOK
        <3>5. CASE /\ body' = [body EXCEPT ![c] = Len(buffer[c]) - i]
                   /\ headerBuffer' = [headerBuffer EXCEPT ![c] = FALSE]
                   /\ op' = [op EXCEPT ![c] = "none"]
                   /\ UNCHANGED <<handled, answered>>
            BY <3>2, <3>3, <3>5 DEF TypeOK, Operations
        <3> QED
            BY <3>1, <3>4, <3>5
    <2>3. CASE ~headerBuffer[c] /\ HandleBodyBuffer(c)
        <3>1. body[c] + Len(buffer[c]) \in Nat
            BY <1>3 DEF TypeOK
        <3>2. /\ parser' = parser
              /\ headerBuffer' = [headerBuffer EXCEPT ![c] = op'[c] = "writing"]
              /\ \/ Serve(c, body[c] + Len(buffer[c]))
                 \/ /\ Read(c) \/ Write(c)
                    /\ body' = [body EXCEPT ![c] = body[c] + Len(buffer[c])]
                    /\ UNCHANGED handled
            BY <2>3 DEF HandleBodyBuffer
        <3>3. headerBuffer' \in [Clients -> BOOLEAN]
            BY <3>2 DEF TypeOK
        <3> QED
            BY <3>1, <3>2, <3>3, AnswerTypes DEF TypeOK
    <2> QED
        BY <1>1, <2>1, <2>2, <2>3 DEF HandleHeaderBuffer
<1> QED
    BY <1>1, <1>2, <1>4 DEF TypeOK, client, listener

LEMMA ConnectionTypes ==
    ASSUME TypeOK, NEW c \in Clients, ConnectionStep(c)
    PROVE  TypeOK'
<1> USE DEF client, listener, parsed
<1>1. CASE ReadReady(c)
    <2> DEFINE n == IF Len(inbox[c]) > BufferSize THEN BufferSize ELSE Len(inbox[c])
    <2>1. n \in 0 .. Len(inbox[c])
        BY SizesAssumption DEF TypeOK
    <2>2. /\ SubSeq(inbox[c], 1, n) \in Seq(Tokens)
          /\ SubSeq(inbox[c], n + 1, Len(inbox[c])) \in Seq(Tokens)
        BY <2>1, Pieces DEF TypeOK
    <2>3. /\ buffer' = [buffer EXCEPT ![c] = SubSeq(inbox[c], 1, n)]
          /\ inbox' = [inbox EXCEPT ![c] = SubSeq(@, n + 1, Len(@))]
        BY <1>1 DEF ReadReady
    <2> HIDE DEF n
    <2>4. buffer' \in [Clients -> Seq(Tokens)] /\ inbox' \in [Clients -> Seq(Tokens)]
        BY <2>2, <2>3 DEF TypeOK
    <2> QED
        BY <1>1, <2>4 DEF TypeOK, ReadReady, Operations
<1>2. CASE ReadEof(c) \/ WriteReady(c) \/ AbortedHandler(c)
    BY <1>2 DEF TypeOK, ReadEof, WriteReady, AbortedHandler, Operations
<1>3. CASE ReadHandler(c) /\ c \in connections
    BY <1>3, ReadHandlerTypes
<1>4. CASE ReadHandler(c) /\ c \notin connections
    BY <1>4 DEF TypeOK, ReadHandler, Destroyed
<1>5. CASE ReadFailed(c) \/ WriteHandler(c)
    BY <1>5 DEF TypeOK, ReadFailed, WriteHandler, Destroyed, Operations
<1> QED
    BY <1>1, <1>2, <1>3, <1>4, <1>5 DEF ConnectionStep

LEMMA NextTypes == TypeOK /\ [Next]_vars => TypeOK'
<1> SUFFICES ASSUME TypeOK, [Next]_vars PROVE TypeOK'
    OBVIOUS
<1>1. CASE UNCHANGED vars
    BY <1>1 DEF TypeOK, vars, client, listener, parsed
<1> QED
    BY <1>1, ClientTypes, ServerTypes, ConnectionTypes DEF Next

\* The variables keep their types: no size is negative and no client is accepted
\* that did not connect.
THEOREM TypeCorrect == Spec => []TypeOK
BY InitTypes, NextTypes, PTL DEF Spec

-----------------------------------------------------------------------------
(* Connections and operations *)

\* An operation is that of a registered connection until stop_all, which closes
\* the acceptor and is the only one to cancel operations.
Registered ==
    /\ listening <=> signal # "done"
    /\ \A c \in Clients : op[c] # "none" => c \in connections \/ signal = "done"
    /\ \A c \in Clients : op[c] = "aborted" => signal = "done"

\* Attended is not inductive alone: a cancelled operation ends with none, and
\* only Registered and StoppedForGood say that no connection is left then.
SafetyInv == TypeOK /\ Attended /\ StoppedForGood /\ Registered

USE DEF SafetyInv, Attended, StoppedForGood, Registered

LEMMA InitSafety == Init => SafetyInv
<1> SUFFICES ASSUME Init PROVE SafetyInv
    OBVIOUS
<1>1. TypeOK
    BY InitTypes
<1> QED
    BY <1>1 DEF Init

\* One connection's operation changes and no other's, and the connection is not
\* left without one, unless it waits for a body.
LEMMA Moves ==
    ASSUME SafetyInv, TypeOK', NEW c \in connections,
           NEW x \in Operations \ {"aborted"},
           op' = [op EXCEPT ![c] = x],
           UNCHANGED <<listening, signal, connections>>,
           \A d \in Clients \ {c} : headerBuffer'[d] = headerBuffer[d],
           x = "none" => ~headerBuffer'[c]
    PROVE  SafetyInv'
<1>1. c \in Clients /\ connections \subseteq Clients
    BY DEF TypeOK
<1>2. \A d \in Clients : op'[d] = IF d = c THEN x ELSE op[d]
    BY DEF TypeOK
<1>3. signal # "done"
    OBVIOUS
<1> QED
    BY <1>1, <1>2, <1>3

\* The handler of a read goes on to read or to write, or waits for a body.
LEMMA ReadHandlerMoves ==
    ASSUME TypeOK, NEW c \in Clients, ReadHandler(c), c \in connections
    PROVE  /\ \E x \in {"reading", "writing", "none"} :
                /\ op' = [op EXCEPT ![c] = x]
                /\ x = "none" => ~headerBuffer'[c]
           /\ \A d \in Clients \ {c} : headerBuffer'[d] = headerBuffer[d]
           /\ UNCHANGED <<listening, signal, connections>>
<1>1. /\ IF headerBuffer[c] THEN HandleHeaderBuffer(c) ELSE HandleBodyBuffer(c)
      /\ UNCHANGED <<listening, signal, connections>>
    BY DEF ReadHandler, Destroyed, listener
<1>2. headerBuffer \in [Clients -> BOOLEAN]
    BY DEF TypeOK
<1>3. CASE NoHeadersYet(c)
    BY <1>1, <1>3 DEF NoHeadersYet, Read, Refuse, Write
<1>4. CASE HeadersComplete(c)
    <2>1. \/ /\ op' = [op EXCEPT ![c] = "writing"]
             /\ UNCHANGED headerBuffer
          \/ /\ op' = [op EXCEPT ![c] = "none"]
             /\ headerBuffer' = [headerBuffer EXCEPT ![c] = FALSE]
        BY <1>4 DEF HeadersComplete, Refuse, Serve, Write
    <2> QED
        BY <1>1, <1>2, <2>1
<1>5. CASE HandleBodyBuffer(c)
    <2>1. /\ op' = [op EXCEPT ![c] = "writing"] \/ op' = [op EXCEPT ![c] = "reading"]
          /\ headerBuffer' = [headerBuffer EXCEPT ![c] = op'[c] = "writing"]
        BY <1>5 DEF HandleBodyBuffer, Read, Serve, Write
    <2> QED
        BY <1>1, <1>2, <2>1
<1> QED
    BY <1>1, <1>3, <1>4, <1>5 DEF HandleHeaderBuffer

LEMMA ConnectionSafety ==
    ASSUME SafetyInv, TypeOK', NEW c \in Clients, ConnectionStep(c)
    PROVE  SafetyInv'
<1>1. CASE ReadReady(c) \/ ReadEof(c) \/ WriteReady(c)
    <2>1. c \in connections
        BY <1>1 DEF ReadReady, ReadEof, WriteReady
    <2>2. /\ \E x \in {"read", "failed", "written"} : op' = [op EXCEPT ![c] = x]
          /\ UNCHANGED <<listening, signal, connections, headerBuffer>>
        BY <1>1 DEF ReadReady, ReadEof, WriteReady, listener, parsed
    <2> QED
        BY <2>1, <2>2, Moves DEF Operations
<1>2. CASE ReadHandler(c) /\ c \in connections
    <2>1. PICK x \in {"reading", "writing", "none"} :
            /\ op' = [op EXCEPT ![c] = x]
            /\ x = "none" => ~headerBuffer'[c]
        BY <1>2, ReadHandlerMoves
    <2> QED
        BY <1>2, <2>1, ReadHandlerMoves, Moves DEF Operations
<1>3. CASE WriteHandler(c) /\ c \in connections
    <2>1. /\ op' = [op EXCEPT ![c] = "reading"]
          /\ UNCHANGED <<listening, signal, connections, headerBuffer>>
        BY <1>3 DEF WriteHandler, Destroyed, listener, parsed
    <2> QED
        BY <1>3, <2>1, Moves DEF Operations
<1>4. CASE ReadFailed(c) /\ c \in connections
    <2>1. /\ op' = [op EXCEPT ![c] = "none"]
          /\ connections' = connections \ {c}
          /\ UNCHANGED <<listening, signal, headerBuffer>>
        BY <1>4 DEF ReadFailed, Destroyed, listener, parsed
    <2>2. \A d \in Clients : op'[d] = IF d = c THEN "none" ELSE op[d]
        BY <2>1 DEF TypeOK
    <2>3. connections \subseteq Clients
        BY DEF TypeOK
    <2> QED
        BY <2>1, <2>2, <2>3
<1>5. CASE (ReadHandler(c) \/ ReadFailed(c) \/ WriteHandler(c)) /\ c \notin connections
    BY <1>5 DEF ReadHandler, ReadFailed, WriteHandler, Destroyed, listener, parsed
<1>6. CASE AbortedHandler(c)
    <2>1. /\ op' = [op EXCEPT ![c] = "none"]
          /\ UNCHANGED <<listening, signal, connections, headerBuffer>>
        BY <1>6 DEF AbortedHandler, listener, parsed
    <2>2. \A d \in Clients : op'[d] = IF d = c THEN "none" ELSE op[d]
        BY <2>1 DEF TypeOK
    <2>3. signal = "done"
        BY <1>6 DEF AbortedHandler
    <2> QED
        BY <2>1, <2>2, <2>3
<1> QED
    BY <1>1, <1>2, <1>3, <1>4, <1>5, <1>6 DEF ConnectionStep

LEMMA ServerSafety ==
    ASSUME SafetyInv, TypeOK', Signal \/ ServerStep
    PROVE  SafetyInv'
<1>1. CASE Signal
    BY <1>1 DEF Signal, parsed
<1>2. CASE AcceptReady \/ AcceptAborted
    BY <1>2 DEF AcceptReady, AcceptAborted, parsed
<1>3. CASE AcceptHandler /\ listening
    <2>1. accepted \in Clients /\ connections \subseteq Clients
        BY <1>3 DEF TypeOK, AcceptHandler
    <2>2. /\ connections' = connections \cup {accepted}
          /\ op' = [op EXCEPT ![accepted] = "reading"]
          /\ UNCHANGED <<listening, signal, headerBuffer>>
        BY <1>3 DEF AcceptHandler, parsed
    <2>3. \A d \in Clients : op'[d] = IF d = accepted THEN "reading" ELSE op[d]
        BY <2>2 DEF TypeOK
    <2> QED
        BY <1>3, <2>1, <2>2, <2>3
<1>4. CASE AcceptHandler /\ ~listening
    BY <1>4 DEF AcceptHandler, parsed
<1>5. CASE SignalHandler
    <2>1. /\ signal = "queued" /\ signal' = "done"
          /\ ~listening'
          /\ connections' = {}
        BY <1>5 DEF SignalHandler
    <2>2. \A d \in Clients : op'[d] = IF d \in connections /\ op[d] \in {"reading", "writing"}
                                     THEN "aborted" ELSE op[d]
        BY <1>5 DEF SignalHandler
    <2> QED
        BY <2>1, <2>2
<1> QED
    BY <1>1, <1>2, <1>3, <1>4, <1>5 DEF ServerStep

LEMMA NextSafety == SafetyInv /\ [Next]_vars => SafetyInv'
<1> SUFFICES ASSUME SafetyInv, [Next]_vars PROVE SafetyInv'
    OBVIOUS
<1>1. TypeOK'
    BY NextTypes
<1>2. CASE UNCHANGED vars
    BY <1>1, <1>2 DEF vars, listener, parsed
<1>3. CASE ClientStep
    BY <1>1, <1>3 DEF ClientStep, Connect, Send, AskAgain, Leave, listener, parsed
<1> QED
    BY <1>1, <1>2, <1>3, ServerSafety, ConnectionSafety DEF Next

LEMMA SafetyHolds == Spec => []SafetyInv
BY InitSafety, NextSafety, PTL DEF Spec

\* No connection of the manager is left without an operation, other than one
\* that waits for the rest of a body.
THEOREM AlwaysAttended == Spec => []Attended
BY SafetyHolds, PTL DEF SafetyInv

\* After stop_all no connection is registered and no operation begun, whatever
\* had been carried out before it.
THEOREM AlwaysStoppedForGood == Spec => []StoppedForGood
BY SafetyHolds, PTL DEF SafetyInv

-----------------------------------------------------------------------------
(* The first request of a connection, on its way from the client to a handler *)

HIDE DEF SafetyInv, Attended, StoppedForGood, Registered

\* The connection of c does not exist yet.
Waits(c) == peer[c] = "new" \/ c \in backlog \/ c = accepted

\* A connection that does not exist has no operation; what was read is there
\* only until its handler has run; whoever waits for the rest of a body waits
\* for good, and headers that are complete have had an answer otherwise.
Order(c) ==
    /\ peer[c] = "new" => c \notin backlog /\ c # accepted /\ inbox[c] = <<>>
    /\ c \in backlog => c # accepted
    /\ Waits(c) => op[c] = "none" /\ headerBuffer[c]
    /\ op[c] # "read" => buffer[c] = <<>>
    /\ ~headerBuffer[c] => op[c] = "none"
    /\ parser[c] = "end" /\ answered[c] = 0 => ~headerBuffer[c]

LEMMA InitOrder ==
    ASSUME Init, NEW c \in Clients
    PROVE  Order(c)
BY ClientsAssumption DEF Init, Order, Waits

LEMMA ClientOrder ==
    ASSUME TypeOK, NEW c \in Clients, Order(c), ClientStep
    PROVE  Order(c)'
<1> USE DEF TypeOK, Order, Waits, listener, parsed
<1>1. PICK d \in Clients : Connect(d) \/ Send(d) \/ AskAgain(d) \/ Leave(d)
    BY DEF ClientStep
<1>2. CASE Connect(d)
    BY <1>2 DEF Connect
<1>3. CASE Send(d)
    <2>1. /\ peer[d] = "open"
          /\ \E x : inbox' = [inbox EXCEPT ![d] = x]
          /\ UNCHANGED <<peer, backlog, accepted, op, headerBuffer, buffer, parser, answered>>
        BY <1>3 DEF Send
    <2> QED
        BY <2>1
<1>4. CASE AskAgain(d)
    BY <1>4 DEF AskAgain
<1>5. CASE Leave(d)
    BY <1>5 DEF Leave
<1> QED
    BY <1>1, <1>2, <1>3, <1>4, <1>5

LEMMA ServerOrder ==
    ASSUME TypeOK, NEW c \in Clients, Order(c), Signal \/ ServerStep
    PROVE  Order(c)'
<1> USE DEF TypeOK, Order, Waits, client, parsed
<1>1. CASE Signal
    BY <1>1 DEF Signal
<1>2. CASE AcceptReady
    BY <1>2, ClientsAssumption DEF AcceptReady
<1>3. CASE AcceptHandler
    BY <1>3, ClientsAssumption DEF AcceptHandler
<1>4. CASE AcceptAborted
    BY <1>4 DEF AcceptAborted
<1>5. CASE SignalHandler
    BY <1>5 DEF SignalHandler
<1> QED
    BY <1>1, <1>2, <1>3, <1>4, <1>5 DEF ServerStep

\* No read brings handle_body_buffer anything.
LEMMA HeadersOnly ==
    ASSUME NEW c \in Clients, Order(c), ReadHandler(c), c \in connections
    PROVE  /\ op[c] = "read" /\ headerBuffer[c]
           /\ NoHeadersYet(c) \/ HeadersComplete(c)
           /\ buffer' = [buffer EXCEPT ![c] = <<>>]
           /\ UNCHANGED <<client, inbox, listener, connections, undefined>>
BY DEF ReadHandler, Destroyed, Order, HandleHeaderBuffer

\* The headers that end a read: the first complete ones, or ones that follow.
LEMMA CompleteEffect ==
    ASSUME TypeOK, NEW c \in Clients, HeadersComplete(c)
    PROVE  /\ parser' = [parser EXCEPT ![c] = "end"]
           /\ \/ /\ op' = [op EXCEPT ![c] = "writing"]
                 /\ answered' = [answered EXCEPT ![c] = @ + 1]
                 /\ UNCHANGED headerBuffer
              \/ /\ op' = [op EXCEPT ![c] = "none"]
                 /\ headerBuffer' = [headerBuffer EXCEPT ![c] = FALSE]
                 /\ UNCHANGED answered
BY DEF HeadersComplete, Refuse, Serve, Write

LEMMA ReadHandlerOrder ==
    ASSUME TypeOK, NEW c \in Clients, Order(c),
           NEW d \in connections, Order(d), ReadHandler(d)
    PROVE  Order(c)'
<1>1. d \in Clients
    BY DEF TypeOK
<1>2. /\ op[d] = "read" /\ headerBuffer[d]
      /\ NoHeadersYet(d) \/ HeadersComplete(d)
      /\ buffer' = [buffer EXCEPT ![d] = <<>>]
      /\ UNCHANGED <<client, inbox, listener>>
    BY <1>1, HeadersOnly
<1> USE DEF TypeOK, Order, Waits, client, listener
<1>3. CASE NoHeadersYet(d)
    <2>1. /\ \/ op' = [op EXCEPT ![d] = "reading"] /\ UNCHANGED answered
             \/ op' = [op EXCEPT ![d] = "writing"] /\ answered' = [answered EXCEPT ![d] = @ + 1]
          /\ UNCHANGED <<parser, headerBuffer>>
        BY <1>3 DEF NoHeadersYet, Read, Refuse, Write
    <2> QED
        BY <1>1, <1>2, <2>1
<1>4. CASE HeadersComplete(d)
    <2>1. parser' = [parser EXCEPT ![d] = "end"]
        BY <1>1, <1>4, CompleteEffect
    <2>2. CASE /\ op' = [op EXCEPT ![d] = "writing"]
               /\ answered' = [answered EXCEPT ![d] = @ + 1]
               /\ UNCHANGED headerBuffer
        BY <1>1, <1>2, <2>1, <2>2
    <2>3. CASE /\ op' = [op EXCEPT ![d] = "none"]
               /\ headerBuffer' = [headerBuffer EXCEPT ![d] = FALSE]
               /\ UNCHANGED answered
        BY <1>1, <1>2, <2>1, <2>3
    <2> QED
        BY <1>1, <1>4, <2>2, <2>3, CompleteEffect
<1> QED
    BY <1>2, <1>3, <1>4

LEMMA ConnectionOrder ==
    ASSUME TypeOK, NEW c \in Clients, Order(c),
           NEW d \in Clients, Order(d), ConnectionStep(d)
    PROVE  Order(c)'
<1>1. CASE ReadHandler(d) /\ d \in connections
    BY <1>1, ReadHandlerOrder
<1> USE DEF TypeOK, Order, Waits, client, listener, parsed
<1>2. CASE ReadHandler(d) /\ d \notin connections
    BY <1>2 DEF ReadHandler, Destroyed
<1>3. CASE ReadReady(d)
    <2>1. /\ op[d] = "reading" /\ inbox[d] # <<>>
          /\ op' = [op EXCEPT ![d] = "read"]
          /\ \E x, y : buffer' = [buffer EXCEPT ![d] = x] /\ inbox' = [inbox EXCEPT ![d] = y]
          /\ UNCHANGED <<peer, backlog, accepted, headerBuffer, parser, answered>>
        BY <1>3 DEF ReadReady
    <2> QED
        BY <2>1
<1>4. CASE ReadEof(d) \/ WriteReady(d) \/ AbortedHandler(d)
    BY <1>4 DEF ReadEof, WriteReady, AbortedHandler
<1>5. CASE ReadFailed(d)
    BY <1>5 DEF ReadFailed, Destroyed
<1>6. CASE WriteHandler(d)
    BY <1>6 DEF WriteHandler, Destroyed
<1> QED
    BY <1>1, <1>2, <1>3, <1>4, <1>5, <1>6 DEF ConnectionStep

LEMMA NextOrder ==
    ASSUME TypeOK, \A d \in Clients : Order(d), [Next]_vars, NEW c \in Clients
    PROVE  Order(c)'
<1>1. CASE UNCHANGED vars
    BY <1>1 DEF Order, Waits, vars, client, listener, parsed
<1> QED
    BY <1>1, ClientOrder, ServerOrder, ConnectionOrder DEF Next

\* s is the part of text after the first a tokens, up to the b-th.
Slice(s, text, a, b) == Len(s) = b - a /\ \A j \in 1 .. Len(s) : s[j] = text[a + j]

LEMMA SliceSplit ==
    ASSUME NEW text, NEW s \in Seq(Tokens), NEW a \in Nat, NEW b \in Nat,
           Slice(s, text, a, b), NEW k \in 0 .. Len(s)
    PROVE  /\ Slice(SubSeq(s, 1, k), text, a, a + k)
           /\ Slice(SubSeq(s, k + 1, Len(s)), text, a + k, b)
<1>1. /\ Len(SubSeq(s, 1, k)) = k
      /\ \A j \in 1 .. k : SubSeq(s, 1, k)[j] = s[j]
    OBVIOUS
<1>2. /\ Len(SubSeq(s, k + 1, Len(s))) = Len(s) - k
      /\ \A j \in 1 .. Len(s) - k : SubSeq(s, k + 1, Len(s))[j] = s[k + j]
    OBVIOUS
<1> QED
    BY <1>1, <1>2 DEF Slice

LEMMA SliceJoin ==
    ASSUME NEW text, NEW s \in Seq(Tokens), NEW t \in Seq(Tokens),
           NEW a \in Nat, NEW b \in Nat, NEW d \in Nat,
           Slice(s, text, a, b), Slice(t, text, b, d)
    PROVE  Slice(s \o t, text, a, d)
<1>1. Len(s \o t) = Len(s) + Len(t)
    OBVIOUS
<1>2. \A j \in 1 .. Len(s) + Len(t) :
        (s \o t)[j] = IF j <= Len(s) THEN s[j] ELSE t[j - Len(s)]
    OBVIOUS
<1>3. Len(s) = b - a /\ Len(t) = d - b /\ Len(s) \in Nat /\ Len(t) \in Nat
    BY DEF Slice
<1>4. ASSUME NEW j \in 1 .. Len(s) + Len(t) PROVE (s \o t)[j] = text[a + j]
    <2>1. CASE j <= Len(s)
        BY <1>2, <1>3, <2>1 DEF Slice
    <2>2. CASE j > Len(s)
        <3> DEFINE k == j - Len(s)
        <3>1. k \in 1 .. Len(t) /\ b + k = a + j
            BY <1>3, <2>2
        <3>2. ~(j <= Len(s))
            BY <1>3, <2>2
        <3>3. (s \o t)[j] = t[k]
            BY <1>2, <3>2
        <3> HIDE DEF k
        <3>4. t[k] = text[b + k]
            BY <3>1 DEF Slice
        <3> QED
            BY <3>1, <3>3, <3>4
    <2> QED
        BY <1>3, <2>1, <2>2
<1>5. Len(s \o t) = d - a
    BY <1>1, <1>3
<1> QED
    BY <1>1, <1>4, <1>5 DEF Slice

LEMMA SliceEmpty ==
    ASSUME NEW text, NEW a \in Nat, NEW b \in Nat
    PROVE  Slice(<<>>, text, a, b) <=> a = b
BY DEF Slice

\* Of the first request a tokens have been handled, none of them the end of the
\* headers, up to the b-th are in the buffer, up to the d-th at the socket, and
\* the rest is with the client, as long as it stays.
Placed(c, a, b, d) ==
    /\ Slice(buffer[c], request[c].text, a, b)
    /\ Slice(inbox[c], request[c].text, b, d)
    /\ peer[c] = "open" => Slice(unsent[c], request[c].text, d, Len(request[c].text))
    /\ peer[c] # "open" => unsent[c] = <<>>
    /\ \A j \in 1 .. a : request[c].text[j] # "e"

\* Until the headers of the first request are complete, it arrives in order.
Stream(c) ==
    answered[c] = 0 /\ parser[c] = "start" =>
        \E a, b, d \in 0 .. Len(request[c].text) : Placed(c, a, b, d)

LEMMA InitStream ==
    ASSUME Init, NEW c \in Clients
    PROVE  Stream(c)
<1>1. request[c].text \in Seq(Tokens)
    BY InitTypes, Texts DEF TypeOK
<1>2. Placed(c, 0, 0, 0)
    BY SliceEmpty DEF Init, Placed
<1>3. 0 \in 0 .. Len(request[c].text)
    BY <1>1
<1> QED
    BY <1>2, <1>3 DEF Stream

\* What does not touch the connection of c
LEMMA StreamFrame ==
    ASSUME NEW c \in Clients, Stream(c),
           request'[c] = request[c], peer'[c] = peer[c], unsent'[c] = unsent[c],
           inbox'[c] = inbox[c], buffer'[c] = buffer[c],
           answered'[c] = answered[c], parser'[c] = parser[c]
    PROVE  Stream(c)'
BY DEF Stream, Placed

LEMMA ClientStream ==
    ASSUME TypeOK, NEW c \in Clients, Order(c), Stream(c), ClientStep
    PROVE  Stream(c)'
<1>1. PICK e \in Clients : Connect(e) \/ Send(e) \/ AskAgain(e) \/ Leave(e)
    BY DEF ClientStep
<1>2. /\ UNCHANGED <<request, buffer, answered, parser>>
      /\ \A x \in Clients \ {e} : /\ peer'[x] = peer[x]
                                  /\ unsent'[x] = unsent[x]
                                  /\ inbox'[x] = inbox[x]
    <2> USE DEF TypeOK, parsed
    <2>1. CASE Connect(e)
        BY <2>1 DEF Connect
    <2>2. CASE Send(e)
        BY <2>2 DEF Send
    <2>3. CASE AskAgain(e)
        BY <2>3 DEF AskAgain
    <2>4. CASE Leave(e)
        BY <2>4 DEF Leave
    <2> QED
        BY <1>1, <2>1, <2>2, <2>3, <2>4
<1>3. CASE c # e
    BY <1>2, <1>3, StreamFrame
<1>4. ASSUME c = e, answered[c] = 0, parser[c] = "start"
      PROVE  \E a, b, d \in 0 .. Len(request[c].text) : Placed(c, a, b, d)'
    <2> DEFINE text == request[c].text
    <2>1. text \in Seq(Tokens) /\ request'[c] = request[c]
        BY <1>2, Texts DEF TypeOK
    <2>2. PICK a \in 0 .. Len(text), b \in 0 .. Len(text), d \in 0 .. Len(text) :
            Placed(c, a, b, d)
        BY <1>4 DEF Stream
    <2>3. CASE Connect(c)
        <3>1. /\ peer[c] = "new" /\ peer'[c] = "open"
              /\ unsent'[c] = text
              /\ UNCHANGED <<inbox, buffer>>
            BY <2>3 DEF Connect, TypeOK
        <3>2. inbox[c] = <<>> /\ buffer[c] = <<>>
            BY <3>1 DEF Order, Waits
        <3>3. Slice(text, text, 0, Len(text)) /\ 0 \in 0 .. Len(text)
            BY <2>1 DEF Slice
        <3>4. Placed(c, 0, 0, 0)'
            BY <2>1, <3>1, <3>2, <3>3, SliceEmpty DEF Placed
        <3> QED
            BY <3>3, <3>4
    <2>4. CASE Send(c)
        <3>1. PICK k \in 1 .. Len(unsent[c]) :
                /\ inbox' = [inbox EXCEPT ![c] = @ \o SubSeq(unsent[c], 1, k)]
                /\ unsent' = [unsent EXCEPT ![c] = SubSeq(@, k + 1, Len(@))]
            BY <2>4 DEF Send
        <3>2. peer[c] = "open" /\ UNCHANGED <<peer, buffer>>
            BY <2>4 DEF Send
        <3>3. /\ unsent[c] \in Seq(Tokens) /\ inbox[c] \in Seq(Tokens)
              /\ k \in 0 .. Len(unsent[c])
            BY DEF TypeOK
        <3>4. /\ inbox'[c] = inbox[c] \o SubSeq(unsent[c], 1, k)
              /\ unsent'[c] = SubSeq(unsent[c], k + 1, Len(unsent[c]))
            BY <3>1 DEF TypeOK
        <3>5. Slice(unsent[c], text, d, Len(text)) /\ Slice(inbox[c], text, b, d)
            BY <2>2, <3>2 DEF Placed
        <3>6. d \in Nat /\ b \in Nat /\ Len(text) \in Nat /\ d + k \in 0 .. Len(text)
            BY <2>1, <3>3, <3>5 DEF Slice
        <3>7. /\ Slice(SubSeq(unsent[c], 1, k), text, d, d + k)
              /\ Slice(unsent'[c], text, d + k, Len(text))
            BY <3>3, <3>4, <3>5, <3>6, SliceSplit
        <3>8. SubSeq(unsent[c], 1, k) \in Seq(Tokens)
            BY <3>3, Pieces
        <3>9. Slice(inbox'[c], text, b, d + k)
            <4> HIDE DEF text
            <4>1. d + k \in Nat
                BY <3>6
            <4>2. Slice(inbox[c] \o SubSeq(unsent[c], 1, k), text, b, d + k)
                BY <3>3, <3>5, <3>6, <3>7, <3>8, <4>1, SliceJoin
            <4> QED
                BY <3>4, <4>2
        <3>10. Placed(c, a, b, d + k)'
            BY <2>1, <2>2, <3>2, <3>7, <3>9 DEF Placed
        <3> QED
            BY <3>6, <3>10
    <2>5. CASE AskAgain(c)
        <3>1. asked[c] >= 1 /\ answered[c] >= asked[c] /\ asked[c] \in Nat
            BY <2>5, SizesAssumption DEF AskAgain, TypeOK
        <3> QED
            BY <1>4, <3>1
    <2>6. CASE Leave(c)
        <3>1. /\ peer'[c] = "closed" /\ unsent'[c] = <<>>
              /\ UNCHANGED <<inbox, buffer>>
            BY <2>6 DEF Leave, TypeOK
        <3>2. Placed(c, a, b, d)'
            BY <2>1, <2>2, <3>1 DEF Placed
        <3> QED
            BY <3>2
    <2> QED
        BY <1>1, <1>4, <2>3, <2>4, <2>5, <2>6
<1>5. CASE c = e
    BY <1>2, <1>4, <1>5 DEF Stream
<1> QED
    BY <1>3, <1>5

LEMMA ReadReadyStream ==
    ASSUME TypeOK, NEW c \in Clients, Order(c), Stream(c), ReadReady(c)
    PROVE  Stream(c)'
<1> DEFINE text == request[c].text
<1>1. PICK n \in 0 .. Len(inbox[c]) :
        /\ buffer' = [buffer EXCEPT ![c] = SubSeq(inbox[c], 1, n)]
        /\ inbox' = [inbox EXCEPT ![c] = SubSeq(@, n + 1, Len(@))]
        /\ UNCHANGED <<request, peer, unsent, answered, parser>>
        /\ op[c] = "reading"
    <2> DEFINE size == IF Len(inbox[c]) > BufferSize THEN BufferSize ELSE Len(inbox[c])
    <2>1. size \in 0 .. Len(inbox[c])
        BY SizesAssumption DEF TypeOK
    <2> QED
        BY <2>1 DEF ReadReady, client, parsed
<1>2. inbox[c] \in Seq(Tokens)
    BY DEF TypeOK
<1>3. /\ buffer'[c] = SubSeq(inbox[c], 1, n)
      /\ inbox'[c] = SubSeq(inbox[c], n + 1, Len(inbox[c]))
    BY <1>1 DEF TypeOK
<1>4. buffer[c] = <<>>
    BY <1>1 DEF Order
<1>5. text \in Seq(Tokens)
    BY Texts DEF TypeOK
<1>6. ASSUME NEW a \in 0 .. Len(text), NEW b \in 0 .. Len(text), NEW d \in 0 .. Len(text),
             Placed(c, a, b, d)
      PROVE  b + n \in 0 .. Len(text) /\ Placed(c, b, b + n, d)'
    <2>1. a = b
        BY <1>4, <1>5, <1>6, SliceEmpty DEF Placed
    <2>2. b \in Nat /\ d \in Nat /\ Slice(inbox[c], text, b, d)
        BY <1>5, <1>6 DEF Placed
    <2>3. Slice(buffer'[c], text, b, b + n) /\ Slice(inbox'[c], text, b + n, d)
        BY <1>2, <1>3, <2>2, SliceSplit
    <2>4. b + n \in 0 .. Len(text)
        BY <1>2, <1>5, <1>6, <2>2 DEF Slice
    <2>5. \A j \in 1 .. b : text[j] # "e"
        BY <1>6, <2>1 DEF Placed
    <2>6. request'[c] = request[c] /\ peer'[c] = peer[c] /\ unsent'[c] = unsent[c]
        BY <1>1
    <2>7. Placed(c, b, b + n, d)'
        BY <1>6, <2>3, <2>5, <2>6 DEF Placed
    <2> QED
        BY <2>4, <2>7
<1>7. CASE answered[c] = 0 /\ parser[c] = "start"
    <2>1. PICK a \in 0 .. Len(text), b \in 0 .. Len(text), d \in 0 .. Len(text) :
            Placed(c, a, b, d)
        BY <1>7 DEF Stream
    <2>2. b + n \in 0 .. Len(text) /\ Placed(c, b, b + n, d)'
        BY <1>6, <2>1
    <2>3. request'[c] = request[c]
        BY <1>1
    <2> QED
        BY <2>2, <2>3 DEF Stream
<1>8. CASE ~(answered[c] = 0 /\ parser[c] = "start")
    BY <1>1, <1>8 DEF Stream
<1> QED
    BY <1>7, <1>8

LEMMA ReadHandlerStream ==
    ASSUME TypeOK, NEW c \in Clients, Order(c), Stream(c), ReadHandler(c), c \in connections
    PROVE  Stream(c)'
<1> DEFINE text == request[c].text
<1>1. /\ NoHeadersYet(c) \/ HeadersComplete(c)
      /\ buffer' = [buffer EXCEPT ![c] = <<>>]
      /\ UNCHANGED <<request, peer, unsent, inbox>>
    BY HeadersOnly DEF client
<1>2. CASE HeadersComplete(c)
    <2>1. parser'[c] = "end"
        BY <1>2, CompleteEffect DEF TypeOK
    <2> QED
        BY <2>1 DEF Stream
<1>3. CASE NoHeadersYet(c) /\ answered[c] = 0 /\ parser[c] = "start"
    <2>1. \A j \in 1 .. Len(buffer[c]) : buffer[c][j] # "e"
        BY <1>3 DEF NoHeadersYet, HeadersEnd
    <2>2. text \in Seq(Tokens) /\ buffer[c] \in Seq(Tokens)
        BY Texts DEF TypeOK
    <2>3. PICK a \in 0 .. Len(text), b \in 0 .. Len(text), d \in 0 .. Len(text) :
            Placed(c, a, b, d)
        BY <1>3 DEF Stream
    <2>4. Len(buffer[c]) = b - a /\ \A j \in 1 .. Len(buffer[c]) : buffer[c][j] = text[a + j]
        BY <2>3 DEF Placed, Slice
    <2>5. ASSUME NEW j \in 1 .. b PROVE text[j] # "e"
        <3>1. CASE j <= a
            <4>1. j \in 1 .. a
                BY <2>2, <3>1
            <4> QED
                BY <2>3, <4>1 DEF Placed
        <3>2. CASE j > a
            <4>1. j - a \in 1 .. Len(buffer[c]) /\ a + (j - a) = j
                BY <2>2, <2>4, <3>2
            <4> QED
                BY <2>1, <2>4, <4>1
        <3> QED
            BY <2>2, <3>1, <3>2
    <2>6. buffer'[c] = <<>>
        BY <1>1 DEF TypeOK
    <2>7. /\ request'[c] = request[c] /\ peer'[c] = peer[c]
          /\ unsent'[c] = unsent[c] /\ inbox'[c] = inbox[c]
        BY <1>1
    <2>8. Slice(<<>>, text, b, b)
        BY <2>2, SliceEmpty
    <2>9. Placed(c, b, b, d)'
        BY <2>3, <2>5, <2>6, <2>7, <2>8 DEF Placed
    <2> QED
        BY <2>7, <2>9 DEF Stream
<1>4. CASE NoHeadersYet(c) /\ ~(answered[c] = 0 /\ parser[c] = "start")
    <2>1. /\ UNCHANGED parser
          /\ UNCHANGED answered \/ answered' = [answered EXCEPT ![c] = @ + 1]
        BY <1>4 DEF NoHeadersYet, Read, Refuse, Write
    <2>2. answered[c] \in Nat /\ (answered'[c] = answered[c] \/ answered'[c] = answered[c] + 1)
        BY <2>1 DEF TypeOK
    <2>3. ~(answered'[c] = 0 /\ parser'[c] = "start")
        BY <1>4, <2>1, <2>2
    <2> QED
        BY <2>3 DEF Stream
<1> QED
    BY <1>1, <1>2, <1>3, <1>4

LEMMA OtherReadHandler ==
    ASSUME TypeOK, NEW c \in Clients, Stream(c), NEW d \in Clients \ {c}, Order(d),
           ReadHandler(d), d \in connections
    PROVE  Stream(c)'
<1>1. /\ NoHeadersYet(d) \/ HeadersComplete(d)
      /\ buffer' = [buffer EXCEPT ![d] = <<>>]
      /\ UNCHANGED <<request, peer, unsent, inbox>>
    BY HeadersOnly DEF client
<1>2. buffer'[c] = buffer[c]
    BY <1>1 DEF TypeOK
<1>3. answered'[c] = answered[c] /\ parser'[c] = parser[c]
    <2>1. CASE NoHeadersYet(d)
        <3>1. /\ UNCHANGED parser
              /\ UNCHANGED answered \/ answered' = [answered EXCEPT ![d] = @ + 1]
            BY <2>1 DEF NoHeadersYet, Read, Refuse, Write
        <3> QED
            BY <3>1 DEF TypeOK
    <2>2. CASE HeadersComplete(d)
        <3>1. /\ parser' = [parser EXCEPT ![d] = "end"]
              /\ UNCHANGED answered \/ answered' = [answered EXCEPT ![d] = @ + 1]
            BY <2>2, CompleteEffect
        <3> QED
            BY <3>1 DEF TypeOK
    <2> QED
        BY <1>1, <2>1, <2>2
<1> QED
    BY <1>1, <1>2, <1>3, StreamFrame

LEMMA ConnectionStream ==
    ASSUME TypeOK, NEW c \in Clients, Order(c), Stream(c),
           NEW d \in Clients, Order(d), ConnectionStep(d)
    PROVE  Stream(c)'
<1>1. CASE ReadHandler(d) /\ d \in connections
    BY <1>1, ReadHandlerStream, OtherReadHandler
<1>2. CASE ReadReady(d) /\ c = d
    BY <1>2, ReadReadyStream
<1>3. CASE ReadReady(d) /\ c # d
    <2>1. UNCHANGED <<request, peer, unsent, answered, parser>>
        BY <1>3 DEF ReadReady, client, parsed
    <2>2. \E x, y : buffer' = [buffer EXCEPT ![d] = x] /\ inbox' = [inbox EXCEPT ![d] = y]
        BY <1>3 DEF ReadReady
    <2>3. buffer'[c] = buffer[c] /\ inbox'[c] = inbox[c]
        BY <1>3, <2>2 DEF TypeOK
    <2> QED
        BY <2>1, <2>3, StreamFrame
<1>4. CASE \/ ReadHandler(d) /\ d \notin connections
           \/ ReadEof(d) \/ WriteReady(d) \/ AbortedHandler(d)
           \/ ReadFailed(d) \/ WriteHandler(d)
    <2>1. UNCHANGED <<request, peer, unsent, inbox, buffer, answered, parser>>
        BY <1>4 DEF ReadHandler, ReadEof, WriteReady, AbortedHandler, ReadFailed,
                    WriteHandler, Destroyed, client, parsed
    <2> QED
        BY <2>1, StreamFrame
<1> QED
    BY <1>1, <1>2, <1>3, <1>4 DEF ConnectionStep

LEMMA NextStream ==
    ASSUME TypeOK, \A d \in Clients : Order(d), [Next]_vars, NEW c \in Clients, Stream(c)
    PROVE  Stream(c)'
<1>1. CASE UNCHANGED vars \/ Signal \/ ServerStep
    <2>1. UNCHANGED <<request, peer, unsent, inbox, buffer, answered, parser>>
        BY <1>1 DEF vars, ServerStep, Signal, AcceptReady, AcceptHandler, AcceptAborted,
                    SignalHandler, client, parsed
    <2> QED
        BY <2>1, StreamFrame
<1> QED
    BY <1>1, ClientStream, ConnectionStream DEF Next

\* The headers of a request end at one place, and its body comes after it.
LEMMA BodyAfterHeaders ==
    ASSUME TypeOK, NEW c \in Clients
    PROVE  \E p \in 1 .. Len(request[c].text) :
             /\ BodyLength(c) = Len(request[c].text) - p
             /\ \A j \in 1 .. Len(request[c].text) : request[c].text[j] = "e" <=> j = p
<1> DEFINE text == request[c].text
<1>1. PICK p \in 1 .. Len(text) : \A j \in 1 .. Len(text) : text[j] = "e" <=> j = p
    BY RequestsAssumption DEF TypeOK
<1>2. (CHOOSE i \in 1 .. Len(text) : text[i] = "e") = p
    BY <1>1
<1> QED
    BY <1>1, <1>2 DEF BodyLength

\* What follows the headers in the read that completes them is the body's
\* beginning, and all of it once the whole request has been read.
LEMMA FirstBody ==
    ASSUME TypeOK, NEW c \in Clients, Stream(c), answered[c] = 0, parser[c] = "start",
           NEW i \in HeadersEnd(c)
    PROVE  /\ BodyLength(c) \in Nat /\ Len(buffer[c]) - i \in Nat
           /\ Len(buffer[c]) - i <= BodyLength(c)
           /\ (inbox[c] = <<>> /\ peer[c] = "open" /\ unsent[c] = <<>>)
                => Len(buffer[c]) - i = BodyLength(c)
<1> DEFINE text == request[c].text
<1>1. text \in Seq(Tokens) /\ buffer[c] \in Seq(Tokens)
    BY Texts DEF TypeOK
<1>2. PICK a \in 0 .. Len(text), b \in 0 .. Len(text), d \in 0 .. Len(text) :
        Placed(c, a, b, d)
    BY DEF Stream
<1>3. i \in 1 .. Len(buffer[c]) /\ buffer[c][i] = "e"
    BY DEF HeadersEnd
<1>4. Len(buffer[c]) = b - a /\ buffer[c][i] = text[a + i]
    BY <1>2, <1>3 DEF Placed, Slice
<1>5. a + i \in 1 .. Len(text) /\ text[a + i] = "e"
    BY <1>1, <1>2, <1>3, <1>4, SMTT(40)
<1>6. BodyLength(c) = Len(text) - (a + i)
    BY <1>5, BodyAfterHeaders
<1>7. (inbox[c] = <<>> /\ peer[c] = "open" /\ unsent[c] = <<>>) => b = Len(text)
    <2> SUFFICES ASSUME inbox[c] = <<>>, peer[c] = "open", unsent[c] = <<>>
                 PROVE  b = Len(text)
        OBVIOUS
    <2>1. Slice(<<>>, text, b, d) /\ Slice(<<>>, text, d, Len(text))
        BY <1>2 DEF Placed
    <2> QED
        BY <1>1, <2>1, SliceEmpty
<1> QED
    BY <1>1, <1>3, <1>4, <1>5, <1>6, <1>7

\* How an answer is begun: the first one by the handler of the read that has
\* completed the headers.
LEMMA HandlerAnswers ==
    ASSUME TypeOK, NEW c \in Clients, NoHeadersYet(c) \/ HeadersComplete(c)
    PROVE  \/ UNCHANGED <<answered, handled>>
           \/ /\ answered' = [answered EXCEPT ![c] = @ + 1]
              /\ \/ /\ parser[c] = "end"
                    /\ UNCHANGED handled \/ handled' = [handled EXCEPT ![c] = @ + 1]
                 \/ /\ inbox[c] = <<>>
                    /\ \E i \in HeadersEnd(c) :
                         LET size == Len(buffer[c]) - i IN
                         \/ TooLong(c, size) /\ UNCHANGED handled
                         \/ /\ body' = [body EXCEPT ![c] = size]
                            /\ handled' = [handled EXCEPT ![c] = @ + 1]
<1>1. CASE NoHeadersYet(c)
    BY <1>1 DEF NoHeadersYet, Read, Refuse, Write, TypeOK
<1>2. CASE HeadersComplete(c)
    <2>1. PICK i \in HeadersEnd(c) :
            LET size == Len(buffer[c]) - i IN
            \/ /\ inbox[c] = <<>>
               /\ IF TooLong(c, size) THEN Refuse(c) ELSE Serve(c, size)
            \/ UNCHANGED <<handled, answered>>
        BY <1>2 DEF HeadersComplete
    <2>2. CASE UNCHANGED <<handled, answered>>
        BY <2>2
    <2>3. CASE inbox[c] = <<>> /\ TooLong(c, Len(buffer[c]) - i) /\ Refuse(c)
        BY <2>3 DEF Refuse, Write
    <2>4. CASE inbox[c] = <<>> /\ Serve(c, Len(buffer[c]) - i)
        BY <2>4 DEF Serve, Write
    <2> QED
        BY <2>1, <2>2, <2>3, <2>4
<1> QED
    BY <1>1, <1>2

LEMMA Answers ==
    ASSUME TypeOK, \A d \in Clients : Order(d), [Next]_vars, NEW c \in Clients
    PROVE  /\ request' = request
           /\ \/ answered'[c] = answered[c] /\ handled'[c] = handled[c]
              \/ /\ answered'[c] = answered[c] + 1 /\ answered[c] # 0
                 /\ handled'[c] \in {handled[c], handled[c] + 1}
              \/ /\ answered'[c] = answered[c] + 1
                 /\ parser[c] = "start" /\ inbox[c] = <<>>
                 /\ \E i \in HeadersEnd(c) :
                      LET size == Len(buffer[c]) - i IN
                      \/ TooLong(c, size) /\ handled'[c] = handled[c]
                      \/ handled'[c] = handled[c] + 1 /\ body'[c] = size
<1>1. CASE UNCHANGED <<request, answered, handled>>
    BY <1>1
<1>2. CASE \E d \in connections : ReadHandler(d)
    <2>1. PICK d \in connections : ReadHandler(d)
        BY <1>2
    <2>2. /\ d \in Clients /\ headerBuffer[d]
          /\ NoHeadersYet(d) \/ HeadersComplete(d)
          /\ request' = request
        BY <2>1, HeadersOnly DEF TypeOK, client
    <2>3. CASE d # c
        <3>1. /\ UNCHANGED answered \/ answered' = [answered EXCEPT ![d] = @ + 1]
              /\ UNCHANGED handled \/ handled' = [handled EXCEPT ![d] = @ + 1]
            BY <2>2, HandlerAnswers
        <3> QED
            BY <2>2, <2>3, <3>1 DEF TypeOK
    <2>4. CASE d = c /\ parser[c] = "end"
        <3>1. answered[c] # 0
            BY <2>2, <2>4 DEF Order
        <3>2. \/ UNCHANGED <<answered, handled>>
              \/ /\ answered' = [answered EXCEPT ![c] = @ + 1]
                 /\ UNCHANGED handled \/ handled' = [handled EXCEPT ![c] = @ + 1]
            BY <2>2, <2>4, HandlerAnswers
        <3> QED
            BY <2>2, <3>1, <3>2 DEF TypeOK
    <2>5. CASE d = c /\ parser[c] = "start" /\ ~UNCHANGED <<answered, handled>>
        <3>1. /\ answered' = [answered EXCEPT ![c] = @ + 1]
              /\ inbox[c] = <<>>
              /\ \E i \in HeadersEnd(c) :
                   LET size == Len(buffer[c]) - i IN
                   \/ TooLong(c, size) /\ UNCHANGED handled
                   \/ /\ body' = [body EXCEPT ![c] = size]
                      /\ handled' = [handled EXCEPT ![c] = @ + 1]
            BY <2>2, <2>5, HandlerAnswers
        <3>2. PICK i \in HeadersEnd(c) :
                \/ TooLong(c, Len(buffer[c]) - i) /\ UNCHANGED handled
                \/ /\ body' = [body EXCEPT ![c] = Len(buffer[c]) - i]
                   /\ handled' = [handled EXCEPT ![c] = @ + 1]
            BY <3>1
        <3>3. answered'[c] = answered[c] + 1
            BY <3>1 DEF TypeOK
        <3>4. \/ TooLong(c, Len(buffer[c]) - i) /\ handled'[c] = handled[c]
              \/ handled'[c] = handled[c] + 1 /\ body'[c] = Len(buffer[c]) - i
            BY <3>2 DEF TypeOK
        <3> QED
            BY <2>2, <2>5, <3>1, <3>3, <3>4
    <2>6. parser[c] \in {"start", "end"}
        BY DEF TypeOK
    <2> QED
        BY <1>1, <2>2, <2>3, <2>4, <2>5, <2>6
<1>3. CASE ClientStep \/ Signal \/ ServerStep \/ UNCHANGED vars
    BY <1>1, <1>3 DEF vars, ClientStep, Connect, Send, AskAgain, Leave, Signal, ServerStep,
                      AcceptReady, AcceptHandler, AcceptAborted, SignalHandler, client, parsed
<1>4. ASSUME NEW d \in Clients, ConnectionStep(d), ~(ReadHandler(d) /\ d \in connections)
      PROVE  UNCHANGED <<request, answered, handled>>
    BY <1>4 DEF ConnectionStep, ReadReady, ReadEof, WriteReady, ReadFailed,
                WriteHandler, AbortedHandler, ReadHandler, Destroyed, client, parsed
<1> QED
    BY <1>1, <1>2, <1>3, <1>4 DEF Next

\* The invariant behind both properties: FirstAnswer needs to know, when the
\* parser is done, that what follows in the buffer is the request's own body,
\* however the client, the network and the reads have cut it.
FlowInv == TypeOK /\ (\A c \in Clients : Order(c) /\ Stream(c)) /\ FirstAnswer

LEMMA InitFlow == Init => FlowInv
<1> SUFFICES ASSUME Init PROVE FlowInv
    OBVIOUS
<1>1. FirstAnswer
    BY DEF Init, FirstAnswer
<1> QED
    BY <1>1, InitTypes, InitOrder, InitStream DEF FlowInv

LEMMA NextFirstAnswer ==
    ASSUME FlowInv, [Next]_vars, NEW c \in Clients, answered'[c] = 1, handled'[c] = 0
    PROVE  BodyLength(c)' > request'[c].length /\ request'[c].length >= 0
<1>1. TypeOK /\ (\A d \in Clients : Order(d)) /\ Stream(c)
    BY DEF FlowInv
<1>2. answered[c] \in Nat /\ handled[c] \in Nat
    BY <1>1 DEF TypeOK
<1>3. request' = request
    BY <1>1, Answers
<1>4. BodyLength(c) > request[c].length /\ request[c].length >= 0
    <2>1. CASE answered[c] = 1 /\ handled[c] = 0
        BY <2>1 DEF FlowInv, FirstAnswer
    <2>2. CASE ~(answered[c] = 1 /\ handled[c] = 0)
        <3>1. /\ answered[c] = 0 /\ parser[c] = "start"
              /\ \E i \in HeadersEnd(c) : TooLong(c, Len(buffer[c]) - i)
            BY <1>1, <1>2, <2>2, Answers
        <3>2. PICK i \in HeadersEnd(c) : TooLong(c, Len(buffer[c]) - i)
            BY <3>1
        <3>3. /\ BodyLength(c) \in Nat /\ Len(buffer[c]) - i \in Nat
              /\ Len(buffer[c]) - i <= BodyLength(c)
            BY <1>1, <3>1, FirstBody
        <3>4. request[c].length \in Nat \cup {-1}
            BY <1>1, Texts DEF TypeOK
        <3> QED
            BY <3>2, <3>3, <3>4 DEF TooLong
    <2> QED
        BY <2>1, <2>2
<1> QED
    BY <1>3, <1>4 DEF BodyLength

LEMMA NextFlow == FlowInv /\ [Next]_vars => FlowInv'
<1> SUFFICES ASSUME FlowInv, [Next]_vars PROVE FlowInv'
    OBVIOUS
<1>1. TypeOK'
    BY NextTypes DEF FlowInv
<1>2. \A c \in Clients : (Order(c) /\ Stream(c))'
    BY NextOrder, NextStream DEF FlowInv
<1>3. FirstAnswer'
    BY NextFirstAnswer DEF FirstAnswer
<1> QED
    BY <1>1, <1>2, <1>3 DEF FlowInv

LEMMA FlowHolds == Spec => []FlowInv
BY InitFlow, NextFlow, PTL DEF Spec

\* The first answer is a 400 only for a body longer than its Content-Length,
\* however the request is cut: never for a request without a Content-Length,
\* whose -1 is compared as an unsigned number, above every length.
THEOREM FirstAnswerCorrect == Spec => []FirstAnswer
BY FlowHolds, PTL DEF FlowInv

\* A request that has arrived whole is handled with its whole body, for every
\* request, size of the buffer and cut.
THEOREM WholeBodyCorrect == Spec => WholeBody
<1>1. FlowInv /\ [Next]_vars =>
        [\A c \in Clients :
            (handled[c] = 0 /\ handled'[c] = 1 /\ answered[c] = 0
               /\ asked[c] = 1 /\ peer[c] = "open" /\ unsent[c] = <<>>)
                => body'[c] = BodyLength(c)]_vars
    <2> SUFFICES ASSUME FlowInv, Next, NEW c \in Clients,
                        handled[c] = 0, handled'[c] = 1, answered[c] = 0,
                        peer[c] = "open", unsent[c] = <<>>
                 PROVE  body'[c] = BodyLength(c)
        OBVIOUS
    <2>1. TypeOK /\ (\A d \in Clients : Order(d)) /\ Stream(c)
        BY DEF FlowInv
    <2>2. /\ parser[c] = "start" /\ inbox[c] = <<>>
          /\ \E i \in HeadersEnd(c) : body'[c] = Len(buffer[c]) - i
        BY <2>1, Answers
    <2> QED
        BY <2>1, <2>2, FirstBody
<1> QED
    BY <1>1, FlowHolds, PTL DEF Spec, WholeBody
=============================================================================
