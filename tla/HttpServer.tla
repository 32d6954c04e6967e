----------------------------- MODULE HttpServer -----------------------------
(***************************************************************************)
(* The server, the connection manager and the connections of wrappers/http *)
(* on one thread, the default of main.cpp.  A completion handler is a step; *)
(* between the moment asio has carried out an operation and its handler,   *)
(* other handlers run.  Handlers capture a plain this, so a handler that   *)
(* runs on a connection already destroyed has no defined behaviour: the    *)
(* model records that in undefined, and says nothing of what it does.      *)
(*                                                                         *)
(* What travels is a sequence of tokens: "h" is a part of the request line *)
(* and headers, "e" their end, "n" a newline of the body, "b" any other    *)
(* part of it.  Requests are well formed, except that a body may be longer *)
(* than its Content-Length says.                                           *)
(***************************************************************************)
EXTENDS Integers, Sequences

CONSTANTS
    Clients,      \* each opens one TCP connection
    NoClient,
    Requests,     \* Requests[c]: what client c may send, records of the text
                  \* of a request and its Content-Length (-1: none)
    BufferSize,   \* BUFFER_SIZE
    MaxRequests   \* bound: how often client c sends it on its connection

Tokens == {"h", "e", "b", "n"}

ASSUME ClientsAssumption == NoClient \notin Clients

\* Headers end once.
ASSUME RequestsAssumption ==
    \A c \in Clients : \A r \in Requests[c] :
        /\ r \in [text : Seq(Tokens), length : Nat \cup {-1}]
        /\ \E i \in 1 .. Len(r.text) :
              \A j \in 1 .. Len(r.text) : r.text[j] = "e" <=> j = i

ASSUME SizesAssumption == BufferSize \in Nat \ {0} /\ MaxRequests \in [Clients -> Nat \ {0}]

VARIABLES
    \* the clients
    peer,          \* "new", "open" or "closed"
    request,       \* the request that each client sends
    asked,         \* how many times it began to send it
    unsent,        \* what it has yet to send
    inbox,         \* what has arrived at the socket and was not read
    \* asio
    accept,        \* the async_accept: "waiting", "ready" or "over"
    accepted,      \* the client of an accept that is ready
    backlog,       \* clients that wait to be accepted
    signal,        \* the async_wait for a signal: "none", "queued", "done"
    op,            \* the operation of each connection
    buffer,        \* what the last read put into connection::buffer
    \* the server
    listening,     \* acceptor.is_open()
    connections,   \* connection_manager::connections
    headerBuffer,  \* connection::header_buffer
    parser,        \* request_parser::state_: "start", or "end" after the headers
    body,          \* the length of req.body
    handled,       \* history: calls of handle_request for the connection
    answered,      \* history: responses begun on the connection
    undefined      \* a handler ran on a destroyed connection

client == <<peer, request, asked, unsent>>
listener == <<accept, accepted, backlog, listening, signal>>
parsed == <<headerBuffer, parser, body, handled, answered>>
vars == <<client, inbox, listener, op, buffer, connections, parsed, undefined>>

\* No operation; a read or a write under way, carried out, failed for good (end
\* of file), or cancelled: the last three wait for their handler to run.
Operations == {"none", "reading", "read", "failed", "writing", "written", "aborted"}

Init ==
    /\ peer = [c \in Clients |-> "new"]
    /\ request \in {r \in [Clients -> UNION {Requests[c] : c \in Clients}] :
                        \A c \in Clients : r[c] \in Requests[c]}
    /\ asked = [c \in Clients |-> 0]
    /\ unsent = [c \in Clients |-> <<>>]
    /\ inbox = [c \in Clients |-> <<>>]
    /\ accept = "waiting"
    /\ accepted = NoClient
    /\ backlog = {}
    /\ signal = "none"
    /\ op = [c \in Clients |-> "none"]
    /\ buffer = [c \in Clients |-> <<>>]
    /\ listening = TRUE
    /\ connections = {}
    /\ headerBuffer = [c \in Clients |-> TRUE]
    /\ parser = [c \in Clients |-> "start"]
    /\ body = [c \in Clients |-> 0]
    /\ handled = [c \in Clients |-> 0]
    /\ answered = [c \in Clients |-> 0]
    /\ undefined = FALSE

-----------------------------------------------------------------------------
(* The clients *)

Connect(c) ==
    /\ peer[c] = "new" /\ listening
    /\ peer' = [peer EXCEPT ![c] = "open"]
    /\ asked' = [asked EXCEPT ![c] = 1]
    /\ unsent' = [unsent EXCEPT ![c] = request[c].text]
    /\ backlog' = backlog \cup {c}
    /\ UNCHANGED <<request, inbox, accept, accepted, listening, signal, op,
                   buffer, connections, parsed, undefined>>

\* The network delivers a piece of the request.
Send(c) ==
    /\ peer[c] = "open"
    /\ \E k \in 1 .. Len(unsent[c]) :
        /\ inbox' = [inbox EXCEPT ![c] = @ \o SubSeq(unsent[c], 1, k)]
        /\ unsent' = [unsent EXCEPT ![c] = SubSeq(@, k + 1, Len(@))]
    /\ UNCHANGED <<peer, request, asked, listener, op, buffer, connections,
                   parsed, undefined>>

\* The client has its answers and sends another request.
AskAgain(c) ==
    /\ peer[c] = "open" /\ asked[c] \in 1 .. MaxRequests[c] - 1
    /\ unsent[c] = <<>> /\ answered[c] >= asked[c]
    /\ asked' = [asked EXCEPT ![c] = @ + 1]
    /\ unsent' = [unsent EXCEPT ![c] = request[c].text]
    /\ UNCHANGED <<peer, request, inbox, listener, op, buffer, connections,
                   parsed, undefined>>

\* The client closes the connection, whatever it has yet to send.
Leave(c) ==
    /\ peer[c] = "open"
    /\ peer' = [peer EXCEPT ![c] = "closed"]
    /\ unsent' = [unsent EXCEPT ![c] = <<>>]
    /\ UNCHANGED <<request, asked, inbox, listener, op, buffer, connections,
                   parsed, undefined>>

-----------------------------------------------------------------------------
(* asio carries out operations. *)

AcceptReady ==
    /\ accept = "waiting" /\ listening
    /\ \E c \in backlog : accepted' = c /\ backlog' = backlog \ {c}
    /\ accept' = "ready"
    /\ UNCHANGED <<client, inbox, listening, signal, op, buffer, connections,
                   parsed, undefined>>

\* async_read_some takes what there is, up to the size of the buffer.
ReadReady(c) ==
    /\ op[c] = "reading" /\ inbox[c] # <<>>
    /\ LET n == IF Len(inbox[c]) > BufferSize THEN BufferSize ELSE Len(inbox[c])
       IN  /\ buffer' = [buffer EXCEPT ![c] = SubSeq(inbox[c], 1, n)]
           /\ inbox' = [inbox EXCEPT ![c] = SubSeq(@, n + 1, Len(@))]
    /\ op' = [op EXCEPT ![c] = "read"]
    /\ UNCHANGED <<client, listener, connections, parsed, undefined>>

ReadEof(c) ==
    /\ op[c] = "reading" /\ inbox[c] = <<>> /\ peer[c] = "closed"
    /\ op' = [op EXCEPT ![c] = "failed"]
    /\ UNCHANGED <<client, inbox, listener, buffer, connections, parsed, undefined>>

\* A write ends, with or without an error: its handler makes no difference.
WriteReady(c) ==
    /\ op[c] = "writing"
    /\ op' = [op EXCEPT ![c] = "written"]
    /\ UNCHANGED <<client, inbox, listener, buffer, connections, parsed, undefined>>

Signal ==
    /\ signal = "none"
    /\ signal' = "queued"
    /\ UNCHANGED <<client, inbox, accept, accepted, backlog, listening, op,
                   buffer, connections, parsed, undefined>>

-----------------------------------------------------------------------------
(* The handlers of server *)

\* Slip: the handler does not look whether the acceptor is open.
AcceptUnchecked ==
    /\ accept = "ready"
    /\ connections' = connections \cup {accepted}
    /\ op' = [op EXCEPT ![accepted] = "reading"]
    /\ accept' = IF listening THEN "waiting" ELSE "over"
    /\ accepted' = NoClient
    /\ UNCHANGED <<client, inbox, backlog, listening, signal, buffer, parsed,
                   undefined>>

\* do_accept, connection_manager::start, connection::start
AcceptHandler ==
    /\ accept = "ready"
    /\ IF listening
       THEN /\ connections' = connections \cup {accepted}
            /\ op' = [op EXCEPT ![accepted] = "reading"]
            /\ accept' = "waiting"
       ELSE accept' = "over" /\ UNCHANGED <<connections, op>>
    /\ accepted' = NoClient
    /\ UNCHANGED <<client, inbox, backlog, listening, signal, buffer, parsed,
                   undefined>>

\* The handler of a cancelled accept
AcceptAborted ==
    /\ accept = "waiting" /\ ~listening
    /\ accept' = "over"
    /\ UNCHANGED <<client, inbox, accepted, backlog, listening, signal, op,
                   buffer, connections, parsed, undefined>>

\* Slip: stop_all closes the sockets that read, not those that write.
StopReaders ==
    /\ signal = "queued"
    /\ signal' = "done"
    /\ listening' = FALSE
    /\ op' = [c \in Clients |->
                IF c \in connections /\ op[c] = "reading" THEN "aborted" ELSE op[c]]
    /\ UNCHANGED <<client, inbox, accept, accepted, backlog, buffer,
                   connections, parsed, undefined>>

\* do_await_stop, connection_manager::stop_all: sockets close, which cancels
\* what is not yet carried out, and the connections are destroyed.
SignalHandler ==
    /\ signal = "queued"
    /\ signal' = "done"
    /\ listening' = FALSE
    /\ op' = [c \in Clients |->
                IF c \in connections /\ op[c] \in {"reading", "writing"}
                THEN "aborted" ELSE op[c]]
    /\ connections' = {}
    /\ UNCHANGED <<client, inbox, accept, accepted, backlog, buffer, parsed,
                   undefined>>

-----------------------------------------------------------------------------
(* The handlers of connection *)

\* do_read, do_write
Read(c) ==
    /\ op' = [op EXCEPT ![c] = "reading"]
    /\ UNCHANGED answered

Write(c) ==
    /\ op' = [op EXCEPT ![c] = "writing"]
    /\ answered' = [answered EXCEPT ![c] = @ + 1]

\* request_handler::handle_request, then the response
Serve(c, size) ==
    /\ body' = [body EXCEPT ![c] = size]
    /\ handled' = [handled EXCEPT ![c] = @ + 1]
    /\ Write(c)

\* The stock response 400
Refuse(c) == Write(c) /\ UNCHANGED <<body, handled>>

\* Slip: content_len is compared as a signed number.
TooLongSigned(c, size) == size > request[c].length

\* As an unsigned number, the -1 of a request without Content-Length is larger
\* than any size.
TooLong(c, size) == request[c].length >= 0 /\ size > request[c].length

\* Slip: the end of the headers is taken to be one character later.
HeadersEndPast(c) ==
    {i \in 2 .. Len(buffer[c]) + 1 :
        IF parser[c] = "start" THEN buffer[c][i - 1] = "e" ELSE i = 2 /\ buffer[c][1] = "n"}

\* request_parser::parse reads tokens until it is done with the headers; it is
\* never reset, and then takes one more newline for their end.
HeadersEnd(c) ==
    {i \in 1 .. Len(buffer[c]) :
        IF parser[c] = "start" THEN buffer[c][i] = "e" ELSE i = 1 /\ buffer[c][1] = "n"}

\* Slip: no further read is begun.
NoHeadersYetForgets(c) ==
    /\ HeadersEnd(c) = {}
    /\ IF parser[c] = "start"
       THEN op' = [op EXCEPT ![c] = "none"] /\ UNCHANGED <<body, handled, answered>>
       ELSE Refuse(c)
    /\ UNCHANGED <<parser, headerBuffer>>

\* indeterminate: read more headers.  bad: this is how every read ends that
\* comes after complete headers, unless it begins with a newline.
NoHeadersYet(c) ==
    /\ HeadersEnd(c) = {}
    /\ IF parser[c] = "start"
       THEN Read(c) /\ UNCHANGED <<body, handled>>
       ELSE Refuse(c)
    /\ UNCHANGED <<parser, headerBuffer>>

\* Slip: what the socket still has does not matter.
HeadersCompleteHasty(c) ==
    \E i \in HeadersEnd(c) :
        LET size == Len(buffer[c]) - i IN
        /\ parser' = [parser EXCEPT ![c] = "end"]
        /\ IF TooLong(c, size) THEN Refuse(c) ELSE Serve(c, size)
        /\ UNCHANGED headerBuffer

\* good: what the socket has available decides.  If nothing, the body is taken
\* to be complete; if something, no operation is begun.
HeadersComplete(c) ==
    \E i \in HeadersEnd(c) :
        LET size == Len(buffer[c]) - i IN
        /\ parser' = [parser EXCEPT ![c] = "end"]
        /\ IF inbox[c] = <<>>
           THEN /\ IF TooLong(c, size) THEN Refuse(c) ELSE Serve(c, size)
                /\ UNCHANGED headerBuffer
           ELSE /\ body' = [body EXCEPT ![c] = size]
                /\ headerBuffer' = [headerBuffer EXCEPT ![c] = FALSE]
                /\ op' = [op EXCEPT ![c] = "none"]
                /\ UNCHANGED <<handled, answered>>

HandleHeaderBuffer(c) == NoHeadersYet(c) \/ HeadersComplete(c)

\* handle_body_buffer: no read brings it here, for none is begun once
\* header_buffer is false
HandleBodyBuffer(c) ==
    LET size == body[c] + Len(buffer[c]) IN
    /\ IF ~TooLong(c, size) /\ inbox[c] = <<>>
       THEN Serve(c, size)
       ELSE /\ body' = [body EXCEPT ![c] = size]
            /\ UNCHANGED handled
            /\ IF TooLong(c, size) THEN Write(c) ELSE Read(c)
    /\ headerBuffer' = [headerBuffer EXCEPT ![c] = op'[c] = "writing"]
    /\ UNCHANGED parser

\* The handler uses the members of a connection that no longer exists.
Destroyed(c) ==
    /\ c \notin connections
    /\ undefined' = TRUE
    /\ UNCHANGED <<client, inbox, listener, op, buffer, connections, parsed>>

\* The handler of a read that brought something, which nothing reads again
ReadHandler(c) ==
    /\ op[c] = "read"
    /\ \/ Destroyed(c)
       \/ /\ c \in connections
          /\ IF headerBuffer[c] THEN HandleHeaderBuffer(c) ELSE HandleBodyBuffer(c)
          /\ buffer' = [buffer EXCEPT ![c] = <<>>]
          /\ UNCHANGED <<client, inbox, listener, connections, undefined>>

\* The handler of a read that failed: connection_manager::stop
ReadFailed(c) ==
    /\ op[c] = "failed"
    /\ \/ Destroyed(c)
       \/ /\ c \in connections
          /\ connections' = connections \ {c}
          /\ op' = [op EXCEPT ![c] = "none"]
          /\ UNCHANGED <<client, inbox, listener, buffer, parsed, undefined>>

\* The handler of a write
WriteHandler(c) ==
    /\ op[c] = "written"
    /\ \/ Destroyed(c)
       \/ /\ c \in connections
          /\ op' = [op EXCEPT ![c] = "reading"]
          /\ UNCHANGED <<client, inbox, listener, buffer, connections, parsed,
                         undefined>>

\* The handler of a cancelled operation touches no member.
AbortedHandler(c) ==
    /\ op[c] = "aborted"
    /\ op' = [op EXCEPT ![c] = "none"]
    /\ UNCHANGED <<client, inbox, listener, buffer, connections, parsed, undefined>>

-----------------------------------------------------------------------------

ClientStep == \E c \in Clients : Connect(c) \/ Send(c) \/ AskAgain(c) \/ Leave(c)

ServerStep == AcceptReady \/ AcceptHandler \/ AcceptAborted \/ SignalHandler

ConnectionStep(c) ==
    \/ ReadReady(c)
    \/ ReadEof(c)
    \/ WriteReady(c)
    \/ ReadHandler(c)
    \/ ReadFailed(c)
    \/ WriteHandler(c)
    \/ AbortedHandler(c)

Next ==
    \/ ClientStep
    \/ Signal
    \/ ServerStep
    \/ \E c \in Clients : ConnectionStep(c)

\* io_context::run takes every handler in its turn, and asio sees every socket
\* that is ready.  Clients and signals come when they like.
Fairness ==
    /\ WF_vars(AcceptReady)
    /\ WF_vars(AcceptHandler \/ AcceptAborted)
    /\ WF_vars(SignalHandler)
    /\ \A c \in Clients : WF_vars(ConnectionStep(c))

Spec == Init /\ [][Next]_vars /\ Fairness

-----------------------------------------------------------------------------

TypeOK ==
    /\ peer \in [Clients -> {"new", "open", "closed"}]
    /\ asked \in [Clients -> Nat]
    /\ \A c \in Clients : request[c] \in Requests[c] /\ asked[c] <= MaxRequests[c]
    /\ unsent \in [Clients -> Seq(Tokens)]
    /\ inbox \in [Clients -> Seq(Tokens)]
    /\ accept \in {"waiting", "ready", "over"}
    /\ accepted \in Clients \cup {NoClient}
    /\ accept = "ready" <=> accepted # NoClient
    /\ backlog \subseteq Clients
    /\ signal \in {"none", "queued", "done"}
    /\ op \in [Clients -> Operations]
    /\ buffer \in [Clients -> Seq(Tokens)]
    /\ listening \in BOOLEAN
    /\ connections \subseteq Clients
    /\ headerBuffer \in [Clients -> BOOLEAN]
    /\ parser \in [Clients -> {"start", "end"}]
    /\ body \in [Clients -> Nat]
    /\ handled \in [Clients -> Nat]
    /\ answered \in [Clients -> Nat]
    /\ undefined \in BOOLEAN

\* A connection of the manager always has an operation whose handler will run,
\* except one that waits for the rest of a body: no other path forgets to go on.
Attended ==
    \A c \in connections : op[c] = "none" => ~headerBuffer[c]

\* After stop_all no connection is registered and no operation under way, also
\* if an accept had been carried out before: nothing keeps run() from returning.
StoppedForGood ==
    signal = "done" =>
        /\ connections = {}
        /\ \A c \in Clients : op[c] \notin {"reading", "writing"}

\* The length of the body that a client sends
BodyLength(c) ==
    LET text == request[c].text IN
    Len(text) - CHOOSE i \in 1 .. Len(text) : text[i] = "e"

\* The first answer on a connection is a 400 only for a body longer than the
\* Content-Length: not for a request without one, however its headers are cut.
FirstAnswer ==
    \A c \in Clients :
        (answered[c] = 1 /\ handled[c] = 0) => BodyLength(c) > request[c].length
                                               /\ request[c].length >= 0

\* A request that has arrived whole when it is handled is handled with its whole
\* body, whether or not one read brought it.
WholeBody ==
    [][\A c \in Clients :
          (handled[c] = 0 /\ handled'[c] = 1 /\ answered[c] = 0
             /\ asked[c] = 1 /\ peer[c] = "open" /\ unsent[c] = <<>>)
              => body'[c] = BodyLength(c)]_vars

Excused(c) == peer[c] = "closed" \/ signal # "none" \/ undefined

\* A request sent whole is answered, unless its body is still being read when
\* its headers are complete: no other path leaves the client waiting.
AnsweredOrStuck ==
    \A c \in Clients :
        (asked[c] = 1 /\ unsent[c] = <<>>)
            ~> (answered[c] > 0 \/ ~headerBuffer[c] \/ Excused(c))

\* After a signal run() returns: every handler has run and none is to come.
StopDrains ==
    (signal = "queued")
        ~> (undefined \/ (accept = "over" /\ \A c \in Clients : op[c] = "none"))

\* A request sent whole is answered, on a connection that its client keeps open.
RequestAnswered ==
    \A c \in Clients :
        (asked[c] = 1 /\ unsent[c] = <<>>) ~> (answered[c] > 0 \/ Excused(c))

\* No handler runs on a connection that was destroyed.
GracefulStop == ~undefined
=============================================================================
